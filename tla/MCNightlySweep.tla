----------------------------- MODULE MCNightlySweep -----------------------------
(* An instance of NightlySweep for TLC: two sweeps of two closed days.          *)
EXTENDS NightlySweep

CONSTANTS p1, p2
=============================================================================
