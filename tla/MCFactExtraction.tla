---------------------------- MODULE MCFactExtraction ----------------------------
(* An instance of FactExtraction for TLC: the drain of the daemon and one pass  *)
(* behind a turn.                                                               *)
EXTENDS FactExtraction

CONSTANTS drain, other, k1, k2, k3, k4
=============================================================================
