--------------------------- MODULE MCWorkspaceLock ---------------------------
(* Instances of WorkspaceLock for TLC.                                          *)
EXTENDS WorkspaceLock, TLC

CONSTANTS p1, p2, t1, t2

Procs1 == {p1}
Procs2 == {p1, p2}
Turns2 == {t1, t2}
TurnSymmetry == Permutations(Turns2)
Symmetry == Permutations(Procs2) \cup TurnSymmetry
==============================================================================
