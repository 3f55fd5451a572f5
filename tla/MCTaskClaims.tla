----------------------------- MODULE MCTaskClaims -----------------------------
(* Small instances of TaskClaims for TLC. *)
EXTENDS TaskClaims, TLC

CONSTANTS c1, c2, c3, w1, w2, q1

OnePersona == [t \in Task |-> q1]
AllOneOff == [t \in Task |-> 1]
WakeTwice == [t \in Task |-> IF t = w1 THEN 2 ELSE 1]
Unlimited == [t \in Task |-> 0]
EveryUnit == [t \in Task |-> 1]
ShortRuns == [t \in Task |-> 1]
HourRuns == [t \in Task |-> 2]
LongRuns == [t \in Task |-> IF t \in Wake THEN 2 ELSE 1]

(* Pids are interchangeable. *)
PidSymmetry == Permutations(Pid)
=============================================================================
