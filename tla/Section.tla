------------------------------- MODULE Section -------------------------------
(* What src/lib/workspaceLock.ts promises of takeGuard: one process at a time  *)
(* is between a successful takeGuard and the end of its critical section.  A   *)
(* process ends its section by calling release() or by dying.                  *)
CONSTANT Proc          \* the processes that call takeGuard

VARIABLE inside        \* the processes in the critical section

Init == inside = {}

Enter(p) == /\ inside = {}
            /\ inside' = {p}

Leave(p) == /\ p \in inside
            /\ inside' = inside \ {p}

Next == \E p \in Proc : Enter(p) \/ Leave(p)

Spec == Init /\ [][Next]_inside
=============================================================================
