-------------------------------- MODULE Mailbox --------------------------------
(* What the queue of a conversation promises: messages are taken one at a time, *)
(* in the order in which they came, and when the box is emptied none of those   *)
(* that waited is ever taken.                                                   *)
CONSTANTS
  Msg,
  None

VARIABLES
  waiting,    \* the messages in the box
  ahead,      \* [Msg -> SUBSET Msg]: those of them that came before each of them
  taken,      \* the message being worked on, or None
  over        \* messages that are done with, answered or thrown away

mailbox == <<waiting, ahead, taken, over>>

Fresh(m) == m \in Msg \ (waiting \cup over \cup {taken})

Init ==
  /\ waiting = {}
  /\ ahead = [m \in Msg |-> {}]
  /\ taken = None
  /\ over = {}

Put(m) ==
  /\ Fresh(m)
  /\ waiting' = waiting \cup {m}
  /\ ahead' = [ahead EXCEPT ![m] = waiting]
  /\ UNCHANGED <<taken, over>>

Take(m) ==
  /\ taken = None
  /\ m \in waiting /\ ahead[m] = {}
  /\ taken' = m
  /\ waiting' = waiting \ {m}
  /\ ahead' = [n \in Msg |-> ahead[n] \ {m}]
  /\ UNCHANGED over

Done(m) ==
  /\ taken = m
  /\ taken' = None
  /\ over' = over \cup {m}
  /\ UNCHANGED <<waiting, ahead>>

Empty ==
  /\ over' = over \cup waiting
  /\ waiting' = {}
  /\ ahead' = [n \in Msg |-> {}]
  /\ UNCHANGED taken

(* m comes instead of whatever waits. *)
Replace(m) ==
  /\ Fresh(m)
  /\ over' = over \cup waiting
  /\ waiting' = {m}
  /\ ahead' = [n \in Msg |-> {}]
  /\ UNCHANGED taken

Next == Empty \/ \E m \in Msg : Put(m) \/ Replace(m) \/ Take(m) \/ Done(m)

Spec == Init /\ [][Next]_mailbox
=============================================================================
