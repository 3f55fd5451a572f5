--------------------------- MODULE ConversationQueue ---------------------------
(* The serial queue of one conversation: the promise chain of                   *)
(* src/channels/core/engine.ts and the epochs of ConversationBacklog            *)
(* (src/channels/core/backlog.ts).  A callback that was attached to the chain   *)
(* cannot be taken off again; it finds its epoch stale when its turn comes.     *)
EXTENDS Integers, FiniteSets

CONSTANTS
  Msg,        \* the messages of the conversation
  None,       \* no message
  Clumsy      \* those whose handler may end in an exception

ASSUME QueueAssumption == None \notin Msg /\ Clumsy \subseteq Msg

VARIABLES
  epoch, pending,   \* the backlog slot; one that was deleted is 0, 0
  tail,             \* chatChains: the last promise of the chain
  place,            \* where each message is
  prev,             \* a queued message: the promise it is chained onto
  ticket,           \* a queued message: the epoch its callback captured
  thrown,           \* messages whose handler has thrown
  ahead             \* history: what waited when each waiting message came

slot == <<epoch, pending>>
queue == <<slot, tail, place, prev, ticket, thrown, ahead>>

(* ended: the body is over and the finally of the promise has not run yet. *)
Places == {"new", "queued", "running", "ended", "settled"}

At(p) == {m \in Msg : place[m] = p}
Waiting == {m \in At("queued") : ticket[m] = epoch}
Move(m, p) == place' = [place EXCEPT ![m] = p]
-----------------------------------------------------------------------------
(* The message is tied to the epoch e before its callback is attached.          *)
enqueue(m, e) ==
  /\ place[m] = "new"
  /\ Move(m, "queued")
  /\ ticket' = [ticket EXCEPT ![m] = e]
  /\ prev' = [prev EXCEPT ![m] = tail]
  /\ tail' = m
  /\ UNCHANGED thrown

(* A message that finds no active turn waits for its turn.                      *)
Enqueue(m) ==
  /\ enqueue(m, epoch)
  /\ pending' = pending + 1
  /\ ahead' = [ahead EXCEPT ![m] = Waiting]
  /\ UNCHANGED epoch

NobodyAhead == ahead' = [n \in Msg |-> {}]

(* Plausible bug: the message is queued before the flush that was meant for its *)
(* predecessors.                                                                *)
InterruptTooLate(m) ==
  /\ enqueue(m, epoch)
  /\ epoch' = epoch + 1
  /\ pending' = 0
  /\ NobodyAhead

(* One that interrupts gives up what is queued first: flush, then enqueue.      *)
Interrupt(m) ==
  /\ enqueue(m, epoch + 1)
  /\ epoch' = epoch + 1
  /\ pending' = 1
  /\ NobodyAhead

(* /stop gives up what is queued.                                               *)
flush ==
  /\ epoch' = epoch + 1
  /\ pending' = 0
  /\ NobodyAhead
  /\ UNCHANGED <<tail, place, prev, ticket, thrown>>

(* Plausible bug (GitHub #135): a body that throws wedges the chain.            *)
ReadyUnlessThrown(m) == prev[m] \in (At("settled") \ thrown) \cup {None}

Ready(m) == prev[m] \in At("settled") \cup {None}

(* Plausible bug: a superseded callback takes one off the count, too.           *)
CountAnyway(m) == pending' = IF pending > 0 THEN pending - 1 ELSE 0

Count(m) == pending' = IF ticket[m] = epoch /\ pending > 0 THEN pending - 1 ELSE pending

(* The callback of the chain; a stale one returns without touching the slot.    *)
claim(m) ==
  /\ place[m] = "queued"
  /\ Ready(m)
  /\ Move(m, IF ticket[m] = epoch THEN "running" ELSE "ended")
  /\ Count(m)
  /\ ticket' = [ticket EXCEPT ![m] = 0]
  /\ prev' = [prev EXCEPT ![m] = None]
  /\ ahead' = [n \in Msg |-> ahead[n] \ {m}]
  /\ UNCHANGED <<epoch, tail, thrown>>

(* The body returns or throws.                                                  *)
Finish(m) ==
  /\ place[m] = "running"
  /\ Move(m, "ended")
  /\ \/ UNCHANGED thrown
     \/ m \in Clumsy /\ thrown' = thrown \cup {m}
  /\ UNCHANGED <<slot, tail, prev, ticket, ahead>>

(* Plausible bug: whoever settles forgets the slot, although others are queued. *)
ForgetAlways(m) ==
  /\ tail' = IF tail = m THEN None ELSE tail
  /\ IF pending = 0 THEN epoch' = 0 /\ pending' = 0 ELSE UNCHANGED slot

(* release: the settled tail forgets the slot, unless something is pending.     *)
Forget(m) ==
  IF tail = m
    THEN /\ tail' = None
         /\ IF pending = 0 THEN epoch' = 0 /\ pending' = 0 ELSE UNCHANGED slot
    ELSE UNCHANGED <<tail, slot>>

Settle(m) ==
  /\ place[m] = "ended"
  /\ Move(m, "settled")
  /\ Forget(m)
  /\ UNCHANGED <<prev, ticket, thrown, ahead>>
-----------------------------------------------------------------------------
Init ==
  /\ epoch = 0 /\ pending = 0
  /\ tail = None
  /\ place = [m \in Msg |-> "new"]
  /\ prev = [m \in Msg |-> None]
  /\ ticket = [m \in Msg |-> 0]
  /\ thrown = {}
  /\ ahead = [m \in Msg |-> {}]

Step(m) == Enqueue(m) \/ Interrupt(m) \/ claim(m) \/ Finish(m) \/ Settle(m)
Next == flush \/ \E m \in Msg : Step(m)

Spec == Init /\ [][Next]_queue
-----------------------------------------------------------------------------
(* Properties. *)

TypeOK ==
  /\ epoch \in Nat /\ pending \in Nat
  /\ tail \in Msg \cup {None}
  /\ place \in [Msg -> Places]
  /\ prev \in [Msg -> Msg \cup {None}]
  /\ ticket \in [Msg -> Nat]
  /\ thrown \subseteq Msg
  /\ ahead \in [Msg -> SUBSET Msg]

(* The count that /stop reports is exactly what it drops, whatever superseded   *)
(* callbacks are still on the chain.                                            *)
CountExact == pending = Cardinality(Waiting)

Running == IF At("running") = {} THEN None ELSE CHOOSE m \in Msg : place[m] = "running"
Superseded == {m \in At("queued") : ticket[m] # epoch}

(* The epochs make a box that can be emptied out of a chain that cannot: a      *)
(* superseded message never runs, one that came later does, in order and one at *)
(* a time.                                                                      *)
Box == INSTANCE Mailbox WITH
         waiting <- Waiting, taken <- Running,
         over <- At("ended") \cup At("settled") \cup Superseded
Implements == Box!Spec
=============================================================================
