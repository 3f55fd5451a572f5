--------------------------- MODULE ConversationProofs ---------------------------
(* What Conversation promises of every number of messages, reactions, commands  *)
(* and exceptions: it uses its queue as a queue, what can be aborted is what    *)
(* runs, and nothing that was given up is answered.                             *)
EXTENDS Conversation, ConversationQueueProofs

USE MessageAssumption, QueueAssumption, CacheAssumption

(* What a turn writes and the prompt cache do not matter here.                  *)
outside == <<queue, activeTurn, reason, silenced>>

(* Every step of the conversation is one of its queue, or none.                 *)
LEMMA StepQueue == [ConversationNext]_vars => [Next]_queue
<1> SUFFICES ASSUME [ConversationNext]_vars PROVE [Next]_queue
  OBVIOUS
<1>1. ASSUME NEW m \in Msg, Arrive(m) \/ Handle(m) \/ Escape(m) PROVE [Next]_queue
  <2>1. CASE Arrive(m)
    BY <2>1 DEF Arrive, Next, Step
  <2>2. CASE Start(m)
    BY <2>2 DEF Start, Next, Step
  <2>3. CASE FetchFails(m) \/ Escape(m) \/ CloseAborted(m) \/ Send(m)
    BY <2>3 DEF FetchFails, Escape, CloseAborted, Send, Next, Step
  <2>4. CASE Register(m) \/ Close(m)
    BY <2>4 DEF Register, Close
  <2>5. CASE Settled(m)
    BY <2>5 DEF Settled, Next, Step
  <2> QED
    BY <1>1, <2>1, <2>2, <2>3, <2>4, <2>5 DEF Handle
<1>2. ASSUME NEW t \in Turn, React(t) \/ Body(t) \/ Halt(t) \/ Throw(t) PROVE UNCHANGED queue
  BY <1>2 DEF React, Body, Halt, Throw, Load, Hold, Prepare, Answer, Persist, Complete, CloseReaction
<1>3. CASE Stop
  BY <1>3 DEF Stop, Next
<1>4. CASE Reset
  BY <1>4 DEF Reset
<1>5. CASE UNCHANGED vars
  BY <1>5 DEF vars
<1> QED
  BY <1>1, <1>2, <1>3, <1>4, <1>5 DEF ConversationNext

(* The turns, commands and exceptions of a conversation use the queue as such.  *)
THEOREM UsesQueue == ConversationSpec => Spec
<1>1. ConversationInit => Init
  BY DEF ConversationInit
<1> QED
  BY <1>1, StepQueue, PTL DEF ConversationSpec, Spec

(* /stop drops exactly as many messages as it says.                             *)
THEOREM StopCounts == ConversationSpec => []CountExact
  BY UsesQueue, QueueCountExact, PTL

(* A conversation takes its messages as a mailbox does, whatever its turns do.  *)
THEOREM TakesAsMailbox == ConversationSpec => Implements
  BY UsesQueue, ImplementsMailbox, PTL

LEMMA InitTurns == ConversationInit => CInv
<1> SUFFICES ASSUME ConversationInit PROVE CInv
  OBVIOUS
<1>1. phase \in [Turn -> Phases] /\ reason \in [Turn -> Reasons \cup {None}]
  BY DEF ConversationInit, Phases
<1>2. Working /\ ActiveIsRunning
  BY DEF ConversationInit, Init, Working, ActiveIsRunning, Busy, InTurn
<1> QED
  BY <1>1, <1>2 DEF ConversationInit, CInv, TurnsTyped

(* Inside a turn nothing changes for those who abort it.                        *)
LEMMA Inside ==
  ASSUME CInv, NEW t \in Turn, NEW p \in InTurn, phase[t] \in InTurn, Enter(t, p), UNCHANGED outside
  PROVE  CInv'
<1>1. \A s \in Turn : phase'[s] = IF s = t THEN p ELSE phase[s]
  BY DEF CInv, TurnsTyped, Enter
<1>2. phase' \in [Turn -> Phases]
  BY DEF CInv, TurnsTyped, Enter, Phases
<1>3. Working' /\ ActiveIsRunning'
  BY <1>1 DEF CInv, TurnsTyped, Working, ActiveIsRunning, Stranded, Busy, outside, queue
<1>4. \A m \in silenced' : Hushed(m)'
  BY <1>1 DEF CInv, TurnsTyped, Hushed, aborted, outside, queue, slot, InTurn
<1> QED
  BY <1>2, <1>3, <1>4 DEF CInv, TurnsTyped, outside

(* Nor does a reaction, which runs beside the queue.                            *)
LEMMA Beside ==
  ASSUME CInv, NEW t \in Reaction, NEW p \in Phases, Enter(t, p), UNCHANGED outside
  PROVE  CInv'
<1>1. \A m \in Msg : phase'[m] = phase[m]
  BY DEF CInv, TurnsTyped, Enter
<1>2. phase' \in [Turn -> Phases]
  BY DEF CInv, TurnsTyped, Enter
<1>3. Working' /\ ActiveIsRunning'
  BY <1>1 DEF CInv, TurnsTyped, Working, ActiveIsRunning, Stranded, outside, queue
<1>4. \A m \in silenced' : Hushed(m)'
  BY <1>1 DEF CInv, TurnsTyped, Hushed, aborted, outside, queue, slot
<1> QED
  BY <1>2, <1>3, <1>4 DEF CInv, TurnsTyped, outside

LEMMA BodyTurns ==
  ASSUME CInv, NEW t \in Turn, React(t) \/ Body(t) \/ Halt(t) \/ Throw(t) PROVE CInv'
<1>1. CASE React(t)
  BY <1>1, Beside DEF React, outside, user, Phases, InTurn
<1>2. CASE Load(t)
  BY <1>2, Inside DEF Load, outside, user, InTurn
<1>3. CASE Hold(t)
  BY <1>3, Inside DEF Hold, outside, user, InTurn
<1>4. CASE Prepare(t)
  BY <1>4, Inside DEF Prepare, outside, user, InTurn
<1>5. CASE Answer(t)
  BY <1>5, Inside DEF Answer, outside, user, InTurn
<1>6. CASE Persist(t)
  BY <1>6, Inside DEF Persist, outside, user, InTurn
<1>7. CASE Complete(t)
  BY <1>7, Inside DEF Complete, outside, user, InTurn
<1>8. CASE CloseReaction(t)
  BY <1>8, Beside DEF CloseReaction, outside, user, Phases
<1>9. CASE Throw(t)
  BY <1>9, Inside DEF Throw, outside, InTurn
<1>10. CASE Halt(t)
  BY <1>10, Inside DEF Halt, outside, InTurn
<1> QED
  BY <1>1, <1>2, <1>3, <1>4, <1>5, <1>6, <1>7, <1>8, <1>9, <1>10 DEF Body

(* An abort gives a reason to the turn that can be aborted.                     *)
LEMMA Aborts ==
  ASSUME CInv, NEW why \in Reasons, abort(why)
  PROVE  /\ reason' \in [Turn -> Reasons \cup {None}]
         /\ \A t \in Turn : aborted(t) => aborted(t)'
         /\ \A t \in Turn : t = activeTurn => aborted(t)'
<1>1. \A t \in Turn : reason'[t] = IF t = activeTurn /\ reason[t] = None THEN why ELSE reason[t]
  BY DEF abort
<1>2. reason' \in [Turn -> Reasons \cup {None}]
  BY DEF CInv, TurnsTyped, abort
<1>3. why # None
  BY DEF Reasons
<1> QED
  BY <1>1, <1>2, <1>3 DEF aborted

(* What is given up is hushed, or over and only left behind.                    *)
LEMMA ActiveHushed ==
  ASSUME CInv, NEW why \in Reasons, abort(why), NEW m \in Active
  PROVE  /\ m \in Msg
         /\ \/ place[m] = "running" /\ aborted(m)' /\ phase[m] # "sending"
            \/ place[m] \in {"ended", "settled"}
<1>1. m \in Msg /\ m = activeTurn
  BY DEF Active, CInv, TurnsTyped
<1>2. aborted(m)'
  BY <1>1, Aborts
<1>3. CASE phase[m] \in InTurn
  BY <1>1, <1>2, <1>3 DEF CInv, TurnsTyped, Working, Busy, InTurn
<1> QED
  BY <1>1, <1>3 DEF CInv, ActiveIsRunning, Stranded

LEMMA ArriveTurns == ASSUME QInv, CInv, NEW m \in Msg, Arrive(m) PROVE CInv'
<1>1. TypeOK /\ Slot /\ epoch \in Nat /\ phase' = phase /\ activeTurn' = activeTurn
  BY DEF QInv, TypeOK, Arrive
<1>2. /\ \A n \in Msg : place'[n] = IF n = m THEN "queued" ELSE place[n]
      /\ \A n \in Msg \ {m} : ticket'[n] = ticket[n]
      /\ place[m] = "new"
  BY <1>1 DEF Arrive, Enqueue, Interrupt, enqueue, Move, TypeOK
<1>3. Working' /\ ActiveIsRunning'
  <2>1. thrown' = thrown
    BY DEF Arrive, Enqueue, Interrupt, enqueue
  <2> QED
    BY <1>1, <1>2, <2>1 DEF CInv, TurnsTyped, Working, ActiveIsRunning, Stranded
<1>4. m \notin silenced
  BY <1>2 DEF CInv, TurnsTyped, Hushed
<1>5. CASE activeTurn = None
  <2>1. UNCHANGED <<reason, silenced, epoch>>
    BY <1>5 DEF Arrive, Enqueue
  <2>2. \A n \in silenced : Hushed(n)'
    BY <1>1, <1>2, <1>4, <2>1 DEF CInv, TurnsTyped, Hushed, aborted
  <2> QED
    BY <1>1, <1>3, <2>1, <2>2 DEF CInv, TurnsTyped
<1>6. CASE activeTurn # None
  <2>1. /\ epoch' = epoch + 1 /\ abort("interrupt") /\ "interrupt" \in Reasons
        /\ silenced' = silenced \cup Active \cup Waiting
    BY <1>6 DEF Arrive, Interrupt, Reasons
  <2>2. \A n \in At("queued") : n # m /\ n \in Msg /\ ticket'[n] # epoch' /\ place'[n] = "queued"
    BY <1>1, <1>2, <2>1 DEF Slot, At, TypeOK
  <2>3. \A n \in Waiting : Hushed(n)' /\ n \in Msg
    BY <2>2 DEF Waiting, Hushed
  <2>4. ASSUME NEW n \in Active PROVE Hushed(n)' /\ n \in Msg
    <3>1. /\ n \in Msg
          /\ \/ place[n] = "running" /\ aborted(n)' /\ phase[n] # "sending"
             \/ place[n] \in {"ended", "settled"}
      BY <2>1, <2>4, ActiveHushed
    <3> QED
      BY <1>1, <1>2, <3>1 DEF Hushed
  <2>5. ASSUME NEW n \in silenced PROVE Hushed(n)'
    <3>1. n \in Msg /\ n # m /\ Hushed(n) /\ place'[n] = place[n]
      BY <1>2, <1>4 DEF CInv, TurnsTyped
    <3>2. CASE place[n] = "queued"
      BY <2>2, <3>1, <3>2 DEF Hushed, At
    <3>3. CASE place[n] # "queued"
      BY <1>1, <2>1, <3>1, <3>3, Aborts DEF Hushed
    <3> QED
      BY <3>2, <3>3
  <2> QED
    BY <1>1, <1>3, <2>1, <2>3, <2>4, <2>5, Aborts DEF CInv, TurnsTyped
<1> QED
  BY <1>5, <1>6

LEMMA StopTurns == ASSUME QInv, CInv, Stop PROVE CInv'
<1>1. /\ TypeOK /\ Slot /\ epoch \in Nat /\ UNCHANGED <<phase, activeTurn, place, ticket, thrown>>
      /\ epoch' = epoch + 1 /\ abort("stop") /\ "stop" \in Reasons
      /\ silenced' = silenced \cup Active \cup Waiting
  BY DEF QInv, TypeOK, Stop, flush, Reasons
<1>2. Working' /\ ActiveIsRunning'
  BY <1>1 DEF CInv, TurnsTyped, Working, ActiveIsRunning, Stranded
<1>3. \A n \in At("queued") : n \in Msg /\ ticket'[n] # epoch' /\ place'[n] = "queued"
  BY <1>1 DEF Slot, At, TypeOK
<1>4. \A n \in Waiting : Hushed(n)' /\ n \in Msg
  BY <1>3 DEF Waiting, Hushed
<1>5. ASSUME NEW n \in Active PROVE Hushed(n)' /\ n \in Msg
  BY <1>1, <1>5, ActiveHushed DEF Hushed
<1>6. ASSUME NEW n \in silenced PROVE Hushed(n)'
  <2>1. n \in Msg /\ Hushed(n) /\ place'[n] = place[n]
    BY <1>1 DEF CInv, TurnsTyped
  <2>2. CASE place[n] = "queued"
    BY <1>3, <2>1, <2>2 DEF Hushed, At
  <2>3. CASE place[n] # "queued"
    BY <1>1, <2>1, <2>3, Aborts DEF Hushed
  <2> QED
    BY <2>2, <2>3
<1> QED
  BY <1>1, <1>2, <1>4, <1>5, <1>6, Aborts DEF CInv, TurnsTyped

LEMMA ResetTurns == ASSUME QInv, CInv, Reset PROVE CInv'
<1>1. /\ UNCHANGED <<phase, activeTurn, place, ticket, epoch, thrown>>
      /\ abort("reset") /\ "reset" \in Reasons /\ silenced' = silenced \cup Active
  BY DEF Reset, Reasons, queue, slot
<1>2. Working' /\ ActiveIsRunning'
  BY <1>1 DEF CInv, TurnsTyped, Working, ActiveIsRunning, Stranded
<1>3. ASSUME NEW n \in Active PROVE Hushed(n)' /\ n \in Msg
  BY <1>1, <1>3, ActiveHushed DEF Hushed
<1>4. ASSUME NEW n \in silenced PROVE Hushed(n)'
  BY <1>1, Aborts DEF CInv, TurnsTyped, Hushed
<1> QED
  BY <1>1, <1>2, <1>3, <1>4, Aborts DEF CInv, TurnsTyped

(* Only one handler is at work, so that who registers finds nobody registered.  *)
LEMMA StartTurns == ASSUME QInv, CInv, NEW m \in Msg, Start(m) PROVE CInv'
<1>1. TypeOK /\ place[m] = "queued" /\ epoch' = epoch
  BY DEF QInv, Start, claim
<1>2. /\ \A n \in Msg : place'[n] = IF n = m THEN IF ticket[m] = epoch THEN "running" ELSE "ended" ELSE place[n]
      /\ \A n \in Msg \ {m} : ticket'[n] = ticket[n]
  BY <1>1 DEF Start, claim, Move, TypeOK
<1>3. phase' \in [Turn -> Phases]
      /\ \A n \in Turn : phase'[n] = IF n = m THEN IF ticket[m] = epoch THEN "fetch" ELSE "off" ELSE phase[n]
  BY DEF CInv, TurnsTyped, Start, Phases
<1>4. UNCHANGED <<reason, activeTurn, silenced, thrown>>
  BY DEF Start, claim, user
<1>5. phase[m] \notin Busy
  BY <1>1 DEF CInv, TurnsTyped, Working
<1>6. Working' /\ ActiveIsRunning'
  BY <1>1, <1>2, <1>3, <1>4, <1>5 DEF CInv, TurnsTyped, Working, ActiveIsRunning, Stranded, Busy, InTurn
<1>7. ASSUME NEW n \in silenced PROVE Hushed(n)'
  <2>1. CASE n = m
    BY <1>1, <1>2, <1>7, <2>1 DEF CInv, TurnsTyped, Hushed
  <2>2. CASE n # m
    BY <1>1, <1>2, <1>3, <1>4, <1>7, <2>2 DEF CInv, TurnsTyped, Hushed, aborted
  <2> QED
    BY <2>1, <2>2
<1> QED
  BY <1>3, <1>4, <1>6, <1>7 DEF CInv, TurnsTyped

LEMMA RegisterTurns == ASSUME QInv, CInv, NEW m \in Msg, Register(m) PROVE CInv'
<1>1. /\ UNCHANGED <<queue, reason, silenced>> /\ activeTurn' = m /\ phase[m] = "fetch"
      /\ m \in Turn
  BY DEF Register, user
<1>2. \A n \in Turn : phase'[n] = IF n = m THEN "open" ELSE phase[n]
  BY DEF CInv, TurnsTyped, Register, Enter
<1>3. phase' \in [Turn -> Phases]
  BY DEF CInv, TurnsTyped, Register, Enter, Phases, InTurn
<1>4. \A n \in Msg : phase[n] \in InTurn => FALSE
  <2>1. place[m] = "running"
    BY <1>1 DEF CInv, TurnsTyped, Working, Busy
  <2>2. \A n \in Msg : phase[n] \in InTurn => n = m
    BY <2>1, OneRunning DEF CInv, TurnsTyped, Working, Busy
  <2> QED
    BY <1>1, <2>2 DEF InTurn
<1>5. Working'
  BY <1>1, <1>2 DEF CInv, TurnsTyped, Working, Busy, InTurn, queue
<1>6. ActiveIsRunning'
  BY <1>1, <1>2, <1>4 DEF ActiveIsRunning, InTurn
<1>7. \A n \in silenced' : Hushed(n)'
  BY <1>1, <1>2 DEF CInv, TurnsTyped, Hushed, aborted, queue, slot
<1> QED
  BY <1>1, <1>3, <1>5, <1>6, <1>7 DEF CInv, TurnsTyped

(* A handler that is at its end leaves the queue.                               *)
LEMMA FinishTurns ==
  ASSUME QInv, CInv, NEW m \in Msg, Finish(m), Enter(m, "over"), reason' = reason, silenced' = silenced,
         \/ Deregister(m)
         \/ activeTurn' = activeTurn /\ (phase[m] \in InTurn => m \in thrown')
  PROVE  CInv'
<1>1. TypeOK /\ place[m] = "running" /\ epoch' = epoch /\ ticket' = ticket
  BY DEF QInv, Finish, slot
<1>2. \A n \in Msg : place'[n] = IF n = m THEN "ended" ELSE place[n]
  BY <1>1 DEF Finish, Move, TypeOK
<1>3. \A n \in Turn : phase'[n] = IF n = m THEN "over" ELSE phase[n]
  BY DEF CInv, TurnsTyped, Enter
<1>4. phase' \in [Turn -> Phases]
  BY DEF CInv, TurnsTyped, Enter, Phases
<1>5. Working'
  BY <1>2, <1>3 DEF CInv, TurnsTyped, Working, Busy, InTurn
<1>6. activeTurn' \in Msg \cup {None} /\ ActiveIsRunning'
  <2>1. thrown \subseteq thrown' /\ phase[m] \in Busy
    BY <1>1 DEF Finish, CInv, Working
  <2>2. \A n \in Msg : Stranded(n) => Stranded(n)'
    BY <1>2, <2>1 DEF Stranded
  <2>3. m \in thrown' => Stranded(m)'
    BY <1>2 DEF Stranded
  <2>4. activeTurn' \in Msg \cup {None} /\ (activeTurn' = activeTurn \/ activeTurn' = None)
    BY DEF CInv, TurnsTyped, Deregister
  <2>5. ASSUME NEW n \in Msg, phase'[n] \in InTurn PROVE activeTurn' = n
    <3>0. phase'[n] = IF n = m THEN "over" ELSE phase[n]
      BY <1>3
    <3>1. n # m /\ phase[n] \in InTurn
      BY <2>5, <3>0 DEF InTurn
    <3>2. activeTurn = n
      BY <3>1 DEF CInv, ActiveIsRunning
    <3> QED
      BY <3>1, <3>2 DEF Deregister
  <2>6. ASSUME NEW n \in Msg, activeTurn' = n PROVE phase'[n] \in InTurn \/ Stranded(n)'
    <3>1. n = activeTurn /\ (phase[n] \in InTurn \/ Stranded(n))
      BY <2>4, <2>6 DEF CInv, ActiveIsRunning
    <3>2. CASE n = m
      <4>1. phase[m] \in InTurn
        BY <1>1, <3>1, <3>2 DEF Stranded
      <4>2. ~Deregister(m)
        BY <2>6, <3>1, <3>2 DEF Deregister
      <4> QED
        BY <2>3, <3>2, <4>1, <4>2
    <3>3. CASE n # m
      BY <1>3, <2>2, <3>1, <3>3
    <3> QED
      BY <3>2, <3>3
  <2> QED
    BY <2>4, <2>5, <2>6 DEF ActiveIsRunning
<1>7. ASSUME NEW n \in silenced PROVE Hushed(n)'
  BY <1>1, <1>2, <1>3, <1>7 DEF CInv, TurnsTyped, Hushed, aborted
<1> QED
  BY <1>4, <1>5, <1>6, <1>7 DEF CInv, TurnsTyped

LEMMA CloseTurns == ASSUME QInv, CInv, NEW m \in Msg, Close(m) PROVE CInv'
<1>1. /\ UNCHANGED <<queue, reason, silenced>> /\ phase[m] = "closing" /\ ~aborted(m)
      /\ Deregister(m) /\ Enter(m, "sending")
  BY DEF Close, user
<1>2. \A n \in Turn : phase'[n] = IF n = m THEN "sending" ELSE phase[n]
  BY <1>1 DEF CInv, TurnsTyped, Enter
<1>3. phase' \in [Turn -> Phases]
  BY <1>1 DEF CInv, TurnsTyped, Enter, Phases
<1>4. Working'
  BY <1>1, <1>2 DEF CInv, TurnsTyped, Working, Busy, InTurn, queue
<1>5. activeTurn' \in Msg \cup {None} /\ ActiveIsRunning'
  BY <1>1, <1>2 DEF CInv, TurnsTyped, ActiveIsRunning, Stranded, Deregister, InTurn, queue
<1>6. place[m] = "running"
  BY <1>1 DEF CInv, TurnsTyped, Working, Busy, InTurn
<1>7. ASSUME NEW n \in silenced PROVE Hushed(n)'
  <2>1. n # m
    BY <1>1, <1>6, <1>7 DEF CInv, TurnsTyped, Hushed
  <2> QED
    BY <1>1, <1>2, <1>7, <2>1 DEF CInv, TurnsTyped, Hushed, aborted, queue, slot
<1> QED
  BY <1>1, <1>3, <1>4, <1>5, <1>7 DEF CInv, TurnsTyped

LEMMA SettledTurns == ASSUME QInv, CInv, NEW m \in Msg, Settled(m) PROVE CInv'
<1>1. /\ TypeOK /\ place[m] = "ended" /\ Settle(m) /\ UNCHANGED <<phase, activeTurn, thrown>>
      /\ silenced' = silenced \ {m}
  BY DEF QInv, Settled, Settle
<1>2. \A n \in Msg : place'[n] = IF n = m THEN "settled" ELSE place[n]
  BY <1>1 DEF Settle, Move, TypeOK
<1>3. /\ \A n \in Turn \ {m} : reason'[n] = reason[n]
      /\ reason' \in [Turn -> Reasons \cup {None}]
  BY DEF CInv, TurnsTyped, Settled
<1>4. Working' /\ ActiveIsRunning'
  BY <1>1, <1>2 DEF CInv, TurnsTyped, Working, ActiveIsRunning, Stranded
<1>5. ASSUME NEW n \in silenced \ {m} PROVE Hushed(n)'
  <2>1. n \in Msg /\ n \in Turn /\ Hushed(n) /\ place'[n] = place[n] /\ reason'[n] = reason[n]
    BY <1>2, <1>3 DEF CInv, TurnsTyped
  <2>2. ticket' = ticket /\ (place[n] = "queued" => epoch' = epoch)
    BY <1>1, <2>1, SettleWaiting DEF At
  <2> QED
    BY <1>1, <2>1, <2>2 DEF Hushed, aborted
<1> QED
  BY <1>1, <1>3, <1>4, <1>5 DEF CInv, TurnsTyped

LEMMA StepTurns == QInv /\ CInv /\ [ConversationNext]_vars => CInv'
<1> SUFFICES ASSUME QInv, CInv, [ConversationNext]_vars PROVE CInv'
  OBVIOUS
<1>1. ASSUME NEW m \in Msg, Handle(m) PROVE CInv'
  <2>1. CASE Start(m)
    BY <2>1, StartTurns
  <2>2. CASE FetchFails(m)
    BY <2>2, FinishTurns DEF FetchFails, user, InTurn
  <2>3. CASE Register(m)
    BY <2>3, RegisterTurns
  <2>4. CASE CloseAborted(m)
    BY <2>4, FinishTurns DEF CloseAborted, user
  <2>5. CASE Close(m)
    BY <2>5, CloseTurns
  <2>6. CASE Send(m)
    BY <2>6, FinishTurns DEF Send, user, InTurn
  <2>7. CASE Settled(m)
    BY <2>7, SettledTurns
  <2> QED
    BY <1>1, <2>1, <2>2, <2>3, <2>4, <2>5, <2>6, <2>7 DEF Handle
<1>2. CASE UNCHANGED vars
  BY <1>2 DEF vars, queue, slot, turns, user, CInv, TurnsTyped, Working, ActiveIsRunning, Stranded, Hushed, aborted
<1>3. ASSUME NEW m \in Msg, Escape(m) PROVE CInv'
  BY <1>3, FinishTurns DEF Escape, user
<1> QED
  BY <1>1, <1>2, <1>3, ArriveTurns, BodyTurns, StopTurns, ResetTurns DEF ConversationNext

LEMMA TurnsInvariance == ConversationSpec => []CInv
<1>1. ConversationSpec => []QInv
  BY UsesQueue, QueueInvariance, PTL
<1> QED
  BY <1>1, InitTurns, StepTurns, PTL DEF ConversationSpec

(* However messages, commands, reactions and exceptions fall between its        *)
(* awaits, a turn that runs is the entry of activeTurns, so that no abort hits  *)
(* another; and what else is found there was left by a handler that threw.      *)
THEOREM AbortsWhatRuns == ConversationSpec => []ActiveIsRunning
<1>1. CInv => ActiveIsRunning
  BY DEF CInv, TurnsTyped
<1> QED
  BY TurnsInvariance, <1>1, PTL

(* A message that was given up, on the queue or in its turn, is never answered. *)
THEOREM NothingAfterStop == ConversationSpec => []Silenced
<1>1. CInv => Silenced
  BY DEF CInv, TurnsTyped, Silenced, Hushed, Working, Busy
<1> QED
  BY TurnsInvariance, <1>1, PTL
-----------------------------------------------------------------------------
(* Sequences, as the history and the epochs use them.                           *)
LEMMA Suffix ==
  ASSUME NEW S, NEW s \in Seq(S), NEW m \in Nat, m # 0
  PROVE  /\ SubSeq(s, m, Len(s)) \in Seq(S)
         /\ Len(SubSeq(s, m, Len(s))) = IF m <= Len(s) THEN Len(s) - m + 1 ELSE 0
         /\ \A i \in 1..Len(s) - m + 1 : SubSeq(s, m, Len(s))[i] = s[m + i - 1]
OBVIOUS

LEMMA Joined ==
  ASSUME NEW S, NEW s \in Seq(S), NEW t \in Seq(S)
  PROVE  /\ s \o t \in Seq(S) /\ Len(s \o t) = Len(s) + Len(t)
         /\ Len(s) \in Nat /\ Len(t) \in Nat
         /\ t = <<>> => s \o t = s
<1>1. s \o t \in Seq(S) /\ Len(s \o t) = Len(s) + Len(t) /\ Len(s) \in Nat /\ Len(t) \in Nat
  OBVIOUS
<1>2. t = <<>> => s \o t = s
  OBVIOUS
<1> QED BY <1>1, <1>2

LEMMA Longer ==
  ASSUME NEW S, NEW s \in Seq(S), NEW e \in S
  PROVE  /\ Append(s, e) \in Seq(S) /\ Len(Append(s, e)) = Len(s) + 1 /\ Len(s) \in Nat
         /\ \A i \in 1..Len(s) : Append(s, e)[i] = s[i] /\ s[i] \in S
         /\ Append(s, e)[Len(s) + 1] = e
OBVIOUS

(* The last n of s, one by one.                                                 *)
LEMMA LastOfProperties ==
  ASSUME NEW S, NEW s \in Seq(S), NEW n \in Nat
  PROVE  /\ LastOf(s, n) \in Seq(S)
         /\ Len(LastOf(s, n)) = IF Len(s) > n THEN n ELSE Len(s)
         /\ \A i \in 1..Len(LastOf(s, n)) : LastOf(s, n)[i] = s[Len(s) - Len(LastOf(s, n)) + i]
<1> DEFINE k == IF Len(s) > n THEN Len(s) - n + 1 ELSE 1
<1>1. Len(s) \in Nat /\ k \in Nat /\ k # 0 /\ k <= Len(s) + 1
  OBVIOUS
<1>2. LastOf(s, n) = SubSeq(s, k, Len(s))
  BY DEF LastOf
<1>3. /\ LastOf(s, n) \in Seq(S)
      /\ Len(LastOf(s, n)) = IF k <= Len(s) THEN Len(s) - k + 1 ELSE 0
      /\ \A i \in 1..Len(s) - k + 1 : LastOf(s, n)[i] = s[k + i - 1]
  <2> HIDE DEF k
  <2> QED BY <1>1, <1>2, Suffix
<1>4. Len(LastOf(s, n)) = Len(s) - k + 1
  <2> HIDE DEF k
  <2> QED BY <1>1, <1>3
<1>5. Len(LastOf(s, n)) = IF Len(s) > n THEN n ELSE Len(s)
  BY <1>1, <1>4 DEF k
<1>6. \A i \in 1..Len(LastOf(s, n)) : LastOf(s, n)[i] = s[Len(s) - Len(LastOf(s, n)) + i]
  <2> HIDE DEF k
  <2> TAKE i \in 1..Len(LastOf(s, n))
  <2>1. i \in 1..Len(s) - k + 1
    BY <1>4
  <2>2. LastOf(s, n)[i] = s[k + i - 1]
    BY <1>3, <2>1
  <2>3. k + i - 1 = Len(s) - Len(LastOf(s, n)) + i
    BY <1>1, <1>4, <2>1
  <2> QED BY <2>2, <2>3
<1> QED
  BY <1>3, <1>5, <1>6

(* The history of an epoch or of a plan.                                        *)
LEMMA JoinedLonger ==
  ASSUME NEW b \in Seq(Record), NEW t \in Seq(Record), NEW r \in Record
  PROVE  Append(b \o t, r) = b \o Append(t, r)
OBVIOUS

LEMMA CanonicalProperties ==
  ASSUME NEW e, e.base \in Seq(Record), e.turns \in Seq(Record)
  PROVE  /\ canonicalHistory(e) \in Seq(Record)
         /\ Len(canonicalHistory(e)) = Len(e.base) + Len(e.turns)
         /\ Len(e.base) \in Nat /\ Len(e.turns) \in Nat
         /\ e.turns = <<>> => canonicalHistory(e) = e.base
         /\ \A r \in Record : Append(canonicalHistory(e), r) = e.base \o Append(e.turns, r)
<1>1. /\ e.base \o e.turns \in Seq(Record) /\ Len(e.base \o e.turns) = Len(e.base) + Len(e.turns)
      /\ Len(e.base) \in Nat /\ Len(e.turns) \in Nat
  BY Joined
<1>2. e.turns = <<>> => e.base \o e.turns = e.base
  OBVIOUS
<1>3. \A r \in Record : Append(e.base \o e.turns, r) = e.base \o Append(e.turns, r)
  BY JoinedLonger, Zenon
<1> QED
  BY <1>1, <1>2, <1>3, Zenon DEF canonicalHistory

(* What a turn reads is a piece of the history above the watermark.             *)
LEMMA Recent ==
  ASSUME hist \in Seq(Record), mark \in 0..Len(hist)
  PROVE  /\ recentTurns \in Seq(Record) /\ Len(recentTurns) <= Limit
         /\ Piece(recentTurns, mark)
<1> DEFINE s == SubSeq(hist, mark + 1, Len(hist))
<1>1. Len(hist) \in Nat /\ mark \in Nat /\ \A i \in mark + 1..Len(hist) : hist[i] \in Record
  OBVIOUS
<1>2. /\ s \in Seq(Record) /\ Len(s) = Len(hist) - mark
      /\ \A i \in 1..Len(s) : s[i] = hist[mark + i]
  <2>1. /\ s \in Seq(Record)
        /\ Len(s) = IF mark + 1 <= Len(hist) THEN Len(hist) - (mark + 1) + 1 ELSE 0
        /\ \A i \in 1..Len(hist) - (mark + 1) + 1 : s[i] = hist[mark + 1 + i - 1]
    BY <1>1, Suffix
  <2> QED BY <1>1, <2>1
<1>3. recentTurns = LastOf(s, Limit)
  BY DEF recentTurns
<1> HIDE DEF s
<1>4. /\ recentTurns \in Seq(Record)
      /\ Len(recentTurns) = IF Len(s) > Limit THEN Limit ELSE Len(s)
      /\ \A i \in 1..Len(recentTurns) : recentTurns[i] = s[Len(s) - Len(recentTurns) + i]
  BY <1>2, <1>3, LastOfProperties
<1>5. /\ Len(recentTurns) \in Nat /\ Len(recentTurns) <= Limit /\ Len(recentTurns) <= Len(s)
  BY <1>1, <1>2, <1>4
<1>6. Piece(recentTurns, mark)
  <2> DEFINE a == Len(hist) - Len(recentTurns)
  <2>1. a \in mark..Len(hist) - Len(recentTurns)
    BY <1>1, <1>2, <1>5
  <2>2. ASSUME NEW i \in 1..Len(recentTurns) PROVE recentTurns[i] = hist[a + i]
    <3>1. Len(s) - Len(recentTurns) + i \in 1..Len(s)
      BY <1>1, <1>2, <1>5
    <3>2. recentTurns[i] = hist[mark + (Len(s) - Len(recentTurns) + i)]
      BY <1>2, <1>4, <3>1
    <3>3. mark + (Len(s) - Len(recentTurns) + i) = a + i
      BY <1>1, <1>2, <1>5
    <3> QED BY <3>2, <3>3
  <2> HIDE DEF a
  <2> QED BY <2>1, <2>2 DEF Piece
<1> QED
  BY <1>4, <1>5, <1>6

LEMMA Empties ==
  /\ NoEpoch \in Epoch /\ NoPlan \in Plan /\ Note \in Record
  /\ \A t \in Turn : \A w \in {"reply", "failed", "interrupted"} : [of |-> t, as |-> w] \in Record
  /\ \A t \in Turn : Reply(t) \in Record
<1>1. <<>> \in Seq(Record)
  OBVIOUS
<1> QED
  BY <1>1 DEF NoEpoch, NoPlan, Epoch, Plan, Note, Record, Reply

(* What a turn is given: an epoch of its own, or the one of the cache.          *)
LEMMA Prepared ==
  ASSUME cache \in Epoch, plan \in [Turn -> Plan], NEW t \in Turn, NEW h \in Seq(Record), prepare(t, h)
  PROVE  \E f \in Epoch, b \in BOOLEAN :
           /\ \/ f = New(t, h)
              \/ /\ f = cache /\ cache # NoEpoch /\ ~cache.active
                 /\ sameTrust(cache, t) /\ sameHistory(cache, h)
           /\ cache' = [f EXCEPT !.active = TRUE]
           /\ plan' = [plan EXCEPT ![t] = [id |-> f.id, base |-> f.base, turns |-> f.turns, retain |-> b]]
<1>1. New(t, h) \in Epoch
  <2>1. <<>> \in Seq(Record)
    OBVIOUS
  <2> QED BY <2>1 DEF New, Epoch
<1>2. PICK changed \in BOOLEAN, over \in BOOLEAN, still \in BOOLEAN :
        LET e == IF mustRebase(cache, t, h, changed) THEN New(t, h) ELSE cache
            f == IF over /\ e.turns # <<>> THEN New(t, h) ELSE e
        IN /\ cache' = [f EXCEPT !.active = TRUE]
           /\ plan' = [plan EXCEPT ![t] =
                         [id |-> f.id, base |-> f.base, turns |-> f.turns, retain |-> ~still]]
  BY DEF prepare
<1> DEFINE e == IF mustRebase(cache, t, h, changed) THEN New(t, h) ELSE cache
           f == IF over /\ e.turns # <<>> THEN New(t, h) ELSE e
<1>3. /\ cache' = [f EXCEPT !.active = TRUE]
      /\ plan' = [plan EXCEPT ![t] = [id |-> f.id, base |-> f.base, turns |-> f.turns, retain |-> ~still]]
  BY <1>2, Zenon
<1>4. f \in Epoch
  BY <1>1
<1>5. \/ f = New(t, h)
      \/ /\ f = cache /\ cache # NoEpoch /\ ~cache.active
         /\ sameTrust(cache, t) /\ sameHistory(cache, h)
  BY DEF mustRebase
<1>6. (~still) \in BOOLEAN
  OBVIOUS
<1> HIDE DEF f
<1> QED
  BY <1>3, <1>4, <1>5, <1>6

(* The plan and the epoch that a turn leaves.                                   *)
LEMMA PreparedTypes ==
  ASSUME cache \in Epoch, plan \in [Turn -> Plan], NEW t \in Turn, NEW h \in Seq(Record), prepare(t, h)
  PROVE  cache' \in Epoch /\ plan' \in [Turn -> Plan]
<1>1. PICK f \in Epoch, b \in BOOLEAN :
           /\ cache' = [f EXCEPT !.active = TRUE]
           /\ plan' = [plan EXCEPT ![t] = [id |-> f.id, base |-> f.base, turns |-> f.turns, retain |-> b]]
  BY Prepared
<1>2. cache' \in Epoch
  BY <1>1 DEF Epoch
<1>3. [id |-> f.id, base |-> f.base, turns |-> f.turns, retain |-> b] \in Plan
  BY DEF Epoch, Plan
<1> QED
  BY <1>1, <1>2, <1>3

LEMMA CompletedTypes ==
  ASSUME cache \in Epoch, plan \in [Turn -> Plan], NEW t \in Turn, complete(t) \/ fail(t)
  PROVE  cache' \in Epoch /\ plan' \in [Turn -> Plan]
<1>1. plan' = [plan EXCEPT ![t] = NoPlan]
  BY DEF complete, fail
<1>2. cache' \in {cache, NoEpoch, [cache EXCEPT !.active = FALSE, !.turns = Append(@, Reply(t))],
                  [cache EXCEPT !.active = FALSE]}
  BY DEF complete, fail
<1>3. Append(cache.turns, Reply(t)) \in Seq(Record)
  <2>1. cache.turns \in Seq(Record) /\ Reply(t) \in Record
    BY Empties DEF Epoch
  <2> QED BY <2>1
<1>4. [cache EXCEPT !.active = FALSE, !.turns = Append(@, Reply(t))] \in Epoch
  BY <1>3 DEF Epoch
<1>5. [cache EXCEPT !.active = FALSE] \in Epoch
  BY DEF Epoch
<1> QED
  BY <1>1, <1>2, <1>4, <1>5, Empties

(* What the turns have read, written and been given, apart from the queue.      *)
beside == <<cache, plan, window, floor, outcome, hist, mark>>
Typed ==
  /\ window \in [Turn -> Seq(Record)] /\ \A t \in Turn : Len(window[t]) <= Limit
  /\ floor \in [Turn -> Nat]
  /\ outcome \in [Turn -> {"none", "reply", "failed", "halted", "held", "threw"}]
  /\ hist \in Seq(Record) /\ mark \in 0..Len(hist)
  /\ cache \in Epoch /\ plan \in [Turn -> Plan]

LEMMA TypedSame == ASSUME Typed, UNCHANGED beside PROVE Typed'
BY DEF Typed, beside

LEMMA GrowsTyped ==
  ASSUME hist \in Seq(Record), mark \in 0..Len(hist), NEW r \in Record, hist' \in {hist, Append(hist, r)},
         mark' = mark
  PROVE  hist' \in Seq(Record) /\ mark' \in 0..Len(hist')
<1>1. Append(hist, r) \in Seq(Record) /\ Len(Append(hist, r)) = Len(hist) + 1 /\ Len(hist) \in Nat
  OBVIOUS
<1> QED
  BY <1>1

LEMMA TypedWrites ==
  ASSUME Typed, NEW r \in Record, hist' \in {hist, Append(hist, r)},
         UNCHANGED <<cache, plan, outcome, mark>>,
         \/ UNCHANGED <<window, floor>>
         \/ \E t \in Turn : DropHistory(t)
  PROVE  Typed'
<1>1. hist' \in Seq(Record) /\ mark' \in 0..Len(hist')
  BY GrowsTyped DEF Typed
<1>2. CASE UNCHANGED <<window, floor>>
  BY <1>1, <1>2 DEF Typed
<1>3. ASSUME NEW t \in Turn, DropHistory(t) PROVE Typed'
  <2>1. <<>> \in Seq(Record) /\ Len(<<>>) = 0
    OBVIOUS
  <2>2. window' = [window EXCEPT ![t] = <<>>] /\ floor' = [floor EXCEPT ![t] = 0]
    BY <1>3 DEF DropHistory
  <2>3. window' \in [Turn -> Seq(Record)] /\ \A s \in Turn : Len(window'[s]) <= Limit
    <3>1. \A s \in Turn : window'[s] = IF s = t THEN <<>> ELSE window[s]
      BY <2>2 DEF Typed
    <3> QED BY <2>1, <2>2, <3>1 DEF Typed
  <2>4. floor' \in [Turn -> Nat]
    BY <2>2 DEF Typed
  <2> QED BY <1>1, <2>3, <2>4 DEF Typed
<1> QED
  BY <1>2, <1>3

LEMMA TypedStep == ASSUME Typed, PhasesOrdered, [ConversationNext]_vars PROVE Typed'
<1>1. ASSUME NEW m \in Msg, Arrive(m) \/ Handle(m) \/ Escape(m) PROVE Typed'
  <2>1. CASE CloseAborted(m)
    <3>1. m \in Turn /\ [of |-> m, as |-> "interrupted"] \in Record
      <4>1. m \in Turn
        OBVIOUS
      <4> QED BY <4>1, Empties
    <3>2. /\ hist' \in {hist, Append(hist, [of |-> m, as |-> "interrupted"])}
          /\ UNCHANGED <<cache, plan, outcome, mark>> /\ DropHistory(m)
      BY <2>1 DEF CloseAborted
    <3> QED BY <3>1, <3>2, TypedWrites
  <2>2. CASE Close(m)
    BY <2>2, TypedWrites, Empties DEF Close, store
  <2>3. CASE Settled(m)
    BY <2>3 DEF Settled, Ended, Typed, store
  <2> QED
    BY <1>1, <2>1, <2>2, <2>3, TypedSame
    DEF Handle, Arrive, Start, FetchFails, Escape, Register, Send, beside, store
<1>2. ASSUME NEW t \in Turn, React(t) \/ Body(t) \/ Halt(t) \/ Throw(t) PROVE Typed'
  <2>1. CASE Load(t)
    <3>1. recentTurns \in Seq(Record) /\ Len(recentTurns) <= Limit /\ mark \in Nat
      BY Recent DEF Typed
    <3>2. /\ window' = [window EXCEPT ![t] = recentTurns] /\ floor' = [floor EXCEPT ![t] = mark]
          /\ UNCHANGED <<cache, plan, outcome, hist, mark>>
      BY <2>1 DEF Load, store
    <3>3. floor' \in [Turn -> Nat]
      BY <3>1, <3>2 DEF Typed
    <3>4. window' \in [Turn -> Seq(Record)] /\ \A s \in Turn : window'[s] = IF s = t THEN recentTurns ELSE window[s]
      BY <3>1, <3>2 DEF Typed
    <3> QED BY <3>1, <3>2, <3>3, <3>4 DEF Typed
  <2>2. CASE Hold(t)
    BY <2>2, Empties DEF Hold, Ended, Typed, invalidate, store
  <2>3. CASE Prepare(t)
    <3>1. window[t] \in Seq(Record) /\ prepare(t, window[t])
      BY <2>3 DEF Prepare, Typed
    <3> QED BY <2>3, <3>1, PreparedTypes DEF Prepare, Typed, store
  <2>4. CASE Answer(t)
    BY <2>4 DEF Answer, Ended, Typed, store
  <2>5. CASE Persist(t)
    <3>1. hist' \in Seq(Record) /\ mark' \in 0..Len(hist')
      <4>1. Written(t) => [of |-> t, as |-> outcome[t]] \in Record
        BY Empties DEF Written
      <4> QED BY <2>5, <4>1, GrowsTyped DEF Persist, Typed
    <3> QED BY <2>5, <3>1 DEF Persist, Typed
  <2>6. CASE Complete(t)
    BY <2>6, CompletedTypes DEF Complete, Typed, store
  <2>7. CASE CloseReaction(t)
    <3>1. Ended(t, "none") /\ DropHistory(t) /\ UNCHANGED <<cache, plan, hist, mark>>
      BY <2>7 DEF CloseReaction, store
    <3>2. outcome' \in [Turn -> {"none", "reply", "failed", "halted", "held", "threw"}]
      BY <3>1 DEF Ended, Typed
    <3>3. <<>> \in Seq(Record) /\ Len(<<>>) = 0
      OBVIOUS
    <3>4. floor' \in [Turn -> Nat]
      BY <3>1 DEF Typed, DropHistory
    <3>5. window' \in [Turn -> Seq(Record)] /\ \A s \in Turn : window'[s] = IF s = t THEN <<>> ELSE window[s]
      BY <3>1, <3>3 DEF Typed, DropHistory
    <3> QED BY <3>1, <3>2, <3>3, <3>4, <3>5 DEF Typed
  <2>8. CASE Throw(t)
    BY <2>8, Empties DEF Throw, Ended, Typed, store
  <2>9. CASE Halt(t)
    BY <2>9 DEF Halt, Ended, Typed, store
  <2> QED
    BY <1>2, <2>1, <2>2, <2>3, <2>4, <2>5, <2>6, <2>7, <2>8, <2>9, TypedSame DEF Body, React, beside, store
<1>3. CASE Stop
  BY <1>3, TypedWrites, Empties DEF Stop
<1>4. CASE Reset
  BY <1>4 DEF Reset, Typed
<1>5. CASE UNCHANGED vars
  BY <1>5, TypedSame DEF vars, turns, store, beside
<1> QED
  BY <1>1, <1>2, <1>3, <1>4, <1>5 DEF ConversationNext

LEMMA Entered ==
  ASSUME TurnsTyped, NEW t \in Turn, NEW p, Enter(t, p)
  PROVE  \A s \in Turn : phase'[s] = IF s = t THEN p ELSE phase[s]
BY DEF TurnsTyped, Enter

LEMMA EndedAs ==
  ASSUME Typed, NEW t \in Turn, NEW o, Ended(t, o)
  PROVE  \A s \in Turn : outcome'[s] = IF s = t THEN o ELSE outcome[s]
BY DEF Typed, Ended

(* The queue waits only with messages whose handler has not begun.              *)
LEMMA PlaceStep ==
  ASSUME TypeOK, CInv, PhasesOrdered, [ConversationNext]_vars, NEW n \in Msg, place'[n] \in {"new", "queued"}
  PROVE  phase'[n] = "off"
<1> USE DEF CInv
<1>0. n \in Turn
  OBVIOUS
<1>1. place[n] \in {"new", "queued"}
  <2>1. \A m \in Msg : claim(m) \/ Finish(m) \/ Settle(m) => place'[n] = place[n] \/ place'[n] \in {"running", "ended", "settled"}
    BY DEF claim, Finish, Settle, Move, TypeOK
  <2>2. \A m \in Msg : Enqueue(m) \/ Interrupt(m) => place[m] = "new" /\ (n # m => place'[n] = place[n])
    BY DEF Enqueue, Interrupt, enqueue, Move, TypeOK
  <2>3. [Next]_queue
    BY StepQueue
  <2> QED BY <2>1, <2>2, <2>3 DEF Next, Step, flush, queue
<1>2. phase[n] = "off"
  BY <1>1 DEF PhasesOrdered
<1>3. ASSUME NEW m \in Msg, Arrive(m) \/ Handle(m) \/ Escape(m) PROVE phase'[n] = "off"
  <2>1. CASE Start(m)
    <3>1. n # m
      BY <2>1 DEF Start, claim, Move, TypeOK
    <3> QED BY <1>2, <2>1, <3>1 DEF Start, TurnsTyped
  <2>2. CASE FetchFails(m) \/ Escape(m) \/ Register(m) \/ CloseAborted(m) \/ Close(m) \/ Send(m)
    <3>1. n # m /\ \E p \in Phases : Enter(m, p)
      BY <1>2, <2>2 DEF FetchFails, Escape, Register, CloseAborted, Close, Send, Phases, InTurn
    <3> QED BY <1>2, <3>1, Entered
  <2> QED
    BY <1>2, <1>3, <2>1, <2>2 DEF Handle, Arrive, Settled
<1>4. ASSUME NEW t \in Turn, React(t) \/ Body(t) \/ Halt(t) \/ Throw(t) PROVE phase'[n] = "off"
  <2>1. n # t /\ \E p \in Phases : Enter(t, p)
    BY <1>2, <1>4
    DEF React, Body, Halt, Throw, Load, Hold, Prepare, Answer, Persist, Complete, CloseReaction, Phases, InTurn
  <2> QED BY <1>2, <2>1, Entered
<1> QED
  BY <1>2, <1>3, <1>4 DEF ConversationNext, Stop, Reset, vars, turns

TurnOrdered(t) ==
  /\ plan[t] # NoPlan => phase[t] \in {"model", "answered", "index"}
  /\ phase[t] \in {"off", "fetch", "open"} => outcome[t] = "none"
  /\ activeTurn = t /\ phase[t] \notin InTurn => outcome[t] = "none"
  /\ phase[t] \in {"answered", "index"} => outcome[t] \in {"reply", "failed", "halted"}

LEMMA PhasesStep ==
  ASSUME TypeOK, CInv, Typed, PhasesOrdered, [ConversationNext]_vars PROVE PhasesOrdered'
<1> USE DEF CInv
<1>1. \A t \in Turn : TurnOrdered(t)
  BY DEF PhasesOrdered, TurnOrdered
<1>0. (\A t \in Turn : TurnOrdered(t)') => PhasesOrdered'
  <2>1. (\A m \in Msg : place[m] \in {"new", "queued"} => phase[m] = "off")'
    BY PlaceStep
  <2>2. SUFFICES ASSUME \A t \in Turn : TurnOrdered(t)' PROVE PhasesOrdered'
    OBVIOUS
  <2>3. ASSUME NEW t \in Turn PROVE TurnOrdered(t)'
    BY <2>2
  <2> QED
    BY <2>1, <2>3, Zenon DEF PhasesOrdered, TurnOrdered
<1>2. SUFFICES ASSUME NEW s \in Turn PROVE TurnOrdered(s)'
  BY <1>0
<1>3. ASSUME NEW m \in Msg, Arrive(m) \/ Handle(m) \/ Escape(m) PROVE TurnOrdered(s)'
  <2>1. CASE Start(m)
    <3>1. m \in Turn /\ phase[m] = "off" /\ UNCHANGED <<plan, outcome, activeTurn>>
          /\ \E p \in {"fetch", "off"} : Enter(m, p)
      BY <2>1 DEF Start, claim, PhasesOrdered, Enter
    <3> QED BY <1>1, <3>1, Entered DEF TurnOrdered, InTurn
  <2>2. CASE CloseAborted(m) \/ Close(m)
    <3>1. m \in Turn /\ UNCHANGED <<plan, outcome>> /\ \E p \in {"over", "sending"} : Enter(m, p)
          /\ phase[m] = "closing" /\ Deregister(m)
      BY <2>2 DEF CloseAborted, Close
    <3>2. activeTurn' # m /\ (activeTurn' = s => activeTurn = s)
      BY <3>1 DEF Deregister
    <3> QED BY <1>1, <3>1, <3>2, Entered DEF TurnOrdered, InTurn
  <2>4. CASE Register(m)
    <3>1. m \in Turn /\ UNCHANGED <<plan, outcome>> /\ Enter(m, "open") /\ activeTurn' = m /\ phase[m] = "fetch"
      BY <2>4 DEF Register
    <3> QED BY <1>1, <3>1, Entered DEF TurnOrdered, InTurn
  <2>5. CASE FetchFails(m) \/ Escape(m) \/ Send(m)
    <3>1. m \in Turn /\ UNCHANGED <<plan, outcome, activeTurn>> /\ Enter(m, "over")
          /\ phase[m] \in {"fetch", "open", "sending"}
      BY <2>5 DEF FetchFails, Escape, Send
    <3> QED BY <1>1, <3>1, Entered DEF TurnOrdered, InTurn
  <2>3. CASE Settled(m)
    <3>1. m \in Turn /\ place[m] = "ended" /\ UNCHANGED <<plan, phase, activeTurn>> /\ Ended(m, "none")
      BY <2>3 DEF Settled, Settle
    <3>2. phase[m] \notin {"answered", "index"}
      BY <3>1 DEF Working, Busy, InTurn
    <3> QED BY <1>1, <3>1, <3>2, EndedAs DEF TurnOrdered
  <2> QED
    BY <1>1, <1>3, <2>1, <2>2, <2>3, <2>4, <2>5 DEF Handle, Arrive, TurnOrdered
<1>4. ASSUME NEW t \in Turn, React(t) \/ Body(t) \/ Halt(t) \/ Throw(t) PROVE TurnOrdered(s)'
  <2>1. CASE React(t) \/ Load(t)
    <3>1. UNCHANGED <<plan, outcome, activeTurn>> /\ \E p \in {"open", "loaded"} : Enter(t, p)
          /\ phase[t] \notin {"model", "answered", "index"}
          /\ (phase[t] = "off" \/ p = "loaded")
      BY <2>1 DEF React, Load
    <3> QED BY <1>1, <3>1, Entered DEF TurnOrdered, InTurn
  <2>2. CASE Hold(t) \/ CloseReaction(t)
    <3>1. UNCHANGED <<plan, activeTurn>> /\ \E p \in {"closing", "over"}, o \in {"held", "failed", "none"} : Enter(t, p) /\ Ended(t, o)
          /\ phase[t] \notin {"model", "answered", "index"} /\ (p = "over" => o = "none")
      BY <2>2 DEF Hold, CloseReaction, invalidate
    <3> QED BY <1>1, <3>1, Entered, EndedAs DEF TurnOrdered, InTurn
  <2>3. CASE Prepare(t)
    <3>1. Enter(t, "model") /\ UNCHANGED <<outcome, activeTurn>> /\ \A u \in Turn \ {t} : plan'[u] = plan[u]
      BY <2>3 DEF Prepare, prepare, Typed
    <3> QED BY <1>1, <3>1, Entered DEF TurnOrdered, InTurn
  <2>4. CASE Answer(t) \/ Halt(t)
    <3>1. /\ Enter(t, "answered") /\ UNCHANGED <<plan, activeTurn>>
          /\ \E o \in {"reply", "failed", "halted"} : Ended(t, o)
      BY <2>4 DEF Answer, Halt
    <3> QED BY <1>1, <3>1, Entered, EndedAs DEF TurnOrdered, InTurn
  <2>5. CASE Persist(t)
    <3>1. /\ Enter(t, "index") /\ UNCHANGED <<plan, outcome, activeTurn>> /\ phase[t] = "answered"
      BY <2>5 DEF Persist
    <3> QED BY <1>1, <3>1, Entered DEF TurnOrdered, InTurn
  <2>6. CASE Complete(t)
    <3>1. /\ Enter(t, "closing") /\ UNCHANGED <<outcome, activeTurn>> /\ plan' = [plan EXCEPT ![t] = NoPlan]
      BY <2>6 DEF Complete, complete, fail
    <3>2. \A u \in Turn : plan'[u] = IF u = t THEN NoPlan ELSE plan[u]
      BY <3>1 DEF Typed
    <3> QED BY <1>1, <3>1, <3>2, Entered DEF TurnOrdered, InTurn
  <2>7. CASE Throw(t)
    <3>1. /\ Enter(t, "closing") /\ Ended(t, "threw") /\ activeTurn' = activeTurn /\ plan' = [plan EXCEPT ![t] = NoPlan]
      BY <2>7 DEF Throw
    <3>2. \A u \in Turn : plan'[u] = IF u = t THEN NoPlan ELSE plan[u]
      BY <3>1 DEF Typed
    <3> QED BY <1>1, <3>1, <3>2, Entered, EndedAs DEF TurnOrdered, InTurn
  <2> QED
    BY <1>4, <2>1, <2>2, <2>3, <2>4, <2>5, <2>6, <2>7 DEF Body
<1> QED
  BY <1>1, <1>3, <1>4 DEF ConversationNext, Stop, Reset, vars, turns, TurnOrdered

(* How far a turn gets in a step, and how its outcome and reason change then.   *)
Moves ==
  ({"off"} \X {"fetch", "open"}) \cup ({"fetch"} \X {"open", "over"})
    \cup ({"open"} \X {"loaded", "closing", "over"}) \cup ({"loaded"} \X {"model", "closing"})
    \cup ({"model"} \X {"answered", "closing"}) \cup ({"answered"} \X {"index", "closing"})
    \cup ({"index"} \X {"closing"}) \cup ({"closing"} \X {"sending", "over"})
    \cup ({"sending"} \X {"over"})

OutcomeMoves(s) ==
  \/ outcome'[s] = outcome[s] /\ (phase'[s] = "closing" => phase[s] \in {"index", "closing"})
  \/ phase[s] = "loaded" /\ phase'[s] = "closing" /\ reason'[s] = reason[s]
       /\ (outcome'[s] = "held" \/ (outcome'[s] = "failed" /\ aborted(s)))
  \/ phase[s] = "model" /\ phase'[s] = "answered"
  \/ phase'[s] = "closing" /\ outcome'[s] = "threw"
  \/ outcome'[s] = "none" /\ phase'[s] = "over" /\ phase[s] = "closing"
  \/ outcome'[s] = "none" /\ phase'[s] = phase[s] /\ phase[s] \notin Busy

ReasonMoves(s) ==
  \/ reason'[s] = reason[s]
  \/ phase'[s] = phase[s] /\ phase[s] \in InTurn /\ ~aborted(s) /\ aborted(s)'
  \/ outcome'[s] = "none" /\ phase'[s] = phase[s] /\ phase[s] \notin Busy

LEMMA TurnMoves ==
  ASSUME TypeOK, CInv, Typed, PhasesOrdered, [ConversationNext]_vars, NEW s \in Turn
  PROVE  /\ phase'[s] = phase[s] \/ <<phase[s], phase'[s]>> \in Moves
         /\ OutcomeMoves(s) /\ ReasonMoves(s)
<1> USE DEF CInv
<1> DEFINE G == /\ phase'[s] = phase[s] \/ <<phase[s], phase'[s]>> \in Moves
                /\ OutcomeMoves(s) /\ ReasonMoves(s)
<1>0. ASSUME NEW why \in Reasons, abort(why), UNCHANGED <<phase, outcome>> PROVE G
  <2>1. reason'[s] = IF s = activeTurn /\ reason[s] = None THEN why ELSE reason[s]
    BY <1>0 DEF abort
  <2>2. s = activeTurn => phase[s] \in InTurn \/ (phase[s] \notin Busy /\ outcome[s] = "none")
    <3>1. activeTurn \in Msg => phase[activeTurn] \in InTurn \/ place[activeTurn] # "running"
      BY DEF ActiveIsRunning, Stranded
    <3>2. activeTurn \in Msg => phase[activeTurn] \in InTurn \/ phase[activeTurn] \notin Busy
      BY <3>1 DEF Working
    <3> QED
      BY <3>2 DEF TurnsTyped, PhasesOrdered
  <2> QED BY <1>0, <2>1, <2>2 DEF OutcomeMoves, ReasonMoves, Reasons, aborted
<1>3. ASSUME NEW m \in Msg, Arrive(m) \/ Handle(m) \/ Escape(m) PROVE G
  <2>0. m \in Turn
    OBVIOUS
  <2>1. CASE Arrive(m)
    <3>1. UNCHANGED <<phase, outcome>> /\ (reason' = reason \/ abort("interrupt"))
      BY <2>1 DEF Arrive
    <3> QED BY <1>0, <3>1 DEF Reasons, OutcomeMoves, ReasonMoves
  <2>2. CASE Start(m)
    <3>1. phase[m] = "off" /\ UNCHANGED <<reason, outcome>>
          /\ \E p \in {"fetch", "off"} : Enter(m, p)
      BY <2>2 DEF Start, claim, PhasesOrdered, Enter
    <3> QED BY <2>0, <3>1, Entered DEF Moves, OutcomeMoves, ReasonMoves
  <2>3. CASE FetchFails(m) \/ Escape(m) \/ Register(m) \/ CloseAborted(m) \/ Close(m) \/ Send(m)
    <3>1. UNCHANGED <<reason, outcome>>
          /\ \E p \in {"over", "open", "sending"} : Enter(m, p) /\ <<phase[m], p>> \in Moves
      BY <2>3 DEF FetchFails, Escape, Register, CloseAborted, Close, Send, Moves
    <3> QED BY <2>0, <3>1, Entered DEF OutcomeMoves, ReasonMoves
  <2>4. CASE Settled(m)
    <3>1. place[m] = "ended" /\ phase' = phase /\ Ended(m, "none") /\ reason' = [reason EXCEPT ![m] = None]
      BY <2>4 DEF Settled, Settle
    <3>2. phase[m] \notin Busy
      BY <3>1 DEF Working
    <3> QED BY <2>0, <3>1, <3>2, EndedAs DEF OutcomeMoves, ReasonMoves, TurnsTyped
  <2> QED
    BY <1>3, <2>1, <2>2, <2>3, <2>4 DEF Handle
<1>4. ASSUME NEW t \in Turn, React(t) \/ Body(t) \/ Halt(t) \/ Throw(t) PROVE G
  <2>1. CASE React(t) \/ Load(t) \/ Prepare(t) \/ Persist(t) \/ Complete(t)
    <3>1. UNCHANGED <<reason, outcome>>
          /\ \E p \in {"open", "loaded", "model", "index", "closing"} :
               Enter(t, p) /\ <<phase[t], p>> \in Moves /\ (p = "closing" => phase[t] = "index")
      BY <2>1 DEF React, Load, Prepare, Persist, Complete, Moves
    <3> QED BY <3>1, Entered DEF OutcomeMoves, ReasonMoves
  <2>2. CASE Hold(t)
    <3>1. phase[t] = "loaded" /\ Enter(t, "closing") /\ reason' = reason
          /\ (Ended(t, "held") \/ (Ended(t, "failed") /\ aborted(t)))
      BY <2>2 DEF Hold
    <3> QED BY <3>1, Entered, EndedAs DEF OutcomeMoves, ReasonMoves, Moves
  <2>3. CASE Answer(t) \/ Halt(t)
    <3>1. phase[t] = "model" /\ Enter(t, "answered") /\ reason' = reason
          /\ \E o \in {"reply", "failed", "halted"} : Ended(t, o)
      BY <2>3 DEF Answer, Halt
    <3> QED BY <3>1, Entered, EndedAs DEF OutcomeMoves, ReasonMoves, Moves
  <2>4. CASE Throw(t)
    <3>1. phase[t] \in {"open", "loaded", "model", "answered"} /\ Enter(t, "closing") /\ reason' = reason
          /\ Ended(t, "threw")
      BY <2>4 DEF Throw
    <3> QED BY <3>1, Entered, EndedAs DEF OutcomeMoves, ReasonMoves, Moves
  <2>5. CASE CloseReaction(t)
    <3>1. phase[t] = "closing" /\ Enter(t, "over") /\ reason' = reason /\ Ended(t, "none")
      BY <2>5 DEF CloseReaction
    <3> QED BY <3>1, Entered, EndedAs DEF OutcomeMoves, ReasonMoves, Moves
  <2> QED
    BY <1>4, <2>1, <2>2, <2>3, <2>4, <2>5 DEF Body
<1>5. CASE Stop \/ Reset
  <2>1. UNCHANGED <<phase, outcome>> /\ \E why \in Reasons : abort(why)
    BY <1>5 DEF Stop, Reset, Reasons
  <2> QED BY <1>0, <2>1
<1>6. CASE UNCHANGED vars
  BY <1>6 DEF vars, turns, OutcomeMoves, ReasonMoves
<1> QED
  BY <1>3, <1>4, <1>5, <1>6 DEF ConversationNext

(* What a step writes.                                                          *)
Writes(r) ==
  /\ hist' = Append(hist, r) /\ r \in Record
  /\ \/ r = Note
     \/ \E t \in Turn : /\ r = [of |-> t, as |-> outcome[t]] /\ outcome[t] \in {"reply", "failed"}
                        /\ phase[t] = "answered" /\ phase'[t] = "index"
     \/ \E t \in Turn : /\ r = [of |-> t, as |-> "interrupted"]
                        /\ phase[t] = "closing" /\ phase'[t] = "over"

LEMMA WriteStep ==
  ASSUME CInv, Typed, PhasesOrdered, [ConversationNext]_vars
  PROVE  hist' = hist \/ \E r \in Record : Writes(r)
<1> USE DEF CInv
<1>1. ASSUME NEW m \in Msg, Arrive(m) \/ Handle(m) \/ Escape(m), ~CloseAborted(m) PROVE hist' = hist
  BY <1>1 DEF Arrive, Handle, Start, FetchFails, Escape, Register, Close, Send, Settled, store
<1>2. ASSUME NEW m \in Msg, CloseAborted(m), hist' # hist PROVE \E r \in Record : Writes(r)
  <2>1. m \in Turn
    OBVIOUS
  <2>2. /\ hist' = Append(hist, [of |-> m, as |-> "interrupted"])
        /\ phase[m] = "closing" /\ phase'[m] = "over"
    BY <1>2, <2>1, Entered DEF CloseAborted
  <2>3. [of |-> m, as |-> "interrupted"] \in Record
    BY <2>1, Empties
  <2> QED BY <2>1, <2>2, <2>3 DEF Writes
<1>3. ASSUME NEW t \in Turn, React(t) \/ Body(t) \/ Halt(t) \/ Throw(t), ~Persist(t) PROVE hist' = hist
  BY <1>3 DEF React, Body, Halt, Throw, Load, Hold, Prepare, Answer, Complete, CloseReaction, store
<1>4. ASSUME NEW t \in Turn, Persist(t), hist' # hist PROVE \E r \in Record : Writes(r)
  <2>1. /\ hist' = Append(hist, [of |-> t, as |-> outcome[t]])
        /\ phase[t] = "answered" /\ phase'[t] = "index"
    BY <1>4, Entered DEF Persist
  <2>2. outcome[t] \in {"reply", "failed"}
    BY <1>4 DEF Persist, Written
  <2>3. [of |-> t, as |-> outcome[t]] \in Record
    BY <2>2, Empties
  <2> QED BY <2>1, <2>2, <2>3 DEF Writes
<1>5. ASSUME Stop, hist' # hist PROVE Writes(Note)
  BY <1>5, Empties DEF Stop, Writes
<1> QED
  BY <1>1, <1>2, <1>3, <1>4, <1>5, Empties DEF ConversationNext, Reset, vars, store

(* Above a position there is only ever more.                                    *)
LEMMA AboveGrows ==
  ASSUME hist \in Seq(Record), NEW r \in Record, hist' = Append(hist, r), NEW f \in Nat
  PROVE  /\ Above(f) \subseteq Above(f)' /\ Above(f)' \subseteq Above(f) \cup {r}
         /\ f <= Len(hist) => r \in Above(f)'
<1>1. /\ Len(hist') = Len(hist) + 1 /\ Len(hist) \in Nat
      /\ \A i \in 1..Len(hist) : hist'[i] = hist[i]
      /\ hist'[Len(hist) + 1] = r
  OBVIOUS
<1>2. Above(f) \subseteq Above(f)'
  BY <1>1 DEF Above
<1>3. Above(f)' \subseteq Above(f) \cup {r}
  BY <1>1 DEF Above
<1>4. ASSUME f <= Len(hist) PROVE r \in Above(f)'
  <2>1. Len(hist) + 1 \in f + 1 .. Len(hist')
    BY <1>1, <1>4
  <2> QED BY <1>1, <2>1 DEF Above
<1> QED
  BY <1>2, <1>3, <1>4

LEMMA AboveAll ==
  ASSUME hist \in Seq(Record), NEW f \in Nat
  PROVE  Above(f) \subseteq Above(0) /\ Above(0) \subseteq Record
<1>1. Len(hist) \in Nat /\ \A i \in 1..Len(hist) : hist[i] \in Record
  OBVIOUS
<1> QED
  BY <1>1 DEF Above

(* What is in the history, by turn.                                             *)
LEMMA InHistoryAbove ==
  ASSUME NEW t \in Turn
  PROVE  InHistory(t) <=> \E r \in Above(0) : r.of = t
BY DEF InHistory, Above

LEMMA HistorySame == hist' = hist => \A f : Above(f)' = Above(f)
BY DEF Above

LEMMA WrittenStep ==
  ASSUME TypeOK, CInv, Typed, PhasesOrdered, WrittenOnce, [ConversationNext]_vars PROVE WrittenOnce'
<1> SUFFICES ASSUME NEW t \in Turn
             PROVE  /\ phase'[t] \in Early \cup {"model", "answered"} => \A r \in Above(0)' : r.of # t
                    /\ phase'[t] \in {"index", "closing"} => [of |-> t, as |-> "interrupted"] \notin Above(0)'
  BY DEF WrittenOnce
<1>1. phase'[t] = phase[t] \/ <<phase[t], phase'[t]>> \in Moves
  BY TurnMoves
<1>2. /\ phase[t] \in Early \cup {"model", "answered"} => \A r \in Above(0) : r.of # t
      /\ phase[t] \in {"index", "closing"} => [of |-> t, as |-> "interrupted"] \notin Above(0)
  BY DEF WrittenOnce
<1>3. /\ phase'[t] \in Early \cup {"model", "answered"} => \A r \in Above(0) : r.of # t
      /\ phase'[t] \in {"index", "closing"} => [of |-> t, as |-> "interrupted"] \notin Above(0)
  BY <1>1, <1>2 DEF Moves, Early
<1>4. CASE hist' = hist
  BY <1>3, <1>4, HistorySame
<1>5. ASSUME NEW r \in Record, Writes(r)
      PROVE  /\ phase'[t] \in Early \cup {"model", "answered"} => r.of # t
             /\ phase'[t] \in {"index", "closing"} => r # [of |-> t, as |-> "interrupted"]
  <2>1. CASE r = Note
    BY <2>1, CacheAssumption DEF Note
  <2>2. ASSUME NEW u \in Turn, r = [of |-> u, as |-> outcome[u]], outcome[u] \in {"reply", "failed"}, phase'[u] = "index"
        PROVE  /\ phase'[t] \in Early \cup {"model", "answered"} => r.of # t
               /\ phase'[t] \in {"index", "closing"} => r # [of |-> t, as |-> "interrupted"]
    BY <2>2 DEF Early
  <2>3. ASSUME NEW u \in Turn, r = [of |-> u, as |-> "interrupted"], phase'[u] = "over"
        PROVE  /\ phase'[t] \in Early \cup {"model", "answered"} => r.of # t
               /\ phase'[t] \in {"index", "closing"} => r # [of |-> t, as |-> "interrupted"]
    BY <2>3 DEF Early
  <2> QED BY <1>5, <2>1, <2>2, <2>3 DEF Writes
<1>6. ASSUME NEW r \in Record, Writes(r) PROVE Above(0)' \subseteq Above(0) \cup {r}
  BY <1>6, AboveGrows DEF Writes, Typed
<1> QED
  BY <1>3, <1>4, <1>5, <1>6, WriteStep

LEMMA HistoryKept ==
  ASSUME CInv, Typed, PhasesOrdered, [ConversationNext]_vars
  PROVE  Above(0) \subseteq Above(0)' /\ \A t \in Turn : InHistory(t) => InHistory(t)'
<1>1. CASE hist' = hist
  BY <1>1, HistorySame DEF InHistory
<1>2. ASSUME NEW r \in Record, Writes(r) PROVE Above(0) \subseteq Above(0)'
  BY <1>2, AboveGrows DEF Writes, Typed
<1>3. ASSUME NEW t \in Turn, Above(0) \subseteq Above(0)', InHistory(t) PROVE InHistory(t)'
  <2>1. \E r \in Above(0) : r.of = t
    BY <1>3, InHistoryAbove
  <2>2. \E r \in Above(0)' : r.of = t
    BY <1>3, <2>1
  <2> QED BY <2>2 DEF InHistory, Above
<1> QED
  BY <1>1, <1>2, <1>3, WriteStep

LEMMA PersistWrites ==
  ASSUME CInv, Typed, PhasesOrdered, NEW t \in Turn, Persist(t)
  PROVE  \/ outcome[t] = "failed" /\ aborted(t)
         \/ outcome[t] = "halted"
         \/ InHistory(t)' /\ (outcome[t] = "reply" => Reply(t) \in Above(0)')
<1>1. CASE ~Written(t)
  BY <1>1 DEF Written, Persist, PhasesOrdered
<1>2. CASE Written(t)
  <2>1. hist' = Append(hist, [of |-> t, as |-> outcome[t]])
    BY <1>2 DEF Persist
  <2>2. [of |-> t, as |-> outcome[t]] \in Record /\ hist \in Seq(Record) /\ 0 <= Len(hist)
    <3>1. outcome[t] \in {"reply", "failed"}
      BY <1>2 DEF Written
    <3>2. hist \in Seq(Record) /\ 0 <= Len(hist)
      BY DEF Typed
    <3> QED BY <3>1, <3>2, Empties
  <2>3. [of |-> t, as |-> outcome[t]] \in Above(0)'
    BY <2>1, <2>2, AboveGrows
  <2>4. InHistory(t)'
    BY <2>3 DEF InHistory, Above
  <2> QED BY <2>3, <2>4 DEF Reply
<1> QED
  BY <1>1, <1>2

(* Only who persists gets to be indexed.                                        *)
LEMMA IndexedPersist ==
  ASSUME CInv, Typed, PhasesOrdered, [ConversationNext]_vars, NEW t \in Turn, phase[t] # "index", phase'[t] = "index"
  PROVE  Persist(t) /\ UNCHANGED <<outcome, reason>>
<1> USE DEF CInv
<1>1. ASSUME NEW m \in Msg, Arrive(m) \/ Handle(m) \/ Escape(m) PROVE FALSE
  <2>0. m \in Turn
    OBVIOUS
  <2>1. phase' = phase \/ \E p \in {"fetch", "off", "over", "open", "sending"} : Enter(m, p)
    BY <1>1 DEF Arrive, Handle, Start, FetchFails, Escape, Register, CloseAborted, Close, Send, Settled, Enter
  <2> QED BY <2>0, <2>1, Entered
<1>2. ASSUME NEW s \in Turn, React(s) \/ Body(s) \/ Halt(s) \/ Throw(s) PROVE Persist(t) /\ UNCHANGED <<outcome, reason>>
  <2>1. CASE Persist(s)
    BY <2>1, Entered DEF Persist
  <2>2. CASE ~Persist(s)
    <3>1. \E p \in Phases \ {"index"} : Enter(s, p)
      BY <1>2, <2>2 DEF React, Body, Halt, Throw, Load, Hold, Prepare, Answer, Complete, CloseReaction, Phases, InTurn
    <3> QED BY <3>1, Entered
  <2> QED BY <2>1, <2>2
<1> QED
  BY <1>1, <1>2 DEF ConversationNext, Stop, Reset, vars, turns

LEMMA RememberedStep ==
  ASSUME TypeOK, CInv, Typed, PhasesOrdered, Remembered, [ConversationNext]_vars PROVE Remembered'
<1> SUFFICES ASSUME NEW t \in Turn
             PROVE  /\ phase'[t] = "index" /\ outcome'[t] = "reply" => Reply(t) \in Above(0)'
                    /\ phase'[t] \in {"index", "closing"} /\ outcome'[t] \in {"reply", "failed"}
                         => InHistory(t)' \/ (outcome'[t] = "failed" /\ aborted(t)')
  BY DEF Remembered, Reply
<1>1. /\ phase[t] = "index" /\ outcome[t] = "reply" => Reply(t) \in Above(0)
      /\ phase[t] \in {"index", "closing"} /\ outcome[t] \in {"reply", "failed"}
           => InHistory(t) \/ (outcome[t] = "failed" /\ aborted(t))
  BY DEF Remembered
<1>2. /\ phase'[t] = phase[t] \/ <<phase[t], phase'[t]>> \in Moves
      /\ OutcomeMoves(t) /\ ReasonMoves(t)
  BY TurnMoves
<1>3. Above(0) \subseteq Above(0)' /\ (InHistory(t) => InHistory(t)')
  BY HistoryKept
<1>4. CASE phase[t] # "index" /\ phase'[t] = "index"
  BY <1>4, IndexedPersist, PersistWrites DEF aborted
<1>5. CASE ~(phase[t] # "index" /\ phase'[t] = "index")
  <2>1. CASE phase'[t] = "index"
    <3>1. phase[t] = "index" /\ outcome'[t] = outcome[t] /\ (aborted(t) => aborted(t)')
      BY <1>2, <1>5, <2>1 DEF OutcomeMoves, ReasonMoves, Busy, InTurn, aborted
    <3> QED BY <1>1, <1>3, <2>1, <3>1
  <2>2. CASE phase'[t] = "closing" /\ phase[t] \in {"index", "closing"}
    <3>1. (outcome'[t] = outcome[t] \/ outcome'[t] = "threw") /\ (aborted(t) => aborted(t)')
      BY <1>2, <2>2 DEF OutcomeMoves, ReasonMoves, Busy, InTurn, aborted
    <3> QED BY <1>1, <1>3, <2>2, <3>1
  <2>3. CASE phase'[t] = "closing" /\ phase[t] \notin {"index", "closing"}
    BY <1>2, <2>3 DEF OutcomeMoves, aborted
  <2> QED BY <2>1, <2>2, <2>3
<1> QED
  BY <1>4, <1>5

LEMMA CloseWrites ==
  ASSUME CInv, Typed, PhasesOrdered, [ConversationNext]_vars, NEW m \in Msg,
         phase[m] = "closing", phase'[m] \in {"sending", "over"}
  PROVE  \/ ~aborted(m) /\ phase'[m] = "sending"
         \/ aborted(m) /\ (recordsInterrupted(m) => InHistory(m)')
<1> USE DEF CInv
<1>0. m \in Turn
  OBVIOUS
<1>1. ASSUME NEW n \in Msg, Arrive(n) \/ Handle(n) \/ Escape(n) PROVE Close(m) \/ CloseAborted(m)
  <2>0. n \in Turn
    OBVIOUS
  <2>1. CASE Close(n) \/ CloseAborted(n)
    <3>1. \E p \in Phases : Enter(n, p)
      BY <2>1 DEF Close, CloseAborted, Phases
    <3> QED BY <1>0, <2>0, <2>1, <3>1, Entered
  <2>2. CASE ~(Close(n) \/ CloseAborted(n))
    <3>1. phase' = phase \/ (phase[n] # "closing" /\ \E p \in Phases : Enter(n, p))
      BY <1>1, <2>0, <2>2 DEF Arrive, Handle, Start, FetchFails, Escape, Register, Send, Settled, Enter, Phases, InTurn,
                        claim, PhasesOrdered
    <3> QED BY <1>0, <2>0, <3>1, Entered
  <2> QED BY <2>1, <2>2
<1>2. ASSUME NEW s \in Turn, React(s) \/ Body(s) \/ Halt(s) \/ Throw(s) PROVE FALSE
  <2>1. /\ \E p \in Phases : Enter(s, p) /\ (p \in {"sending", "over"} => s \in Reaction)
    BY <1>2 DEF React, Body, Halt, Throw, Load, Hold, Prepare, Answer, Persist, Complete, CloseReaction, Phases, InTurn
  <2> QED BY <1>0, <2>1, Entered
<1>3. CASE Close(m)
  BY <1>0, <1>3, Entered DEF Close
<1>4. CASE CloseAborted(m)
  <2>1. aborted(m)
    BY <1>4 DEF CloseAborted
  <2>2. ASSUME recordsInterrupted(m) PROVE InHistory(m)'
    <3>1. hist' = Append(hist, [of |-> m, as |-> "interrupted"])
      BY <1>4, <2>2 DEF CloseAborted
    <3>2. [of |-> m, as |-> "interrupted"] \in Record
      BY <1>0, Empties
    <3>4. hist \in Seq(Record) /\ 0 <= Len(hist)
      BY DEF Typed
    <3>3. [of |-> m, as |-> "interrupted"] \in Above(0)'
      BY <3>1, <3>2, <3>4, AboveGrows
    <3> QED BY <3>3 DEF InHistory, Above
  <2> QED BY <2>1, <2>2
<1> QED
  BY <1>1, <1>2, <1>3, <1>4 DEF ConversationNext, Stop, Reset, vars, turns

LEMMA ForgottenStep ==
  ASSUME TypeOK, CInv, Typed, PhasesOrdered, Remembered, NothingForgotten, [ConversationNext]_vars
  PROVE  NothingForgotten'
<1> SUFFICES ASSUME NEW m \in Msg, phase'[m] \in {"sending", "over"},
                    outcome'[m] \in {"reply", "failed"} \/ (outcome'[m] \in {"threw", "halted"} /\ aborted(m)'),
                    reason'[m] # "reset"
             PROVE  InHistory(m)'
  BY DEF NothingForgotten, InHistory, aborted
<1>0. m \in Turn
  OBVIOUS
<1>1. /\ phase'[m] = phase[m] \/ <<phase[m], phase'[m]>> \in Moves
      /\ OutcomeMoves(m) /\ ReasonMoves(m)
  BY <1>0, TurnMoves
<1>2. outcome'[m] = outcome[m] /\ reason'[m] = reason[m]
  BY <1>1 DEF OutcomeMoves, ReasonMoves, Busy, InTurn
<1>3. InHistory(m) => InHistory(m)'
  BY <1>0, HistoryKept
<1>4. CASE phase[m] \in {"sending", "over"}
  <2>1. InHistory(m)
    BY <1>2, <1>4 DEF NothingForgotten, InHistory, aborted
  <2> QED BY <1>3, <2>1
<1>5. CASE phase[m] = "closing"
  BY <1>0, <1>2, <1>3, <1>5, CloseWrites DEF Remembered, recordsInterrupted, aborted
<1>6. CASE phase[m] = "fetch"
  BY <1>0, <1>2, <1>6 DEF PhasesOrdered
<1>7. CASE phase[m] = "open"
  BY <1>0, <1>2, <1>7 DEF PhasesOrdered
<1> QED
  BY <1>1, <1>4, <1>5, <1>6, <1>7 DEF Moves

(* What happens to the epoch and to the plans.                                  *)
Lets ==
  /\ cache' \in {cache, NoEpoch}
  /\ \A s \in Turn : plan'[s] \in {plan[s], NoPlan}

LEMMA PlanStep ==
  ASSUME CInv, Typed, [ConversationNext]_vars
  PROVE  Lets \/ \E t \in Turn : Prepare(t) \/ Complete(t)
<1>1. ASSUME NEW m \in Msg, Arrive(m) \/ Handle(m) \/ Escape(m) PROVE Lets
  BY <1>1 DEF Arrive, Handle, Start, FetchFails, Escape, Register, CloseAborted, Close, Send, Settled, Lets
<1>2. ASSUME NEW t \in Turn, React(t) \/ Body(t) \/ Halt(t) \/ Throw(t), ~Prepare(t), ~Complete(t) PROVE Lets
  <2>1. CASE Throw(t)
    BY <2>1 DEF Throw, Lets, Typed
  <2>2. CASE Hold(t)
    BY <2>2 DEF Hold, invalidate, Lets
  <2> QED
    BY <1>2, <2>1, <2>2 DEF React, Body, Halt, Load, Answer, Persist, CloseReaction, Lets
<1> QED
  BY <1>1, <1>2 DEF ConversationNext, Stop, Reset, vars, Lets

(* A step that keeps what a turn has read, or reads it, or drops it.            *)
LEMMA WindowStep ==
  ASSUME CInv, Typed, [ConversationNext]_vars, NEW s \in Turn
  PROVE  \/ window'[s] = window[s] /\ floor'[s] = floor[s]
         \/ Load(s)
         \/ phase[s] = "closing" /\ floor'[s] = 0
<1>1. ASSUME NEW t \in Turn, phase[t] = "closing", DropHistory(t)
      PROVE  (window'[s] = window[s] /\ floor'[s] = floor[s]) \/ (phase[s] = "closing" /\ floor'[s] = 0)
  BY <1>1 DEF DropHistory, Typed
<1>2. ASSUME NEW m \in Msg, Arrive(m) \/ Handle(m) \/ Escape(m)
      PROVE  (window'[s] = window[s] /\ floor'[s] = floor[s]) \/ (phase[s] = "closing" /\ floor'[s] = 0)
  <2>0. m \in Turn
    OBVIOUS
  <2> QED
    BY <1>1, <1>2, <2>0 DEF Arrive, Handle, Start, FetchFails, Escape, Register, CloseAborted, Close, Send, Settled
<1>3. ASSUME NEW t \in Turn, React(t) \/ Body(t) \/ Halt(t) \/ Throw(t)
      PROVE  \/ window'[s] = window[s] /\ floor'[s] = floor[s]
             \/ Load(s)
             \/ phase[s] = "closing" /\ floor'[s] = 0
  <2>1. CASE Load(t)
    BY <2>1 DEF Load, Typed
  <2> QED
    BY <1>1, <1>3, <2>1 DEF React, Body, Halt, Throw, Hold, Prepare, Answer, Persist, Complete, CloseReaction
<1> QED
  BY <1>2, <1>3 DEF ConversationNext, Stop, Reset, vars, turns

(* A turn that has been given a plan.                                           *)
LEMMA PrepareFacts ==
  ASSUME CInv, Typed, NEW t \in Turn, Prepare(t)
  PROVE  \E f \in Epoch :
           /\ \/ f = New(t, window[t])
              \/ /\ f = cache /\ cache # NoEpoch /\ ~cache.active
                 /\ sameTrust(cache, t) /\ sameHistory(cache, window[t])
           /\ cache'.id = f.id /\ cache'.turns = f.turns /\ cache'.trusted = f.trusted /\ cache'.active
           /\ plan'[t].id = f.id /\ plan'[t].turns = f.turns
           /\ \A s \in Turn \ {t} : plan'[s] = plan[s]
           /\ canonicalHistory(cache)' = canonicalHistory(f) /\ Prompt(t)' = canonicalHistory(f)
<1>1. PICK f \in Epoch, b \in BOOLEAN :
           /\ \/ f = New(t, window[t])
              \/ /\ f = cache /\ cache # NoEpoch /\ ~cache.active
                 /\ sameTrust(cache, t) /\ sameHistory(cache, window[t])
           /\ cache' = [f EXCEPT !.active = TRUE]
           /\ plan' = [plan EXCEPT ![t] = [id |-> f.id, base |-> f.base, turns |-> f.turns, retain |-> b]]
  <2>1. window[t] \in Seq(Record) /\ prepare(t, window[t]) /\ cache \in Epoch /\ plan \in [Turn -> Plan]
    BY DEF Prepare, Typed
  <2> QED BY <2>1, Prepared
<1>2. cache'.id = f.id /\ cache'.base = f.base /\ cache'.turns = f.turns /\ cache'.trusted = f.trusted /\ cache'.active
  BY <1>1 DEF Epoch
<1>3. /\ plan'[t] = [id |-> f.id, base |-> f.base, turns |-> f.turns, retain |-> b]
      /\ \A s \in Turn \ {t} : plan'[s] = plan[s]
  BY <1>1 DEF Typed
<1>4. plan'[t].id = f.id /\ plan'[t].base = f.base /\ plan'[t].turns = f.turns
  BY <1>3
<1>5. canonicalHistory(cache)' = canonicalHistory(f) /\ Prompt(t)' = canonicalHistory(f)
  BY <1>2, <1>4 DEF canonicalHistory, Prompt
<1> QED
  BY <1>1, <1>2, <1>3, <1>4, <1>5

LEMMA CompleteFacts ==
  ASSUME CInv, Typed, NEW t \in Turn, Complete(t)
  PROVE  /\ plan'[t] = NoPlan /\ \A s \in Turn \ {t} : plan'[s] = plan[s]
         /\ \/ cache' = NoEpoch
            \/ cache' = cache /\ ~Serving(t)
            \/ /\ Serving(t)
               /\ cache'.id = cache.id /\ cache'.base = cache.base /\ cache'.trusted = cache.trusted /\ ~cache'.active
               /\ \/ cache'.turns = cache.turns
                  \/ cache'.turns = Append(cache.turns, Reply(t)) /\ outcome[t] = "reply"
<1>1. plan' = [plan EXCEPT ![t] = NoPlan]
  BY DEF Complete, complete, fail
<1>2. \/ cache' = NoEpoch
      \/ cache' = cache /\ ~Serving(t)
      \/ Serving(t) /\ cache' = [cache EXCEPT !.active = FALSE]
      \/ Serving(t) /\ cache' = [cache EXCEPT !.active = FALSE, !.turns = Append(@, Reply(t))] /\ outcome[t] = "reply"
  BY DEF Complete, complete, fail
<1>3. CASE Serving(t) /\ cache' = [cache EXCEPT !.active = FALSE]
  <2>1. cache'.id = cache.id /\ cache'.base = cache.base /\ cache'.trusted = cache.trusted /\ cache'.active = FALSE
        /\ cache'.turns = cache.turns
    BY <1>3 DEF Typed, Epoch
  <2> QED BY <1>1, <1>3, <2>1 DEF Typed
<1>4. CASE /\ Serving(t) /\ cache' = [cache EXCEPT !.active = FALSE, !.turns = Append(@, Reply(t))]
           /\ outcome[t] = "reply"
  <2>1. cache'.id = cache.id /\ cache'.base = cache.base /\ cache'.trusted = cache.trusted /\ cache'.active = FALSE
        /\ cache'.turns = Append(cache.turns, Reply(t))
    BY <1>4 DEF Typed, Epoch
  <2> QED BY <1>1, <1>4, <2>1 DEF Typed
<1> QED
  BY <1>1, <1>2, <1>3, <1>4 DEF Typed

LEMMA StaysLate ==
  ASSUME TypeOK, CInv, Typed, PhasesOrdered, [ConversationNext]_vars, NEW s \in Turn, phase[s] \notin Early
  PROVE  phase'[s] \notin Early
BY TurnMoves DEF Moves, Early

NamedCache(e, trusted) == e.id \in Turn /\ phase[e.id] \notin Early /\ (trusted <=> e.id \in Trusted)

LEMMA NamedStep ==
  ASSUME TypeOK, CInv, Typed, PhasesOrdered, EpochsNamed, [ConversationNext]_vars PROVE EpochsNamed'
<1>1. /\ cache # NoEpoch => NamedCache(cache, cache.trusted)
      /\ \A t \in Turn : plan[t] # NoPlan => NamedCache(plan[t], t \in Trusted)
      /\ \A t \in Turn : Serving(t) => cache.active
      /\ \A s, t \in Turn : Serving(s) /\ Serving(t) => s = t
  BY DEF EpochsNamed, NamedCache
<1> SUFFICES /\ cache' # NoEpoch => NamedCache(cache, cache.trusted)'
             /\ \A t \in Turn : plan'[t] # NoPlan => NamedCache(plan[t], t \in Trusted)'
             /\ \A t \in Turn : Serving(t)' => cache'.active
             /\ \A s, t \in Turn : Serving(s)' /\ Serving(t)' => s = t
  BY DEF EpochsNamed, NamedCache
<1>2. \A s \in Turn : phase[s] \notin Early => phase'[s] \notin Early
  BY StaysLate
<1>3. NoPlan.id = NoTurn /\ NoTurn \notin Turn /\ NoEpoch.id = NoTurn
  BY DEF NoPlan, NoEpoch
<1>4. CASE Lets
  <2>1. cache' # NoEpoch => cache' = cache
    BY <1>4 DEF Lets
  <2>2. \A t \in Turn : plan'[t] # NoPlan => plan'[t] = plan[t]
    BY <1>4 DEF Lets
  <2>3. cache' # NoEpoch => NamedCache(cache, cache.trusted)'
    BY <1>1, <1>2, <2>1 DEF NamedCache
  <2>4. \A t \in Turn : plan'[t] # NoPlan => NamedCache(plan[t], t \in Trusted)'
    BY <1>1, <1>2, <2>2 DEF NamedCache
  <2>5. \A t \in Turn : Serving(t)' => Serving(t) /\ cache' = cache
    <3> SUFFICES ASSUME NEW t \in Turn, Serving(t)' PROVE Serving(t) /\ cache' = cache
      OBVIOUS
    <3>1. cache' = cache /\ cache # NoEpoch /\ cache.id = plan'[t].id
      BY <2>1 DEF Serving
    <3>2. plan'[t] # NoPlan
      BY <1>1, <1>3, <3>1 DEF NamedCache
    <3> QED BY <2>2, <3>1, <3>2 DEF Serving
  <2> QED BY <1>1, <2>3, <2>4, <2>5
<1>5. ASSUME NEW t \in Turn, Prepare(t)
      PROVE  /\ cache' # NoEpoch => NamedCache(cache, cache.trusted)'
             /\ \A s \in Turn : plan'[s] # NoPlan => NamedCache(plan[s], s \in Trusted)'
             /\ \A s \in Turn : Serving(s)' => cache'.active
             /\ \A s, u \in Turn : Serving(s)' /\ Serving(u)' => s = u
  <2>1. PICK f \in Epoch :
           /\ \/ f = New(t, window[t])
              \/ /\ f = cache /\ cache # NoEpoch /\ ~cache.active
                 /\ sameTrust(cache, t)
           /\ cache'.id = f.id /\ cache'.trusted = f.trusted /\ cache'.active
           /\ plan'[t].id = f.id
           /\ \A s \in Turn \ {t} : plan'[s] = plan[s]
    BY <1>5, PrepareFacts
  <2>2. phase[t] = "loaded" /\ phase'[t] = "model"
    BY <1>5, Entered DEF Prepare, CInv
  <2>3. f.id \in Turn /\ phase'[f.id] \notin Early /\ (f.trusted <=> f.id \in Trusted) /\ (f.id \in Trusted <=> t \in Trusted)
    <3>1. CASE f = New(t, window[t])
      BY <2>2, <3>1 DEF New, Early
    <3>2. CASE f = cache /\ cache # NoEpoch /\ sameTrust(cache, t)
      BY <1>1, <1>2, <3>2 DEF NamedCache, sameTrust
    <3> QED BY <2>1, <3>1, <3>2
  <2>4. \A s \in Turn \ {t} : plan[s].id # f.id
    <3>1. CASE f = New(t, window[t])
      <4>1. \A s \in Turn : plan[s] # NoPlan => phase[plan[s].id] \notin Early
        BY <1>1 DEF NamedCache
      <4>2. f.id = t /\ phase[t] \in Early /\ t # NoTurn
        BY <2>2, <3>1, <1>3 DEF New, Early
      <4> QED BY <1>3, <4>1, <4>2
    <3>2. CASE f = cache /\ cache # NoEpoch /\ ~cache.active
      BY <1>1, <3>2 DEF Serving
    <3> QED BY <2>1, <3>1, <3>2
  <2>5. \A s \in Turn : Serving(s)' => s = t
    BY <2>1, <2>4 DEF Serving
  <2>6. NamedCache(cache, cache.trusted)'
    BY <2>1, <2>3 DEF NamedCache
  <2>7. \A s \in Turn : plan'[s] # NoPlan => NamedCache(plan[s], s \in Trusted)'
    BY <1>1, <1>2, <2>1, <2>3 DEF NamedCache
  <2> QED BY <2>1, <2>5, <2>6, <2>7
<1>6. ASSUME NEW t \in Turn, Complete(t)
      PROVE  /\ cache' # NoEpoch => NamedCache(cache, cache.trusted)'
             /\ \A s \in Turn : plan'[s] # NoPlan => NamedCache(plan[s], s \in Trusted)'
             /\ \A s \in Turn : Serving(s)' => cache'.active
             /\ \A s, u \in Turn : Serving(s)' /\ Serving(u)' => s = u
  <2>1. /\ plan'[t] = NoPlan /\ \A s \in Turn \ {t} : plan'[s] = plan[s]
        /\ \/ cache' = NoEpoch
           \/ cache' = cache /\ ~Serving(t)
           \/ Serving(t) /\ cache'.id = cache.id /\ cache'.trusted = cache.trusted
    BY <1>6, CompleteFacts
  <2>2. \A s \in Turn : plan'[s] # NoPlan => NamedCache(plan[s], s \in Trusted)'
    BY <1>1, <1>2, <2>1 DEF NamedCache
  <2>3. cache' # NoEpoch => cache # NoEpoch /\ cache'.id = cache.id /\ cache'.trusted = cache.trusted
    BY <2>1 DEF Serving
  <2>4. cache' # NoEpoch => NamedCache(cache, cache.trusted)'
    BY <1>1, <1>2, <2>3 DEF NamedCache
  <2>5. \A s \in Turn : Serving(s)' => s # t /\ Serving(s)
    <3> SUFFICES ASSUME NEW s \in Turn, Serving(s)' PROVE s # t /\ Serving(s)
      OBVIOUS
    <3>1. cache' # NoEpoch /\ cache # NoEpoch /\ cache'.id = plan'[s].id /\ cache'.id = cache.id /\ cache.id \in Turn
      BY <1>1, <2>3 DEF Serving, NamedCache
    <3> QED BY <1>3, <2>1, <3>1 DEF Serving
  <2>6. \A s \in Turn : Serving(s)' => cache' = cache
    <3> SUFFICES ASSUME NEW s \in Turn, Serving(s)' PROVE cache' = cache
      OBVIOUS
    <3>1. ~Serving(t)
      BY <1>1, <2>5
    <3> QED BY <2>1, <3>1 DEF Serving
  <2> QED BY <1>1, <2>2, <2>4, <2>5, <2>6
<1> QED
  BY <1>4, <1>5, <1>6, PlanStep

LEMMA SidedStep ==
  ASSUME TypeOK, CInv, Typed, PhasesOrdered, EpochsNamed, EpochSided, ContextsStay, [ConversationNext]_vars
  PROVE  EpochSided' /\ ContextsStay'
<1>0. NoEpoch.turns = <<>> /\ NoPlan.turns = <<>> /\ Len(<<>>) = 0
  BY DEF NoEpoch, NoPlan
<1>1. CASE Lets
  <2>1. EpochSided'
    BY <1>0, <1>1 DEF Lets, EpochSided
  <2>2. ContextsStay'
    BY <1>0, <1>1 DEF Lets, ContextsStay
  <2> QED BY <2>1, <2>2
<1>2. ASSUME NEW t \in Turn, Prepare(t) PROVE EpochSided' /\ ContextsStay'
  <2>1. PICK f \in Epoch :
           /\ \/ f = New(t, window[t])
              \/ /\ f = cache /\ sameTrust(cache, t)
           /\ cache'.turns = f.turns /\ cache'.trusted = f.trusted
           /\ plan'[t].turns = f.turns
           /\ \A s \in Turn \ {t} : plan'[s] = plan[s]
    BY <1>2, PrepareFacts
  <2>2. /\ f.trusted = (t \in Trusted)
        /\ \A i \in 1..Len(f.turns) : f.turns[i].of \in Trusted <=> t \in Trusted
    <3>1. CASE f = New(t, window[t])
      BY <1>0, <3>1 DEF New
    <3>2. CASE f = cache /\ sameTrust(cache, t)
      BY <3>2 DEF EpochSided, sameTrust
    <3> QED BY <2>1, <3>1, <3>2
  <2>3. EpochSided'
    BY <2>1, <2>2 DEF EpochSided
  <2>4. ContextsStay'
    BY <2>1, <2>2 DEF ContextsStay
  <2> QED BY <2>3, <2>4
<1>3. ASSUME NEW t \in Turn, Complete(t) PROVE EpochSided' /\ ContextsStay'
  <2>1. /\ plan'[t] = NoPlan /\ \A s \in Turn \ {t} : plan'[s] = plan[s]
        /\ \/ cache' = NoEpoch
           \/ cache' = cache
           \/ /\ Serving(t) /\ cache'.trusted = cache.trusted
              /\ (cache'.turns = cache.turns \/ cache'.turns = Append(cache.turns, Reply(t)))
    BY <1>3, CompleteFacts
  <2>2. ContextsStay'
    BY <1>0, <2>1 DEF ContextsStay
  <2>3. CASE cache' = NoEpoch \/ cache' = cache
    BY <1>0, <2>2, <2>3 DEF EpochSided
  <2>4. CASE Serving(t) /\ cache'.trusted = cache.trusted /\ cache'.turns = cache.turns
    BY <2>2, <2>4 DEF EpochSided
  <2>5. CASE Serving(t) /\ cache'.trusted = cache.trusted /\ cache'.turns = Append(cache.turns, Reply(t))
    <3>1. plan[t] # NoPlan
      <4>1. cache.id \in Turn
        BY <2>5 DEF Serving, EpochsNamed
      <4> QED BY <2>5, <4>1 DEF Serving, NoPlan
    <3>2. t \in Trusted <=> cache.trusted
      BY <2>5, <3>1 DEF Serving, EpochsNamed
    <3>3. /\ Len(cache'.turns) = Len(cache.turns) + 1 /\ Len(cache.turns) \in Nat
          /\ \A i \in 1..Len(cache.turns) : cache'.turns[i] = cache.turns[i]
          /\ cache'.turns[Len(cache.turns) + 1] = Reply(t)
      <4>1. cache.turns \in Seq(Record) /\ Reply(t) \in Record
        BY Empties DEF Typed, Epoch
      <4> QED BY <2>5, <4>1, Longer
    <3>4. EpochSided'
      <4> SUFFICES ASSUME NEW i \in 1..Len(cache'.turns) PROVE cache'.turns[i].of \in Trusted <=> cache'.trusted
        BY DEF EpochSided
      <4>1. i \in 1..Len(cache.turns) \/ i = Len(cache.turns) + 1
        BY <3>3
      <4>2. CASE i \in 1..Len(cache.turns)
        BY <2>5, <3>3, <4>2 DEF EpochSided
      <4>3. CASE i = Len(cache.turns) + 1
        BY <2>5, <3>2, <3>3, <4>3 DEF Reply
      <4> QED BY <4>1, <4>2, <4>3
    <3> QED BY <2>2, <3>4
  <2> QED BY <2>1, <2>3, <2>4, <2>5
<1> QED
  BY <1>1, <1>2, <1>3, PlanStep

LEMMA LastOfAll ==
  ASSUME NEW s \in Seq(Record), Len(s) <= Limit PROVE LastOf(s, Limit) = s
<1>1. SubSeq(s, 1, Len(s)) = s
  OBVIOUS
<1>2. ~(Len(s) > Limit)
  <2>1. Len(s) \in Nat
    OBVIOUS
  <2> QED BY <2>1
<1> QED
  BY <1>1, <1>2, Zenon DEF LastOf

LEMMA PromptStep ==
  ASSUME TypeOK, CInv, Typed, PhasesOrdered, PromptIsHistory, [ConversationNext]_vars PROVE PromptIsHistory'
<1> SUFFICES ASSUME NEW s \in Turn, plan'[s] # NoPlan PROVE window'[s] = LastOf(Prompt(s)', Limit)
  BY DEF PromptIsHistory
<1>1. CASE plan'[s] = plan[s]
  <2>1. phase[s] \in {"model", "answered", "index"}
    BY <1>1 DEF PhasesOrdered
  <2>2. window'[s] = window[s]
    BY <2>1, WindowStep DEF Load
  <2>3. Prompt(s)' = Prompt(s)
    BY <1>1 DEF Prompt, canonicalHistory
  <2> QED BY <1>1, <2>2, <2>3 DEF PromptIsHistory
<1>2. ASSUME Prepare(s) PROVE window'[s] = LastOf(Prompt(s)', Limit)
  <2>1. PICK f \in Epoch :
           /\ \/ f = New(s, window[s])
              \/ f = cache /\ sameHistory(cache, window[s])
           /\ Prompt(s)' = canonicalHistory(f)
    BY <1>2, PrepareFacts
  <2>2. window' = window
    BY <1>2 DEF Prepare
  <2>3. CASE f = New(s, window[s])
    <3>1. window[s] \in Seq(Record) /\ Len(window[s]) <= Limit
      BY DEF Typed
    <3>2. f.base = window[s] /\ f.turns = <<>>
      BY <2>3 DEF New
    <3>3. f.base \in Seq(Record) /\ f.turns \in Seq(Record)
      BY DEF Epoch
    <3>4. canonicalHistory(f) = window[s]
      BY <3>2, <3>3, CanonicalProperties
    <3>5. LastOf(window[s], Limit) = window[s]
      BY <3>1, LastOfAll
    <3> QED BY <2>1, <2>2, <3>4, <3>5
  <2>4. CASE f = cache /\ sameHistory(cache, window[s])
    BY <2>1, <2>2, <2>4 DEF sameHistory
  <2> QED BY <2>1, <2>3, <2>4
<1>3. CASE Lets
  BY <1>1, <1>3 DEF Lets
<1>4. ASSUME NEW t \in Turn, Prepare(t), t # s PROVE plan'[s] = plan[s]
  BY <1>4, PrepareFacts
<1>5. ASSUME NEW t \in Turn, Complete(t) PROVE plan'[s] = plan[s]
  BY <1>5, CompleteFacts
<1> QED
  BY <1>1, <1>2, <1>3, <1>4, <1>5, PlanStep

(* What stays true of a sequence s while the history grows.                     *)
LEMMA PieceAfter ==
  ASSUME hist \in Seq(Record), NEW s \in Seq(Record), NEW f \in Nat, Piece(s, f)
  PROVE  After(s, f)
<1>0. Len(hist) \in Nat /\ Len(s) \in Nat
  OBVIOUS
<1>1. PICK a \in f .. Len(hist) - Len(s) : \A i \in 1..Len(s) : s[i] = hist[a + i]
  BY DEF Piece
<1> SUFFICES ASSUME NEW i \in 1..Len(s) PROVE s[i] \in Above(f)
  BY DEF After
<1>2. a + i \in f + 1 .. Len(hist) /\ s[i] = hist[a + i]
  BY <1>0, <1>1
<1> QED
  BY <1>2 DEF Above

LEMMA PieceBelow ==
  ASSUME hist \in Seq(Record), NEW s \in Seq(Record), NEW f \in Nat, NEW g \in Nat, g <= f, Piece(s, f)
  PROVE  Piece(s, g)
<1>0. Len(hist) \in Nat /\ Len(s) \in Nat
  OBVIOUS
<1>1. PICK a \in f .. Len(hist) - Len(s) : \A i \in 1..Len(s) : s[i] = hist[a + i]
  BY DEF Piece
<1>2. a \in g .. Len(hist) - Len(s)
  BY <1>0
<1> QED
  BY <1>1, <1>2 DEF Piece

LEMMA AfterBelow ==
  ASSUME hist \in Seq(Record), NEW s, NEW f \in Nat, After(s, f) PROVE After(s, 0)
BY AboveAll DEF After

LEMMA HistGrows ==
  ASSUME hist \in Seq(Record), NEW r \in Record, hist' = Append(hist, r), NEW s \in Seq(Record), NEW f \in Nat
  PROVE  /\ After(s, f) => After(s, f)'
         /\ Flooded(f) => Flooded(f)'
         /\ Piece(s, f) => Piece(s, f)'
<1>1. /\ Len(hist') = Len(hist) + 1 /\ Len(hist) \in Nat /\ Len(s) \in Nat
      /\ \A i \in 1..Len(hist) : hist'[i] = hist[i]
  OBVIOUS
<1>2. After(s, f) => After(s, f)'
  BY AboveGrows DEF After
<1>3. ASSUME Flooded(f) PROVE Flooded(f)'
  <2>1. PICK a \in f .. Len(hist) - Limit : \A i \in 1..Limit - 1 : hist[a + i] = Note
    BY <1>3 DEF Flooded
  <2>2. a \in f .. Len(hist') - Limit
    BY <1>1
  <2>3. \A i \in 1..Limit - 1 : hist'[a + i] = Note
    <3> TAKE i \in 1..Limit - 1
    <3>1. a + i \in 1..Len(hist)
      BY <1>1
    <3> QED BY <1>1, <2>1, <3>1
  <2> QED BY <1>3, <2>2, <2>3 DEF Flooded
<1>4. ASSUME Piece(s, f) PROVE Piece(s, f)'
  <2>1. PICK a \in f .. Len(hist) - Len(s) : \A i \in 1..Len(s) : s[i] = hist[a + i]
    BY <1>4 DEF Piece
  <2>2. a \in f .. Len(hist') - Len(s)
    BY <1>1
  <2>3. \A i \in 1..Len(s) : s[i] = hist'[a + i]
    <3> TAKE i \in 1..Len(s)
    <3>1. a + i \in 1..Len(hist)
      BY <1>1
    <3> QED BY <1>1, <2>1, <3>1
  <2> QED BY <2>2, <2>3 DEF Piece
<1> QED
  BY <1>2, <1>3, <1>4

(* What a turn writes is not in the history yet, unless it is a note.           *)
LEMMA WritesNew ==
  ASSUME WrittenOnce, NEW r \in Record, Writes(r), r # Note PROVE r \notin Above(0)
<1>1. ASSUME NEW t \in Turn, r = [of |-> t, as |-> outcome[t]], phase[t] = "answered" PROVE r \notin Above(0)
  BY <1>1 DEF WrittenOnce
<1>2. ASSUME NEW t \in Turn, r = [of |-> t, as |-> "interrupted"], phase[t] = "closing" PROVE r \notin Above(0)
  BY <1>2 DEF WrittenOnce
<1> QED
  BY <1>1, <1>2 DEF Writes

(* All of it at once, for a step of the conversation.                           *)
LEMMA Keeps ==
  ASSUME CInv, Typed, PhasesOrdered, WrittenOnce, [ConversationNext]_vars, NEW s \in Seq(Record), NEW f \in Nat
  PROVE  /\ Above(f) \subseteq Above(f)'
         /\ After(s, f) => After(s, f)'
         /\ Flooded(f) => Flooded(f)'
         /\ Piece(s, f) => Piece(s, f)'
         /\ \A n \in Int : n <= Len(s) /\ After(s, 0) /\ Before(s, n, f) => Before(s, n, f)'
<1>0. hist \in Seq(Record) /\ Len(s) \in Nat
  BY DEF Typed
<1>1. CASE hist' = hist
  BY <1>1 DEF Above, After, Flooded, Piece, Before
<1>2. ASSUME NEW r \in Record, Writes(r)
      PROVE  /\ Above(f) \subseteq Above(f)'
             /\ After(s, f) => After(s, f)'
             /\ Flooded(f) => Flooded(f)'
             /\ Piece(s, f) => Piece(s, f)'
             /\ \A n \in Int : n <= Len(s) /\ After(s, 0) /\ Before(s, n, f) => Before(s, n, f)'
  <2>1. hist' = Append(hist, r)
    BY <1>2 DEF Writes
  <2>2. Above(f) \subseteq Above(f)' /\ Above(f)' \subseteq Above(f) \cup {r}
    BY <1>0, <2>1, AboveGrows
  <2>3. r = Note \/ r \notin Above(0)
    BY <1>2, WritesNew
  <2>4. ASSUME NEW n \in Int, n <= Len(s), After(s, 0), Before(s, n, f) PROVE Before(s, n, f)'
    <3> SUFFICES ASSUME NEW i \in 1..n PROVE s[i] = Note \/ s[i] \notin Above(f)'
      BY DEF Before
    <3>1. i \in 1..Len(s)
      BY <1>0, <2>4
    <3>2. s[i] \in Above(0) /\ (s[i] = Note \/ s[i] \notin Above(f))
      BY <2>4, <3>1 DEF After, Before
    <3> QED BY <2>2, <2>3, <3>2
  <2> QED BY <1>0, <2>1, <2>2, <2>4, HistGrows
<1> QED
  BY <1>1, <1>2, WriteStep

(* Cuts are positions of the history; a new one lies above all of it.           *)
LEMMA CutsStep ==
  ASSUME CInv, Typed, WindowsWhole, [ConversationNext]_vars, NEW f \in Cuts'
  PROVE  /\ f \in Nat
         /\ f \in Cuts \/ (hist' = hist /\ f = Len(hist))
<1>1. mark' = mark \/ (mark' = Len(hist) /\ hist' = hist)
  BY DEF ConversationNext, Arrive, Handle, Start, FetchFails, Escape, Register, CloseAborted, Close, Send, Settled,
     React, Body, Halt, Throw, Load, Hold, Prepare, Answer, Persist, Complete, CloseReaction, Stop, Reset, vars, store
<1>2. ASSUME NEW t \in Turn PROVE floor'[t] \in {floor[t], mark, 0}
  <2>1. Load(t) => floor'[t] = mark
    BY DEF Load, Typed
  <2> QED BY <2>1, WindowStep
<1>3. f \in Cuts \/ (hist' = hist /\ f = Len(hist))
  BY <1>1, <1>2 DEF Cuts
<1>4. Len(hist) \in Nat /\ Cuts \subseteq Nat
  BY DEF Typed, Cuts
<1> QED
  BY <1>3, <1>4

LEMMA CutsBelow ==
  ASSUME Typed, WindowsWhole, NEW f \in Cuts PROVE f \in Nat /\ f <= mark /\ mark <= Len(hist) /\ mark \in Nat
BY DEF Typed, WindowsWhole, Cuts

LEMMA NothingAbove ==
  ASSUME hist' = hist, hist \in Seq(Record), NEW f, f = Len(hist), NEW s, NEW n PROVE Before(s, n, f)'
<1>1. Len(hist) \in Nat /\ Len(hist) + 1 .. Len(hist) = {}
  OBVIOUS
<1>2. Above(f)' = {}
  BY <1>1 DEF Above
<1> QED
  BY <1>2 DEF Before

(* An epoch c that is taken for the history w that a turn has read.             *)
LEMMA TailOf ==
  ASSUME NEW c \in Seq(Record), NEW w, w = LastOf(c, Limit)
  PROVE  /\ w \in Seq(Record) /\ Len(w) \in Nat /\ Len(c) \in Nat
         /\ Len(c) <= Limit => w = c
         /\ Len(c) > Limit => Len(w) = Limit
         /\ \A i \in 1..Len(w) : Len(c) - Len(w) + i \in 1..Len(c) /\ w[i] = c[Len(c) - Len(w) + i]
<1>1. Len(c) \in Nat /\ Limit \in Nat
  OBVIOUS
<1>2. /\ w \in Seq(Record)
      /\ Len(w) = IF Len(c) > Limit THEN Limit ELSE Len(c)
      /\ \A i \in 1..Len(w) : w[i] = c[Len(c) - Len(w) + i]
  BY <1>1, LastOfProperties
<1>3. Len(c) <= Limit => w = c
  BY LastOfAll
<1>4. \A i \in 1..Len(w) : Len(c) - Len(w) + i \in 1..Len(c)
  BY <1>1, <1>2
<1> QED
  BY <1>1, <1>2, <1>3, <1>4

LEMMA Mistaken ==
  ASSUME hist \in Seq(Record), NEW c \in Seq(Record), NEW w, w = LastOf(c, Limit), NEW f \in Nat,
         Piece(w, f), Before(c, Len(c) - 1, f), After(c, 0)
  PROVE  After(c, f) \/ Flooded(f)
<1>1. /\ w \in Seq(Record) /\ Len(w) \in Nat /\ Len(c) \in Nat
      /\ Len(c) <= Limit => w = c
      /\ Len(c) > Limit => Len(w) = Limit
      /\ \A i \in 1..Len(w) : Len(c) - Len(w) + i \in 1..Len(c) /\ w[i] = c[Len(c) - Len(w) + i]
  BY TailOf
<1>2. CASE Len(c) <= Limit
  BY <1>1, <1>2, PieceAfter
<1>3. CASE f = 0
  BY <1>3
<1>4. CASE Len(c) > Limit /\ f > 0
  <2>1. PICK a \in f .. Len(hist) - Len(w) : \A i \in 1..Len(w) : w[i] = hist[a + i]
    BY DEF Piece
  <2>2. After(w, f)
    BY <1>1, PieceAfter
  <2>3. ASSUME NEW i \in 1..Limit - 1 PROVE hist[a + i] = Note
    <3>1. i \in 1..Len(w) /\ Len(c) - Len(w) + i \in 1..Len(c) - 1
      BY <1>1, <1>4
    <3>2. w[i] = c[Len(c) - Len(w) + i]
      BY <1>1, <3>1
    <3>3. w[i] = Note \/ w[i] \notin Above(f)
      BY <3>1, <3>2 DEF Before
    <3>4. w[i] \in Above(f) /\ w[i] = hist[a + i]
      BY <2>1, <2>2, <3>1 DEF After
    <3> QED BY <3>3, <3>4
  <2>4. a \in f .. Len(hist) - Limit
    BY <1>1, <1>4
  <2> QED BY <1>4, <2>3, <2>4 DEF Flooded
<1> QED
  BY <1>1, <1>2, <1>3, <1>4

LEMMA WhollyBefore ==
  ASSUME NEW c \in Seq(Record), NEW w, w = LastOf(c, Limit), NEW f \in Nat,
         Before(w, Len(w), f), Before(c, Len(c) - 1, f)
  PROVE  Before(c, Len(c), f)
<1>1. /\ Len(w) \in Nat /\ Len(c) \in Nat
      /\ Len(c) <= Limit => w = c
      /\ Len(c) > Limit => Len(w) = Limit
      /\ \A i \in 1..Len(w) : w[i] = c[Len(c) - Len(w) + i]
  BY TailOf
<1> SUFFICES ASSUME NEW i \in 1..Len(c) PROVE c[i] = Note \/ c[i] \notin Above(f)
  BY DEF Before
<1>2. CASE i \in 1..Len(c) - 1
  BY <1>2 DEF Before
<1>3. CASE i = Len(c)
  <2>1. Len(w) \in 1..Len(w)
    BY <1>1, <1>3
  <2>2. w[Len(w)] = c[Len(c) - Len(w) + Len(w)]
    BY <1>1, <2>1
  <2>3. Len(c) - Len(w) + Len(w) = i
    BY <1>1, <1>3
  <2> QED BY <2>1, <2>2, <2>3 DEF Before
<1> QED
  BY <1>1, <1>2, <1>3

LEMMA LoadedHow ==
  ASSUME CInv, PhasesOrdered, [ConversationNext]_vars, NEW t \in Turn, phase'[t] = "loaded", ~Load(t)
  PROVE  phase[t] = "loaded"
<1> USE DEF CInv
<1>1. ASSUME NEW m \in Msg, Arrive(m) \/ Handle(m) \/ Escape(m) PROVE phase[t] = "loaded"
  <2>0. m \in Turn
    OBVIOUS
  <2>1. phase' = phase \/ \E p \in {"fetch", "off", "over", "open", "sending"} : Enter(m, p)
    BY <1>1 DEF Arrive, Handle, Start, FetchFails, Escape, Register, CloseAborted, Close, Send, Settled, Enter
  <2> QED BY <2>0, <2>1, Entered
<1>2. ASSUME NEW s \in Turn, React(s) \/ Body(s) \/ Halt(s) \/ Throw(s) PROVE phase[t] = "loaded"
  <2>1. CASE Load(s)
    BY <2>1, Entered DEF Load
  <2>2. CASE ~Load(s)
    <3>1. \E p \in Phases \ {"loaded"} : Enter(s, p)
      BY <1>2, <2>2 DEF React, Body, Halt, Throw, Persist, Hold, Prepare, Answer, Complete, CloseReaction, Phases, InTurn
    <3> QED BY <3>1, Entered
  <2> QED BY <2>1, <2>2
<1> QED
  BY <1>1, <1>2 DEF ConversationNext, Stop, Reset, vars, turns

(* The windows.                                                                 *)
LEMMA WindowsStep ==
  ASSUME TypeOK, CInv, Typed, PhasesOrdered, WrittenOnce, WindowsWhole, [ConversationNext]_vars
  PROVE  WindowsWhole'
<1> SUFFICES ASSUME NEW t \in Turn
             PROVE  /\ floor'[t] <= mark'
                    /\ phase'[t] = "loaded" =>
                         /\ Piece(window[t], floor[t])'
                         /\ \A f \in Cuts' : Piece(window[t], f)' \/ Before(window[t], Len(window[t]), f)'
  BY DEF WindowsWhole
<1>1. mark' = mark \/ (mark' = Len(hist) /\ hist' = hist)
  BY DEF ConversationNext, Arrive, Handle, Start, FetchFails, Escape, Register, CloseAborted, Close, Send, Settled,
     React, Body, Halt, Throw, Load, Hold, Prepare, Answer, Persist, Complete, CloseReaction, Stop, Reset, vars, store
<1>2. floor[t] <= mark /\ mark <= Len(hist) /\ mark \in Nat /\ floor[t] \in Nat /\ Len(hist) \in Nat
  BY DEF WindowsWhole, Typed
<1>3. CASE Load(t)
  <2>1. /\ floor'[t] = mark /\ window'[t] = recentTurns /\ UNCHANGED <<hist, mark>>
        /\ \A s \in Turn \ {t} : floor'[s] = floor[s]
    BY <1>3 DEF Load, Typed, store
  <2>2. recentTurns \in Seq(Record) /\ Piece(recentTurns, mark)
    BY Recent DEF Typed
  <2>3. \A f \in Cuts' : f \in Cuts
    BY <2>1 DEF Cuts
  <2>4. \A f \in Cuts' : Piece(recentTurns, f)
    BY <1>2, <2>2, <2>3, CutsBelow, PieceBelow DEF Typed
  <2>5. PICK w \in Seq(Record) : w = recentTurns
    BY <2>2
  <2>6. floor'[t] <= mark'
    BY <1>2, <2>1
  <2>7. Piece(window[t], floor[t])'
    BY <2>1, <2>2, <2>5 DEF Piece
  <2>8. ASSUME NEW f \in Cuts' PROVE Piece(window[t], f)'
    <3>1. Piece(w, f)
      BY <2>4, <2>5
    <3> QED BY <2>1, <2>5, <3>1 DEF Piece
  <2> QED BY <2>6, <2>7, <2>8
<1>4. CASE ~Load(t)
  <2>1. (window'[t] = window[t] /\ floor'[t] = floor[t]) \/ (phase[t] = "closing" /\ floor'[t] = 0)
    BY <1>4, WindowStep
  <2>2. floor'[t] <= mark'
    BY <1>1, <1>2, <2>1
  <2>3. ASSUME phase'[t] = "loaded"
        PROVE  /\ Piece(window[t], floor[t])'
               /\ \A f \in Cuts' : Piece(window[t], f)' \/ Before(window[t], Len(window[t]), f)'
    <3>1. phase[t] = "loaded"
      BY <1>4, <2>3, LoadedHow
    <3>2. window'[t] = window[t] /\ floor'[t] = floor[t] /\ window[t] \in Seq(Record) /\ floor[t] \in Nat
      BY <1>2, <2>1, <3>1 DEF Typed
    <3>3. PICK w \in Seq(Record) : w = window[t]
      BY <3>2
    <3>4. Piece(w, floor[t]) /\ \A f \in Cuts : Piece(w, f) \/ Before(w, Len(w), f)
      BY <3>1, <3>3 DEF WindowsWhole
    <3>5. After(w, 0)
      BY <3>2, <3>4, PieceAfter, AfterBelow DEF Typed
    <3>6. PICK g \in Nat : g = floor[t]
      BY <3>2
    <3>7. Piece(w, g)'
      BY <3>4, <3>6, Keeps
    <3>8. ASSUME NEW f \in Cuts' PROVE Piece(w, f)' \/ Before(w, Len(w), f)'
      <4>1. f \in Nat /\ (f \in Cuts \/ (hist' = hist /\ f = Len(hist)))
        BY CutsStep
      <4>2. CASE f \in Cuts
        <5>1. Len(w) \in Int /\ Len(w) <= Len(w)
          OBVIOUS
        <5> QED BY <3>4, <3>5, <4>1, <4>2, <5>1, Keeps
      <4>3. CASE hist' = hist /\ f = Len(hist)
        BY <4>3, NothingAbove DEF Typed
      <4> QED BY <4>1, <4>2, <4>3
    <3>9. window'[t] = w /\ floor'[t] = g
      BY <3>2, <3>3, <3>6
    <3> QED BY <3>7, <3>8, <3>9 DEF Piece, Before
  <2> QED BY <2>2, <2>3
<1> QED
  BY <1>3, <1>4

(* The epoch.                                                                   *)
Held(c, n, f) == After(c, f) \/ Flooded(f) \/ Before(c, n, f)
HeldAll(c, n) == After(c, 0) /\ \A f \in Cuts : Held(c, n, f)

LEMMA HeldKeeps ==
  ASSUME CInv, Typed, PhasesOrdered, WrittenOnce, WindowsWhole, [ConversationNext]_vars,
         NEW c \in Seq(Record), NEW n \in Int, n <= Len(c), HeldAll(c, n)
  PROVE  HeldAll(c, n)'
<1>1. After(c, 0)'
  BY Keeps DEF HeldAll
<1> SUFFICES ASSUME NEW f \in Cuts' PROVE After(c, f)' \/ Flooded(f)' \/ Before(c, n, f)'
  BY <1>1 DEF HeldAll, Held
<1>2. f \in Nat /\ (f \in Cuts \/ (hist' = hist /\ f = Len(hist)))
  BY CutsStep
<1>3. CASE f \in Cuts
  BY <1>2, <1>3, Keeps DEF HeldAll, Held
<1>4. CASE hist' = hist /\ f = Len(hist)
  BY <1>4, NothingAbove DEF Typed
<1> QED
  BY <1>2, <1>3, <1>4

LEMMA HeldSame ==
  ASSUME UNCHANGED <<hist, mark, floor>>, NEW c, NEW n
  PROVE  HeldAll(c, n)' <=> HeldAll(c, n)
BY DEF HeldAll, Held, Cuts, After, Flooded, Before, Above

LEMMA EpochHeld ==
  EpochWhole <=> (cache # NoEpoch => HeldAll(canonicalHistory(cache), SettledPart(cache)))
BY DEF EpochWhole, HeldAll, Held

LEMMA CanonicalTyped ==
  ASSUME NEW e \in Epoch
  PROVE  /\ canonicalHistory(e) \in Seq(Record) /\ Len(canonicalHistory(e)) \in Nat
         /\ SettledPart(e) \in Int /\ SettledPart(e) <= Len(canonicalHistory(e))
         /\ e.active => SettledPart(e) = Len(canonicalHistory(e))
         /\ ~e.active => SettledPart(e) = Len(canonicalHistory(e)) - 1
         /\ e.turns = <<>> => canonicalHistory(e) = e.base
<1>1. e.base \in Seq(Record) /\ e.turns \in Seq(Record)
  BY DEF Epoch
<1>2. canonicalHistory(e) \in Seq(Record) /\ (e.turns = <<>> => canonicalHistory(e) = e.base)
  BY <1>1, CanonicalProperties
<1>3. Len(canonicalHistory(e)) \in Nat
  BY <1>2
<1> QED
  BY <1>2, <1>3 DEF SettledPart

(* A prompt that has been prepared is held by every cut.                        *)
LEMMA PreparedHeld ==
  ASSUME CInv, Typed, WindowsWhole, EpochWhole, NEW t \in Turn, phase[t] = "loaded", NEW f \in Epoch,
         \/ f = New(t, window[t])
         \/ f = cache /\ cache # NoEpoch /\ ~cache.active /\ sameHistory(cache, window[t])
  PROVE  /\ HeldAll(canonicalHistory(f), Len(canonicalHistory(f)))
         /\ After(canonicalHistory(f), floor[t]) \/ Flooded(floor[t])
<1>1. /\ window[t] \in Seq(Record) /\ floor[t] \in Nat /\ hist \in Seq(Record) /\ floor[t] \in Cuts
      /\ Piece(window[t], floor[t])
      /\ \A g \in Cuts : Piece(window[t], g) \/ Before(window[t], Len(window[t]), g)
      /\ Cuts \subseteq Nat
  BY CutsBelow DEF WindowsWhole, Typed, Cuts
<1>2. After(window[t], floor[t]) /\ After(window[t], 0)
  BY <1>1, PieceAfter, AfterBelow
<1>3. CASE f = New(t, window[t])
  <2>1. canonicalHistory(f) = window[t]
    BY <1>3, CanonicalTyped DEF New
  <2>2. \A g \in Cuts : Held(window[t], Len(window[t]), g)
    BY <1>1, PieceAfter DEF Held
  <2> QED BY <1>2, <2>1, <2>2 DEF HeldAll
<1>4. CASE f = cache /\ cache # NoEpoch /\ ~cache.active /\ sameHistory(cache, window[t])
  <2>1. PICK c \in Seq(Record) : c = canonicalHistory(cache)
    BY <1>4, CanonicalTyped
  <2>2. HeldAll(c, Len(c) - 1) /\ window[t] = LastOf(c, Limit) /\ Len(c) \in Nat
    BY <1>4, <2>1, EpochHeld, CanonicalTyped DEF sameHistory
  <2>3. ASSUME NEW g \in Cuts PROVE Held(c, Len(c), g)
    <3>1. g \in Nat /\ Held(c, Len(c) - 1, g) /\ After(c, 0)
      BY <1>1, <2>2 DEF HeldAll
    <3>2. CASE Before(c, Len(c) - 1, g)
      <4>1. CASE Piece(window[t], g)
        BY <1>1, <2>2, <3>1, <3>2, <4>1, Mistaken DEF Held
      <4>2. CASE Before(window[t], Len(window[t]), g)
        BY <2>2, <3>1, <3>2, <4>2, WhollyBefore DEF Held
      <4> QED BY <1>1, <4>1, <4>2
    <3> QED BY <3>1, <3>2 DEF Held
  <2>4. After(c, floor[t]) \/ Flooded(floor[t])
    <3>1. Held(c, Len(c) - 1, floor[t]) /\ After(c, 0)
      BY <1>1, <2>2 DEF HeldAll
    <3>2. CASE Before(c, Len(c) - 1, floor[t])
      BY <1>1, <2>2, <3>1, <3>2, Mistaken
    <3> QED BY <3>1, <3>2 DEF Held
  <2> QED BY <1>4, <2>1, <2>2, <2>3, <2>4 DEF HeldAll
<1> QED
  BY <1>3, <1>4

LEMMA ServingActive ==
  ASSUME EpochsNamed, NEW t \in Turn, Serving(t) PROVE cache.active /\ cache # NoEpoch /\ plan[t] # NoPlan
<1>1. cache # NoEpoch /\ cache.id = plan[t].id /\ cache.id \in Turn
  BY DEF Serving, EpochsNamed
<1>2. NoPlan.id \notin Turn
  BY DEF NoPlan
<1> QED
  BY <1>1, <1>2 DEF EpochsNamed

LEMMA EpochStep ==
  ASSUME TypeOK, CInv, Typed, PhasesOrdered, WrittenOnce, Remembered, EpochsNamed, WindowsWhole, EpochWhole, RepliesLast,
         [ConversationNext]_vars, Typed'
  PROVE  EpochWhole'
<1> SUFFICES ASSUME cache' # NoEpoch PROVE HeldAll(canonicalHistory(cache), SettledPart(cache))'
  BY DEF EpochWhole, HeldAll, Held
<1>1. CASE cache' = cache
  <2>1. PICK c \in Seq(Record), n \in Int : c = canonicalHistory(cache) /\ n = SettledPart(cache) /\ n <= Len(c)
    BY CanonicalTyped DEF Typed
  <2>2. HeldAll(c, n)'
    BY <1>1, <2>1, EpochHeld, HeldKeeps
  <2>3. c = canonicalHistory(cache)' /\ n = SettledPart(cache)'
    BY <1>1, <2>1 DEF canonicalHistory, SettledPart
  <2> QED BY <2>2, <2>3 DEF HeldAll, Held, After, Before
<1>2. ASSUME NEW t \in Turn, Prepare(t) PROVE HeldAll(canonicalHistory(cache), SettledPart(cache))'
  <2>1. PICK f \in Epoch :
           /\ \/ f = New(t, window[t])
              \/ f = cache /\ cache # NoEpoch /\ ~cache.active /\ sameHistory(cache, window[t])
           /\ cache'.active /\ canonicalHistory(cache)' = canonicalHistory(f)
    BY <1>2, PrepareFacts
  <2>2. PICK c \in Seq(Record) : c = canonicalHistory(f)
    BY CanonicalTyped
  <2>3. HeldAll(c, Len(c))
    BY <1>2, <2>1, <2>2, PreparedHeld DEF Prepare
  <2>4. HeldAll(c, Len(c))'
    BY <1>2, <2>3, HeldSame DEF Prepare, store
  <2>5. c = canonicalHistory(cache)' /\ SettledPart(cache)' = Len(c) - 0 /\ Len(c) \in Nat
    BY <2>1, <2>2 DEF SettledPart
  <2>6. SettledPart(cache)' = Len(c)
    BY <2>5
  <2> QED BY <2>4, <2>5, <2>6 DEF HeldAll, Held, After, Before
<1>3. ASSUME NEW t \in Turn, Complete(t), cache' # cache PROVE HeldAll(canonicalHistory(cache), SettledPart(cache))'
  <2>1. /\ Serving(t) /\ cache'.base = cache.base /\ ~cache'.active
        /\ \/ cache'.turns = cache.turns
           \/ cache'.turns = Append(cache.turns, Reply(t)) /\ outcome[t] = "reply"
    BY <1>3, CompleteFacts
  <2>2. phase[t] = "index" /\ UNCHANGED <<hist, mark, floor>>
    BY <1>3 DEF Complete, store
  <2>3. PICK c \in Seq(Record) : c = canonicalHistory(cache) /\ Len(c) \in Nat
    BY CanonicalTyped DEF Typed
  <2>4. HeldAll(c, Len(c))
    <3>1. cache.active /\ cache # NoEpoch
      BY <2>1, ServingActive
    <3>2. SettledPart(cache) = Len(c)
      BY <2>3, <3>1, CanonicalTyped DEF Typed
    <3> QED BY <2>3, <3>1, <3>2, EpochHeld
  <2>5. CASE cache'.turns = cache.turns
    <3>1. c = canonicalHistory(cache)' /\ SettledPart(cache)' = Len(c) - 1
      BY <2>1, <2>3, <2>5 DEF canonicalHistory, SettledPart
    <3>2. \A f : Before(c, Len(c), f) => Before(c, Len(c) - 1, f)
      BY <2>3 DEF Before
    <3>3. HeldAll(c, Len(c) - 1)
      BY <2>4, <3>2 DEF HeldAll, Held
    <3>4. HeldAll(c, Len(c) - 1)'
      BY <2>2, <3>3, HeldSame
    <3> QED BY <3>1, <3>4 DEF HeldAll, Held, After, Before
  <2>6. CASE cache'.turns = Append(cache.turns, Reply(t)) /\ outcome[t] = "reply"
    <3>0. Reply(t) \in Record
      BY Empties
    <3>1. PICK d \in Seq(Record) : d = Append(c, Reply(t)) /\ Len(d) = Len(c) + 1
      <4>1. Append(c, Reply(t)) \in Seq(Record) /\ Len(Append(c, Reply(t))) = Len(c) + 1
        BY <3>0
      <4> QED BY <4>1
    <3>2. d = canonicalHistory(cache)'
      <4>1. cache.base \in Seq(Record) /\ cache.turns \in Seq(Record)
        BY DEF Typed, Epoch
      <4>2. Append(c, Reply(t)) = cache.base \o Append(cache.turns, Reply(t))
        BY <2>3, <3>0, <4>1, CanonicalProperties
      <4> QED BY <2>1, <2>6, <3>1, <4>2 DEF canonicalHistory
    <3>3. SettledPart(cache)' = Len(d) - 1 /\ Len(d) - 1 = Len(c)
      BY <2>1, <2>3, <3>1, <3>2 DEF SettledPart
    <3>4. /\ \A i \in 1..Len(c) : d[i] = c[i]
          /\ d[Len(c) + 1] = Reply(t)
      BY <3>0, <3>1, Longer
    <3>5. \A f : After(c, f) /\ Reply(t) \in Above(f) => After(d, f)
      <4> SUFFICES ASSUME NEW f, After(c, f), Reply(t) \in Above(f), NEW i \in 1..Len(d) PROVE d[i] \in Above(f)
        BY DEF After
      <4>1. i \in 1..Len(c) \/ i = Len(c) + 1
        BY <2>3, <3>1
      <4> QED BY <3>4, <4>1 DEF After
    <3>6. \A f : Before(c, Len(c), f) => Before(d, Len(c), f)
      BY <3>4 DEF Before
    <3>7. Reply(t) \in Above(0)
      BY <2>2, <2>6 DEF Remembered
    <3>8. ASSUME NEW f \in Cuts PROVE Held(d, Len(c), f)
      <4>1. Reply(t) \in Above(f) \/ Before(c, Len(c), f)
        BY <2>1, <2>2, <2>3, <2>6 DEF RepliesLast
      <4>2. Held(c, Len(c), f)
        BY <2>4 DEF HeldAll
      <4> QED BY <3>5, <3>6, <4>1, <4>2 DEF Held
    <3>9. HeldAll(d, Len(c))
      BY <2>4, <3>5, <3>7, <3>8 DEF HeldAll
    <3>10. HeldAll(d, Len(c))'
      BY <2>2, <3>9, HeldSame
    <3> QED BY <3>2, <3>3, <3>10 DEF HeldAll, Held, After, Before
  <2> QED BY <2>1, <2>5, <2>6
<1>4. Lets => cache' = cache
  BY DEF Lets
<1> QED
  BY <1>1, <1>2, <1>3, <1>4, PlanStep

(* A reply that is under way when the history is cut.                           *)
LEMMA RepliesStep ==
  ASSUME TypeOK, CInv, Typed, PhasesOrdered, WrittenOnce, EpochsNamed, WindowsWhole, EpochWhole, RepliesLast,
         [ConversationNext]_vars, EpochsNamed'
  PROVE  RepliesLast'
<1> SUFFICES ASSUME NEW t \in Turn, Serving(t)', phase'[t] = "index", outcome'[t] = "reply", NEW f \in Cuts'
             PROVE  \/ Reply(t) \in Above(f)'
                    \/ Before(canonicalHistory(cache), Len(canonicalHistory(cache)), f)'
  BY DEF RepliesLast, Reply
<1>1. f \in Nat /\ (f \in Cuts \/ (hist' = hist /\ f = Len(hist)))
  BY CutsStep
<1>2. CASE phase[t] # "index"
  <2>1. Persist(t) /\ outcome[t] = "reply"
    BY <1>2, IndexedPersist
  <2>2. hist' = Append(hist, Reply(t)) /\ UNCHANGED <<mark, floor>>
    BY <2>1 DEF Persist, Written, Reply
  <2>3. f \in Cuts /\ Reply(t) \in Record
    BY <2>2, Empties DEF Cuts
  <2>4. f <= Len(hist) /\ hist \in Seq(Record)
    <3>1. f \in Nat /\ f <= mark /\ mark <= Len(hist) /\ mark \in Nat /\ Len(hist) \in Nat
      BY <2>3, CutsBelow DEF Typed
    <3> QED BY <3>1 DEF Typed
  <2>5. Reply(t) \in Above(f)'
    BY <1>1, <2>2, <2>3, <2>4, AboveGrows
  <2> QED BY <2>5
<1>3. CASE phase[t] = "index"
  <2>1. cache' # NoEpoch /\ cache'.active /\ plan'[t] # NoPlan
    <3>1. cache' # NoEpoch /\ cache'.id = plan'[t].id /\ cache'.id \in Turn /\ cache'.active
      BY DEF Serving, EpochsNamed
    <3>2. NoPlan.id \notin Turn
      BY DEF NoPlan
    <3> QED BY <3>1, <3>2
  <2>2. outcome[t] = "reply"
    BY <1>3, TurnMoves DEF OutcomeMoves, Busy, InTurn
  <2>3. cache' = cache /\ plan'[t] = plan[t]
    <3>1. CASE Lets
      BY <2>1, <3>1 DEF Lets
    <3>2. ASSUME NEW s \in Turn, Prepare(s) PROVE FALSE
      <4>1. s # t
        BY <1>3, <3>2 DEF Prepare
      <4>2. Serving(s)'
        <5>1. \E e \in Epoch : cache'.id = e.id /\ plan'[s].id = e.id
          BY <3>2, PrepareFacts
        <5> QED BY <2>1, <5>1 DEF Serving
      <4> QED BY <4>1, <4>2 DEF EpochsNamed
    <3>3. ASSUME NEW s \in Turn, Complete(s) PROVE cache' = cache /\ plan'[t] = plan[t]
      BY <2>1, <3>3, CompleteFacts
    <3> QED BY <3>1, <3>2, <3>3, PlanStep
  <2>4. Serving(t)
    BY <2>3 DEF Serving
  <2>5. PICK c \in Seq(Record) : c = canonicalHistory(cache) /\ Len(c) \in Nat
    BY CanonicalTyped DEF Typed
  <2>6. c = canonicalHistory(cache)'
    BY <2>3, <2>5 DEF canonicalHistory
  <2>7. Reply(t) \in Above(f)' \/ Before(c, Len(c), f)'
    <3>1. CASE f \in Cuts
      <4>1. Reply(t) \in Above(f) \/ Before(c, Len(c), f)
        BY <1>3, <2>2, <2>4, <2>5, <3>1 DEF RepliesLast
      <4>2. After(c, 0)
        BY <2>4, <2>5 DEF EpochWhole, Serving
      <4> QED BY <1>1, <2>5, <4>1, <4>2, Keeps
    <3>2. CASE hist' = hist /\ f = Len(hist)
      BY <3>2, NothingAbove DEF Typed
    <3> QED BY <1>1, <3>1, <3>2
  <2> QED BY <2>6, <2>7 DEF Before
<1> QED
  BY <1>2, <1>3

(* What a turn is shown.                                                        *)
LEMMA ResetStep ==
  ASSUME TypeOK, CInv, Typed, PhasesOrdered, WrittenOnce, WindowsWhole, EpochWhole, ResetForgets,
         [ConversationNext]_vars
  PROVE  ResetForgets'
<1> SUFFICES ASSUME NEW t \in Turn, plan'[t] # NoPlan
             PROVE  Flooded(floor[t])' \/ After(Prompt(t), floor[t])'
  BY DEF ResetForgets
<1>1. CASE plan'[t] = plan[t]
  <2>1. phase[t] \in {"model", "answered", "index"}
    BY <1>1 DEF PhasesOrdered
  <2>2. PICK g \in Nat : g = floor[t] /\ g = floor'[t]
    BY <2>1, WindowStep DEF Load, Typed
  <2>3. PICK c \in Seq(Record) : c = Prompt(t) /\ c = Prompt(t)'
    <3>1. plan[t].base \in Seq(Record) /\ plan[t].turns \in Seq(Record)
      BY DEF Typed, Plan
    <3>2. canonicalHistory(plan[t]) \in Seq(Record)
      BY <3>1, CanonicalProperties
    <3> QED BY <1>1, <3>2 DEF Prompt, canonicalHistory
  <2>4. Flooded(g) \/ After(c, g)
    BY <1>1, <2>2, <2>3 DEF ResetForgets
  <2>5. Flooded(g)' \/ After(c, g)'
    BY <2>4, Keeps
  <2> QED BY <2>2, <2>3, <2>5 DEF Flooded, After, Above
<1>2. ASSUME Prepare(t) PROVE Flooded(floor[t])' \/ After(Prompt(t), floor[t])'
  <2>1. PICK f \in Epoch :
           /\ \/ f = New(t, window[t])
              \/ f = cache /\ cache # NoEpoch /\ ~cache.active /\ sameHistory(cache, window[t])
           /\ Prompt(t)' = canonicalHistory(f)
    BY <1>2, PrepareFacts
  <2>2. After(canonicalHistory(f), floor[t]) \/ Flooded(floor[t])
    BY <1>2, <2>1, PreparedHeld DEF Prepare
  <2>3. UNCHANGED <<hist, floor>>
    BY <1>2 DEF Prepare, store
  <2>4. PICK c : c = canonicalHistory(f)
    OBVIOUS
  <2>5. After(c, floor[t]) \/ Flooded(floor[t])
    BY <2>2, <2>4
  <2>6. After(c, floor[t])' \/ Flooded(floor[t])'
    BY <2>3, <2>5 DEF After, Flooded, Above
  <2> QED BY <2>1, <2>4, <2>6 DEF After
<1>3. Lets => plan'[t] = plan[t]
  BY DEF Lets
<1>4. ASSUME NEW s \in Turn, Prepare(s), s # t PROVE plan'[t] = plan[t]
  BY <1>4, PrepareFacts
<1>5. ASSUME NEW s \in Turn, Complete(s) PROVE plan'[t] = plan[t]
  BY <1>5, CompleteFacts
<1> QED
  BY <1>1, <1>2, <1>3, <1>4, <1>5, PlanStep

LEMMA InitIInv == ConversationInit => IInv
<1> SUFFICES ASSUME ConversationInit PROVE IInv
  OBVIOUS
<1>1. CInv
  BY InitTurns
<1>2. TypeOK
  BY InitInv DEF ConversationInit, QInv
<1>3. /\ \A t \in Turn : plan[t] = NoPlan /\ phase[t] = "off" /\ window[t] = <<>> /\ floor[t] = 0 /\ outcome[t] = "none"
      /\ cache = NoEpoch /\ hist = <<>> /\ mark = 0 /\ Len(hist) = 0 /\ <<>> \in Seq(Record) /\ Len(<<>>) = 0
      /\ \A m \in Msg : m \in Turn
  BY DEF ConversationInit
<1>4. ConversationTypeOK
  <2>1. window \in [Turn -> Seq(Record)] /\ plan \in [Turn -> Plan] /\ cache \in Epoch /\ hist \in Seq(Record)
    BY <1>3, Empties DEF ConversationInit
  <2>2. floor \in [Turn -> Nat] /\ outcome \in [Turn -> {"none", "reply", "failed", "halted", "held", "threw"}] /\ events \in Nat
        /\ mark \in 0..Len(hist)
    BY <1>3 DEF ConversationInit
  <2> QED BY <1>1, <1>2, <1>3, <2>1, <2>2 DEF ConversationTypeOK, CInv
<1>5. Above(0) = {}
  BY <1>3 DEF Above
<1>6. PhasesOrdered /\ WrittenOnce /\ Remembered /\ NothingForgotten
  BY <1>3, <1>5 DEF PhasesOrdered, WrittenOnce, Remembered, NothingForgotten, Early
<1>7. EpochsNamed
  BY <1>3 DEF EpochsNamed, Serving
<1>8. EpochSided /\ ContextsStay
  BY <1>3 DEF EpochSided, ContextsStay, NoEpoch, NoPlan
<1>9. PromptIsHistory /\ WindowsWhole /\ EpochWhole /\ RepliesLast /\ ResetForgets
  BY <1>3 DEF PromptIsHistory, WindowsWhole, EpochWhole, RepliesLast, ResetForgets, Serving
<1> QED
  BY <1>1, <1>4, <1>6, <1>7, <1>8, <1>9 DEF IInv

LEMMA StepIInv == QInv /\ QInv' /\ IInv /\ [ConversationNext]_vars => IInv'
<1> SUFFICES ASSUME QInv, QInv', IInv, [ConversationNext]_vars PROVE IInv'
  OBVIOUS
<1>1. /\ TypeOK /\ CInv /\ Typed /\ PhasesOrdered /\ WrittenOnce /\ Remembered /\ NothingForgotten
      /\ EpochsNamed /\ EpochSided /\ ContextsStay /\ PromptIsHistory
      /\ WindowsWhole /\ EpochWhole /\ RepliesLast /\ ResetForgets
  BY DEF IInv, ConversationTypeOK, Typed
<1>2. TypeOK' /\ CInv'
  BY StepTurns, <1>1 DEF QInv
<1>3. events' \in Nat
  <2>1. ASSUME NEW m \in Msg, Arrive(m) \/ Handle(m) \/ Escape(m) PROVE events' = events
    BY <2>1 DEF Arrive, Handle, Start, FetchFails, Escape, Register, CloseAborted, Close, Send, Settled, user
  <2>2. ASSUME NEW t \in Turn, React(t) \/ Body(t) \/ Halt(t) \/ Throw(t) PROVE events' = events \/ Event
    BY <2>2 DEF React, Body, Halt, Throw, Load, Hold, Prepare, Answer, Persist, Complete, CloseReaction, user
  <2>3. events' = events \/ Event
    BY <2>1, <2>2 DEF ConversationNext, Stop, Reset, vars, user
  <2> QED BY <2>3 DEF IInv, ConversationTypeOK, Event
<1>4. Typed'
  BY <1>1, TypedStep
<1>5. ConversationTypeOK'
  BY <1>2, <1>3, <1>4 DEF ConversationTypeOK, Typed, CInv
<1>6. PhasesOrdered' /\ WrittenOnce'
  BY <1>1, PhasesStep, WrittenStep
<1>7. Remembered' /\ NothingForgotten'
  BY <1>1, RememberedStep, ForgottenStep
<1>8. EpochsNamed' /\ EpochSided' /\ ContextsStay'
  BY <1>1, NamedStep, SidedStep
<1>9. PromptIsHistory' /\ WindowsWhole'
  BY <1>1, PromptStep, WindowsStep
<1>10. EpochWhole' /\ RepliesLast' /\ ResetForgets'
  BY <1>1, <1>4, <1>8, EpochStep, RepliesStep, ResetStep
<1> QED
  BY <1>2, <1>5, <1>6, <1>7, <1>8, <1>9, <1>10 DEF IInv

(* The inductive invariant of the conversation.                                 *)
THEOREM Invariance == ConversationSpec => []IInv
<1>1. ConversationSpec => []QInv
  BY UsesQueue, QueueInvariance, PTL
<1> QED
  BY <1>1, InitIInv, StepIInv, PTL DEF ConversationSpec

(* Types and history limit hold whatever the interleaving.                      *)
THEOREM ConversationTypes == ConversationSpec => []ConversationTypeOK
<1>1. IInv => ConversationTypeOK
  BY DEF IInv
<1> QED
  BY Invariance, <1>1, PTL

(* What a user asked is in the history when its turn is over, though it was     *)
(* stopped, superseded, failed or threw while it was aborted.                   *)
THEOREM NothingLost == ConversationSpec => []NothingForgotten
<1>1. IInv => NothingForgotten
  BY DEF IInv
<1> QED
  BY Invariance, <1>1, PTL

(* The prompt that the cache repeats never disagrees with the store.            *)
THEOREM PromptsTrue == ConversationSpec => []PromptIsHistory
<1>1. IInv => PromptIsHistory
  BY DEF IInv
<1> QED
  BY Invariance, <1>1, PTL

(* A prompt reaches behind a /reset only if notes of /stop fill the window.     *)
THEOREM ResetHolds == ConversationSpec => []ResetForgets
<1>1. IInv => ResetForgets
  BY DEF IInv
<1> QED
  BY Invariance, <1>1, PTL

(* Retrieved context does not cross between principals and strangers.           *)
THEOREM ContextsApart == ConversationSpec => []ContextsStay
<1>1. IInv => ContextsStay
  BY DEF IInv
<1> QED
  BY Invariance, <1>1, PTL
-----------------------------------------------------------------------------
(* What ComesToRest rests on, apart from the fairness of Work: as long as       *)
(* somebody is under way a handler can go on, and each of its steps brings a    *)
(* message or a turn further, of which there are only so many.                  *)

Beginning(m) == place[m] = "queued" /\ Ready(m)
Handling(m) == place[m] = "running" /\ phase[m] \in {"fetch", "closing", "sending"}
Thinking(t) == phase[t] \in {"open", "loaded", "model", "answered", "index"}

(* The guards of Start; Register, CloseAborted or Close, and Send; Settled;     *)
(* Load, Prepare, Answer, Persist and Complete; CloseReaction.                  *)
CanWork ==
  \/ \E m \in Msg : Beginning(m) \/ Handling(m) \/ place[m] = "ended"
  \/ \E t \in Turn : Thinking(t)
  \/ \E t \in Reaction : phase[t] = "closing"

AtRest == (\A m \in Msg : place[m] \in {"new", "settled"}) /\ \A t \in Turn : phase[t] \notin Busy

ReactionsBeside == \A t \in Reaction : phase[t] \notin {"fetch", "sending"}

LEMMA BesideStep == ASSUME CInv, ReactionsBeside, [ConversationNext]_vars PROVE ReactionsBeside'
<1> USE DEF CInv
<1> SUFFICES ASSUME NEW t \in Reaction PROVE phase'[t] \notin {"fetch", "sending"}
  BY DEF ReactionsBeside
<1>0. t \in Turn /\ t \notin Msg /\ phase[t] \notin {"fetch", "sending"}
  BY DEF ReactionsBeside
<1>1. ASSUME NEW m \in Msg, Arrive(m) \/ Handle(m) \/ Escape(m) PROVE phase'[t] \notin {"fetch", "sending"}
  <2>0. m \in Turn
    OBVIOUS
  <2>1. phase' = phase \/ \E p \in {"fetch", "off", "over", "open", "sending"} : Enter(m, p)
    BY <1>1 DEF Arrive, Handle, Start, FetchFails, Escape, Register, CloseAborted, Close, Send, Settled, Enter
  <2> QED BY <1>0, <2>0, <2>1, Entered
<1>2. ASSUME NEW s \in Turn, React(s) \/ Body(s) \/ Halt(s) \/ Throw(s) PROVE phase'[t] \notin {"fetch", "sending"}
  <2>1. \E p \in {"open", "loaded", "model", "answered", "index", "closing", "over"} : Enter(s, p)
    BY <1>2 DEF React, Body, Halt, Throw, Load, Hold, Prepare, Answer, Persist, Complete, CloseReaction
  <2> QED BY <1>0, <2>1, Entered
<1> QED
  BY <1>0, <1>1, <1>2 DEF ConversationNext, Stop, Reset, vars, turns

(* No state is one in which everybody waits: not for a turn that was aborted,   *)
(* a handler that threw, or a message that was superseded.                      *)
THEOREM NeverStuck == ConversationSpec => [](AtRest \/ CanWork)
<1>1. ConversationInit => ReactionsBeside
  BY DEF ConversationInit, ReactionsBeside
<1>2. ConversationSpec => []ReactionsBeside
  BY <1>1, TurnsInvariance, BesideStep, PTL DEF ConversationSpec
<1>3. TypeOK /\ CInv /\ ReactionsBeside /\ GoesOn => AtRest \/ CanWork
  <2> SUFFICES ASSUME TypeOK, CInv, ReactionsBeside, GoesOn, ~CanWork PROVE AtRest
    OBVIOUS
  <2>1. ASSUME NEW m \in Msg PROVE place[m] # "running" /\ phase[m] \notin Busy
    <3>1. m \in Turn /\ ~Handling(m) /\ ~Thinking(m)
      BY DEF CanWork
    <3> QED BY <3>1 DEF CInv, Working, Handling, Thinking, Busy, InTurn
  <2>2. ASSUME NEW t \in Reaction PROVE phase[t] \notin Busy
    <3>1. t \in Turn /\ ~Thinking(t) /\ phase[t] # "closing"
      BY DEF CanWork
    <3> QED BY <3>1 DEF ReactionsBeside, Thinking, Busy, InTurn
  <2>3. Unsettled = {}
    <3>1. \A m \in Msg : ~Going(m)
      BY <2>1 DEF CanWork, Beginning, Going
    <3> QED BY <3>1 DEF GoesOn
  <2>4. \A m \in Msg : place[m] \in {"new", "settled"}
    BY <2>3 DEF TypeOK, Places, Unsettled, At
  <2> QED BY <2>1, <2>2, <2>4 DEF AtRest
<1>4. ConversationSpec => []GoesOn
  BY UsesQueue, NeverWedged, PTL
<1>5. ConversationSpec => []QInv
  BY UsesQueue, QueueInvariance, PTL
<1>6. QInv => TypeOK
  BY DEF QInv
<1> QED
  BY <1>2, <1>3, <1>4, <1>5, <1>6, TurnsInvariance, PTL

PlaceMoves ==
  {<<"new", "queued">>, <<"queued", "running">>, <<"queued", "ended">>, <<"running", "ended">>, <<"ended", "settled">>}

Forward ==
  /\ \A t \in Turn : phase'[t] = phase[t] \/ <<phase[t], phase'[t]>> \in Moves
  /\ \A m \in Msg : place'[m] = place[m] \/ <<place[m], place'[m]>> \in PlaceMoves
  /\ Work => \/ \E t \in Turn : phase'[t] # phase[t]
             \/ \E m \in Msg : place'[m] # place[m]

LEMMA PlacesForward ==
  ASSUME TypeOK, [Next]_queue, NEW n \in Msg
  PROVE  place'[n] = place[n] \/ <<place[n], place'[n]>> \in PlaceMoves
<1>1. ASSUME NEW m \in Msg, Step(m) PROVE place'[n] = place[n] \/ <<place[n], place'[n]>> \in PlaceMoves
  <2>1. \E p \in Places : Move(m, p) /\ <<place[m], p>> \in PlaceMoves
    BY <1>1 DEF Step, Enqueue, Interrupt, enqueue, claim, Finish, Settle, PlaceMoves, Places
  <2> QED BY <2>1 DEF Move, TypeOK
<1> QED
  BY <1>1 DEF Next, flush, queue

LEMMA WorkMoves ==
  ASSUME TypeOK, CInv, Work
  PROVE  \/ \E t \in Turn : phase'[t] # phase[t]
         \/ \E m \in Msg : place'[m] # place[m]
<1> USE DEF CInv
<1>1. ASSUME NEW m \in Msg, Handle(m)
      PROVE  (\E t \in Turn : phase'[t] # phase[t]) \/ \E n \in Msg : place'[n] # place[n]
  <2>0. m \in Turn
    OBVIOUS
  <2>1. CASE Start(m) \/ Settled(m)
    <3>1. place'[m] # place[m]
      BY <2>1 DEF Start, claim, Settled, Settle, Move, TypeOK
    <3> QED BY <3>1
  <2>2. CASE FetchFails(m) \/ Register(m) \/ CloseAborted(m) \/ Close(m) \/ Send(m)
    <3>1. \E p \in Phases : Enter(m, p) /\ phase[m] # p
      BY <2>2 DEF FetchFails, Register, CloseAborted, Close, Send, Phases, InTurn
    <3> QED BY <2>0, <3>1, Entered
  <2> QED BY <1>1, <2>1, <2>2 DEF Handle
<1>2. ASSUME NEW t \in Turn, Body(t) PROVE \E s \in Turn : phase'[s] # phase[s]
  <2>1. \E p \in Phases : Enter(t, p) /\ phase[t] # p
    BY <1>2 DEF Body, Load, Hold, Prepare, Answer, Persist, Complete, CloseReaction, Phases, InTurn
  <2> QED BY <2>1, Entered
<1> QED
  BY <1>1, <1>2 DEF Work

(* Every step of a handler brings something further, and no step ever takes     *)
(* anything back: a message is not queued again nor a turn run twice.           *)
THEOREM OnlyForward == ConversationSpec => [][Forward]_vars
<1>1. IInv /\ [ConversationNext]_vars => [Forward]_vars
  <2> SUFFICES ASSUME IInv, [ConversationNext]_vars PROVE Forward
    OBVIOUS
  <2>1. TypeOK /\ CInv /\ Typed /\ PhasesOrdered
    BY DEF IInv, ConversationTypeOK, Typed
  <2>2. \A t \in Turn : phase'[t] = phase[t] \/ <<phase[t], phase'[t]>> \in Moves
    BY <2>1, TurnMoves
  <2>3. \A m \in Msg : place'[m] = place[m] \/ <<place[m], place'[m]>> \in PlaceMoves
    BY <2>1, StepQueue, PlacesForward
  <2> QED BY <2>1, <2>2, <2>3, WorkMoves DEF Forward
<1> QED
  BY Invariance, <1>1, PTL DEF ConversationSpec
=============================================================================
