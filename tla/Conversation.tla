------------------------------ MODULE Conversation ------------------------------
(* One conversation of a chat channel in one daemon: the messages on its serial *)
(* queue, the turn that is running and may be aborted, the commands /stop and   *)
(* /reset, reactions beside the queue, and what all of them leave in the store  *)
(* and in the prompt cache.  src/channels/core/engine.ts (processChatMessage    *)
(* and the polling loop), src/channels/commands.ts, src/orchestrator/turn.ts.   *)
(*                                                                             *)
(* A step is the code between two awaits.  The daemon has one thread; a store   *)
(* call is one SQLite transaction that runs before its await yields.            *)
EXTENDS ConversationQueue, PromptCache

CONSTANTS
  Voice,       \* messages whose voice note may turn out to be unusable
  First,       \* [Msg -> SUBSET Msg]: bound: those that come before each message
  MaxTurns,    \* bounds: messages and reactions that come; commands of the
  MaxEvents    \* user, exceptions inside turns and chains that end without a word

ASSUME MessageAssumption ==
  /\ Reaction \cap Msg = {} /\ Turn = Msg \cup Reaction /\ None \notin Turn
  /\ Voice \subseteq Msg /\ Reaction \subseteq Trusted
  /\ First \in [Msg -> SUBSET Msg]
  /\ {MaxTurns, MaxEvents} \subseteq Nat
  /\ None \notin {"interrupt", "stop", "reset"}

VARIABLES
  activeTurn,      \* activeTurns: the message whose turn can be aborted, or None
  reason,          \* why each message's turn was aborted, or None
  phase,           \* where each turn is
  window, floor,   \* the history it has read, and (history) the watermark then
  outcome,         \* how its harness chain ended
  hist,            \* the store: the records of the conversation
  mark,            \* reset_turn_id: how many of them are below the watermark
  silenced,        \* history: messages that were stopped, reset or superseded
  events

turns == <<activeTurn, reason, phase, window, floor, outcome>>
store == <<hist, mark>>
user == <<silenced, events>>
vars == <<queue, cache, plan, turns, store, user>>

(* fetch: transcribing or downloading, not yet in activeTurns.  open: the turn  *)
(* is registered, reads its settings and enters runTurn.  loaded: it has read   *)
(* the history and is being screened.  model: its harness runs.  answered: the  *)
(* stream has ended.  index: its pair is written and is being indexed.          *)
(* closing: the generator unwinds.                                              *)
InTurn == {"open", "loaded", "model", "answered", "index", "closing"}
Phases == InTurn \cup {"off", "fetch", "sending", "over"}
Reasons == {"interrupt", "stop", "reset"}

Enter(t, p) == phase' = [phase EXCEPT ![t] = p]
Event == events < MaxEvents /\ events' = events + 1
Ended(t, o) == outcome' = [outcome EXCEPT ![t] = o]
aborted(t) == reason[t] # None
-----------------------------------------------------------------------------
(* AbortController.abort: the first reason stays.                               *)
abort(why) ==
  reason' = [t \in Turn |-> IF t = activeTurn /\ reason[t] = None THEN why ELSE reason[t]]

Active == {activeTurn} \ {None}

Begun == (Msg \ At("new")) \cup {t \in Reaction : phase[t] # "off"}
Room == Cardinality(Begun) < MaxTurns

(* The polling loop hands a message over.                                       *)
Arrive(m) ==
  /\ Room /\ First[m] \cap At("new") = {}
  /\ IF activeTurn = None
       THEN Enqueue(m) /\ UNCHANGED <<reason, silenced>>
       ELSE /\ Interrupt(m)
            /\ abort("interrupt")
            /\ silenced' = silenced \cup Active \cup Waiting
  /\ UNCHANGED <<cache, plan, activeTurn, phase, window, floor, outcome, store,
                 events>>

(* handleStop; the note is written unless there was nothing to stop.            *)
Stop ==
  /\ Event
  /\ flush
  /\ abort("stop")
  /\ hist' = IF activeTurn = None /\ pending = 0
               THEN hist ELSE Append(hist, Note)
  /\ silenced' = silenced \cup Active \cup Waiting
  /\ UNCHANGED <<cache, plan, activeTurn, phase, window, floor, outcome, mark>>

(* handleReset: the window starts behind all that is written.                   *)
Reset ==
  /\ Event
  /\ abort("reset")
  /\ mark' = Len(hist)
  /\ silenced' = silenced \cup Active
  /\ UNCHANGED <<queue, cache, plan, activeTurn, phase, window, floor, outcome, hist>>
-----------------------------------------------------------------------------
(* The callback of the queue begins: processChatMessage, or nothing.            *)
Start(m) ==
  /\ claim(m)
  /\ phase' = [phase EXCEPT ![m] = IF ticket[m] = epoch THEN "fetch" ELSE "off"]
  /\ UNCHANGED <<cache, plan, activeTurn, reason, window, floor, outcome, store, user>>

(* The voice note cannot be had or transcribed: an apology, and no turn.        *)
FetchFails(m) ==
  /\ m \in Voice /\ phase[m] = "fetch"
  /\ Enter(m, "over")
  /\ Finish(m)
  /\ UNCHANGED <<cache, plan, activeTurn, reason, window, floor, outcome, store, user>>

Register(m) ==
  /\ phase[m] = "fetch"
  /\ Enter(m, "open")
  /\ activeTurn' = m
  /\ UNCHANGED <<queue, cache, plan, reason, window, floor, outcome, store, user>>

(* What is awaited before the try of the turn throws: reply mode, speech,       *)
(* chattiness (whose file is written in place and may be torn), the count for   *)
(* the capture nudge.  The finally that deregisters is never reached, so that   *)
(* a turn that was registered stays in activeTurns although it is over.         *)
Escape(m) ==
  /\ m \in Clumsy /\ phase[m] \in {"fetch", "open"}
  /\ Enter(m, "over")
  /\ Finish(m) /\ thrown' = thrown \cup {m}
  /\ UNCHANGED <<cache, plan, activeTurn, reason, window, floor, outcome, store, user>>

(* A reaction wakes a turn beside the queue, which nobody can abort.            *)
React(t) ==
  /\ t \in Reaction /\ phase[t] = "off" /\ Room
  /\ Enter(t, "open")
  /\ UNCHANGED <<queue, cache, plan, activeTurn, reason, window, floor, outcome, store, user>>
-----------------------------------------------------------------------------
(* runTurnBody. *)

(* Plausible bug: the limit of the query is lost.                               *)
AllTurns == SubSeq(hist, mark + 1, Len(hist))

recentTurns == LastOf(SubSeq(hist, mark + 1, Len(hist)), Limit)

Load(t) ==
  /\ phase[t] = "open"
  /\ Enter(t, "loaded")
  /\ window' = [window EXCEPT ![t] = recentTurns]
  /\ floor' = [floor EXCEPT ![t] = mark]
  /\ UNCHANGED <<queue, cache, plan, activeTurn, reason, outcome, store, user>>

(* The threat screen holds a stranger's message, or was cancelled.              *)
Hold(t) ==
  /\ phase[t] = "loaded" /\ t \notin Trusted
  /\ Enter(t, "closing")
  /\ \/ Ended(t, "held") /\ invalidate
     \/ aborted(t) /\ Ended(t, "failed") /\ UNCHANGED <<cache, plan>>
  /\ UNCHANGED <<queue, activeTurn, reason, window, floor, store, user>>

Prepare(t) ==
  /\ phase[t] = "loaded"
  /\ Enter(t, "model")
  /\ prepare(t, window[t])
  /\ UNCHANGED <<queue, activeTurn, reason, window, floor, outcome, store, user>>

(* The harness chain ends; a turn that is aborted may still get its answer.     *)
Answer(t) ==
  /\ phase[t] = "model"
  /\ Enter(t, "answered")
  /\ \E o \in {"reply", "failed"} : Ended(t, o)
  /\ UNCHANGED <<queue, cache, plan, activeTurn, reason, window, floor, store, user>>

(* It ends without an error to be remembered: the host is shutting down.        *)
Halt(t) ==
  /\ Event
  /\ phase[t] = "model"
  /\ Enter(t, "answered")
  /\ Ended(t, "halted")
  /\ UNCHANGED <<queue, cache, plan, activeTurn, reason, window, floor, store, silenced>>

(* A reply is written even if the turn was aborted meanwhile, a failure is not. *)
Written(t) == outcome[t] = "reply" \/ (outcome[t] = "failed" /\ ~aborted(t))

Persist(t) ==
  /\ phase[t] = "answered"
  /\ Enter(t, "index")
  /\ hist' = IF Written(t) THEN Append(hist, [of |-> t, as |-> outcome[t]]) ELSE hist
  /\ UNCHANGED <<queue, cache, plan, activeTurn, reason, window, floor, outcome, mark, user>>

Complete(t) ==
  /\ phase[t] = "index"
  /\ Enter(t, "closing")
  /\ IF outcome[t] = "reply" THEN complete(t) ELSE fail(t)
  /\ UNCHANGED <<queue, activeTurn, reason, window, floor, outcome, store, user>>

(* The store, the persona or the harness throws inside the try of the turn:     *)
(* nothing more is written.                                                     *)
Throw(t) ==
  /\ Event
  /\ phase[t] \in {"open", "loaded", "model", "answered"}
  /\ Enter(t, "closing")
  /\ Ended(t, "threw")
  /\ plan' = [plan EXCEPT ![t] = NoPlan]
  /\ UNCHANGED <<queue, cache, activeTurn, reason, window, floor, store, silenced>>
-----------------------------------------------------------------------------
(* Plausible bugs: a turn that was aborted stays registered; only what a new    *)
(* message interrupts is recorded.                                              *)
StayRegistered(m) == activeTurn' = IF aborted(m) THEN activeTurn ELSE None
RecordInterruptsOnly(m) == reason[m] = "interrupt"

Deregister(m) == activeTurn' = IF activeTurn = m THEN None ELSE activeTurn
recordsInterrupted(m) == reason[m] # "reset"

DropHistory(t) ==
  /\ window' = [window EXCEPT ![t] = <<>>]
  /\ floor' = [floor EXCEPT ![t] = 0]

(* The turn is over for the channel.  If it was aborted it says nothing and     *)
(* leaves what was asked in the history: persistInterruptedTurn.                *)
CloseAborted(m) ==
  /\ phase[m] = "closing" /\ aborted(m)
  /\ Deregister(m)
  /\ hist' = IF recordsInterrupted(m)
               THEN Append(hist, [of |-> m, as |-> "interrupted"]) ELSE hist
  /\ Enter(m, "over")
  /\ Finish(m)
  /\ DropHistory(m)
  /\ UNCHANGED <<cache, plan, reason, outcome, mark, user>>

Close(m) ==
  /\ phase[m] = "closing" /\ ~aborted(m)
  /\ Deregister(m)
  /\ Enter(m, "sending")
  /\ DropHistory(m)
  /\ UNCHANGED <<queue, cache, plan, reason, outcome, store, user>>

(* The reply, the held message or, after an error, a recovery reply is sent.    *)
Send(m) ==
  /\ phase[m] = "sending"
  /\ Enter(m, "over")
  /\ Finish(m)
  /\ UNCHANGED <<cache, plan, activeTurn, reason, window, floor, outcome, store, user>>

CloseReaction(t) ==
  /\ t \in Reaction /\ phase[t] = "closing"
  /\ Enter(t, "over")
  /\ Ended(t, "none")
  /\ DropHistory(t)
  /\ UNCHANGED <<queue, cache, plan, activeTurn, reason, store, user>>

(* The handler's variables are gone with it.                                    *)
Settled(m) ==
  /\ Settle(m)
  /\ reason' = [reason EXCEPT ![m] = None]
  /\ Ended(m, "none")
  /\ silenced' = silenced \ {m}
  /\ UNCHANGED <<cache, plan, activeTurn, phase, window, floor, store, events>>
-----------------------------------------------------------------------------
ConversationInit ==
  /\ Init
  /\ cache = NoEpoch
  /\ plan = [t \in Turn |-> NoPlan]
  /\ activeTurn = None
  /\ reason = [t \in Turn |-> None]
  /\ phase = [t \in Turn |-> "off"]
  /\ window = [t \in Turn |-> <<>>]
  /\ floor = [t \in Turn |-> 0]
  /\ outcome = [t \in Turn |-> "none"]
  /\ hist = <<>> /\ mark = 0
  /\ silenced = {} /\ events = 0

Body(t) ==
  \/ Load(t) \/ Hold(t) \/ Prepare(t) \/ Answer(t) \/ Persist(t) \/ Complete(t)
  \/ CloseReaction(t)
Handle(m) ==
  \/ Start(m) \/ FetchFails(m) \/ Register(m)
  \/ CloseAborted(m) \/ Close(m) \/ Send(m) \/ Settled(m)

ConversationNext ==
  \/ \E m \in Msg : Arrive(m) \/ Handle(m) \/ Escape(m)
  \/ \E t \in Turn : React(t) \/ Body(t) \/ Halt(t) \/ Throw(t)
  \/ Stop \/ Reset

ConversationSpec == ConversationInit /\ [][ConversationNext]_vars

(* Every await ends: harnesses, downloads and transcriptions have timeouts.     *)
(* Messages, reactions and commands need not come, nor exceptions happen.       *)
Work == (\E m \in Msg : Handle(m)) \/ (\E t \in Turn : Body(t))
FairSpec == ConversationSpec /\ WF_vars(Work)
-----------------------------------------------------------------------------
(* Properties. *)

TurnsTyped ==
  /\ phase \in [Turn -> Phases]
  /\ reason \in [Turn -> Reasons \cup {None}]
  /\ activeTurn \in Msg \cup {None}
  /\ silenced \subseteq Msg

(* The types, and that no turn reads more than the history limit.               *)
ConversationTypeOK ==
  /\ TypeOK /\ TurnsTyped /\ events \in Nat
  /\ window \in [Turn -> Seq(Record)] /\ \A t \in Turn : Len(window[t]) <= Limit
  /\ floor \in [Turn -> Nat]
  /\ outcome \in [Turn -> {"none", "reply", "failed", "halted", "held", "threw"}]
  /\ hist \in Seq(Record) /\ mark \in 0..Len(hist)
  /\ cache \in Epoch /\ plan \in [Turn -> Plan]

(* An entry of activeTurns whose handler threw before the try of its turn: it   *)
(* stays until the next turn is registered.                                     *)
Stranded(m) == m \in thrown /\ place[m] \in {"ended", "settled"}

(* Every turn that can be aborted is the entry of activeTurns, so that neither  *)
(* /stop nor an interrupt misses it; and the entry is no turn that is over, but *)
(* for one whose handler threw before it had begun.                             *)
ActiveIsRunning ==
  \A m \in Msg :
    /\ phase[m] \in InTurn => activeTurn = m
    /\ activeTurn = m => phase[m] \in InTurn \/ Stranded(m)

(* What engine.ts says of the queue: with nothing running, several messages     *)
(* that arrive together are a thought of many lines and must all be answered.   *)
(* While no turn runs, a message takes none of those that wait off the queue.   *)
Comes(m) == place[m] = "new" /\ place'[m] = "queued"
Idle == \A m \in Msg : phase[m] \notin InTurn
AllAnswered == [][\A m \in Msg : Comes(m) /\ Idle => Waiting \subseteq Waiting']_vars

(* A message that was superseded, stopped or reset, while it was queued or      *)
(* while its turn ran, is never answered.                                       *)
Silenced == \A m \in silenced : phase[m] # "sending"

(* Whatever a user said in a turn is in the history once the turn is over, so   *)
(* that a follow-up ("actually, use blue") has a referent: except what /reset   *)
(* or the threat screen took out, turns that never began, and those that ended  *)
(* in an exception or a shutdown before anybody aborted them.                   *)
NothingForgotten ==
  \A m \in Msg :
    /\ phase[m] \in {"sending", "over"}
    /\ \/ outcome[m] \in {"reply", "failed"}
       \/ outcome[m] \in {"threw", "halted"} /\ aborted(m)
    /\ reason[m] # "reset"
    => \E i \in 1..Len(hist) : hist[i].of = m

(* The prompt of a turn ends in exactly the history that the turn has read: the *)
(* epoch of the cache never hides what happened beside it (a reaction, a /stop, *)
(* an interrupted turn), nor shows what did not.                                *)
PromptIsHistory ==
  \A t \in Turn : plan[t] # NoPlan => window[t] = LastOf(Prompt(t), Limit)

(* The records above the position f, and whether all of s are among them.       *)
Above(f) == {hist[j] : j \in f + 1 .. Len(hist)}
After(s, f) == \A i \in 1..Len(s) : s[i] \in Above(f)

(* A full window above f could be mistaken for an older one: apart from its     *)
(* last record it consists of notes of /stop, which read alike.                 *)
Flooded(f) ==
  /\ f > 0
  /\ \E a \in f .. Len(hist) - Limit : \A i \in 1..Limit - 1 : hist[a + i] = Note

(* A turn that has read its history after a /reset is shown nothing from before *)
(* it, not even through an epoch that is older than the /reset: unless notes of *)
(* /stop fill the window, since histories are compared by what they say.        *)
ResetForgets ==
  \A t \in Turn : plan[t] # NoPlan => Flooded(floor[t]) \/ After(Prompt(t), floor[t])

(* The retrieved context of a principal's turn, which the epoch repeats, is not *)
(* shown to a stranger's turn, nor the other way round.                         *)
ContextsStay ==
  \A t \in Turn : \A i \in 1..Len(plan[t].turns) :
    plan[t].turns[i].of \in Trusted <=> t \in Trusted

(* The inductive invariant: what the properties above rest on.                  *)
Busy == InTurn \cup {"fetch", "sending"}
Early == {"off", "fetch", "open", "loaded"}

(* The queue runs a message exactly as long as its handler is at work.          *)
Working == \A m \in Msg : place[m] = "running" <=> phase[m] \in Busy

(* A silenced message is superseded on the queue, aborted in its turn, or over. *)
Hushed(m) ==
  \/ place[m] = "queued" /\ ticket[m] # epoch
  \/ place[m] = "running" /\ aborted(m) /\ phase[m] # "sending"
  \/ place[m] \in {"ended", "settled"}

PhasesOrdered ==
  /\ \A m \in Msg : place[m] \in {"new", "queued"} => phase[m] = "off"
  /\ \A t \in Turn :
       /\ plan[t] # NoPlan => phase[t] \in {"model", "answered", "index"}
       /\ phase[t] \in {"off", "fetch", "open"} => outcome[t] = "none"
       /\ activeTurn = t /\ phase[t] \notin InTurn => outcome[t] = "none"
       /\ phase[t] \in {"answered", "index"} => outcome[t] \in {"reply", "failed", "halted"}

(* A turn writes each of its records once, so that equal records are one, but   *)
(* for notes.                                                                   *)
WrittenOnce ==
  \A t \in Turn :
    /\ phase[t] \in Early \cup {"model", "answered"} => \A r \in Above(0) : r.of # t
    /\ phase[t] \in {"index", "closing"} => [of |-> t, as |-> "interrupted"] \notin Above(0)

InHistory(t) == \E i \in 1..Len(hist) : hist[i].of = t

(* What was said is written, or will be when the turn is closed.                *)
Remembered ==
  \A t \in Turn :
    /\ phase[t] = "index" /\ outcome[t] = "reply" => Reply(t) \in Above(0)
    /\ phase[t] \in {"index", "closing"} /\ outcome[t] \in {"reply", "failed"}
         => InHistory(t) \/ (outcome[t] = "failed" /\ aborted(t))

(* An epoch is named by a turn that has opened one, has that turn's provenance, *)
(* and serves one turn at a time.                                               *)
EpochsNamed ==
  /\ cache # NoEpoch =>
       /\ cache.id \in Turn /\ phase[cache.id] \notin Early
       /\ cache.trusted <=> cache.id \in Trusted
  /\ \A t \in Turn : plan[t] # NoPlan =>
       /\ plan[t].id \in Turn /\ phase[plan[t].id] \notin Early
       /\ plan[t].id \in Trusted <=> t \in Trusted
  /\ \A t \in Turn : Serving(t) => cache.active
  /\ \A s, t \in Turn : Serving(s) /\ Serving(t) => s = t
EpochSided == \A i \in 1..Len(cache.turns) : cache.turns[i].of \in Trusted <=> cache.trusted

(* Positions at which a /reset has cut the history for somebody; s is a piece   *)
(* of the history above f; the first n of s were all written below f.           *)
Cuts == {0, mark} \cup {floor[t] : t \in Turn}
Piece(s, f) ==
  \E a \in f .. Len(hist) - Len(s) : \A i \in 1..Len(s) : s[i] = hist[a + i]
Before(s, n, f) == \A i \in 1..n : s[i] = Note \/ s[i] \notin Above(f)

(* A cut lies below or above all that a turn has read, and none above the       *)
(* watermark.                                                                   *)
WindowsWhole ==
  \A t \in Turn :
    /\ floor[t] <= mark
    /\ phase[t] = "loaded" =>
         /\ Piece(window[t], floor[t])
         /\ \A f \in Cuts : Piece(window[t], f) \/ Before(window[t], Len(window[t]), f)

(* A cut lies below or above all of an epoch, or just before its last reply,    *)
(* which was under way when the history was cut.                                *)
SettledPart(e) == Len(canonicalHistory(e)) - (IF e.active THEN 0 ELSE 1)
EpochWhole ==
  cache # NoEpoch =>
    /\ After(canonicalHistory(cache), 0)
    /\ \A f \in Cuts : \/ After(canonicalHistory(cache), f) \/ Flooded(f)
                      \/ Before(canonicalHistory(cache), SettledPart(cache), f)
RepliesLast ==
  \A t \in Turn : Serving(t) /\ phase[t] = "index" /\ outcome[t] = "reply" =>
    \A f \in Cuts : \/ Reply(t) \in Above(f)
                    \/ Before(canonicalHistory(cache), Len(canonicalHistory(cache)), f)

CInv == TurnsTyped /\ Working /\ ActiveIsRunning /\ (\A m \in silenced : Hushed(m))

IInv ==
  /\ ConversationTypeOK /\ CInv
  /\ PhasesOrdered /\ WrittenOnce /\ Remembered /\ NothingForgotten
  /\ EpochsNamed /\ EpochSided /\ ContextsStay /\ PromptIsHistory
  /\ WindowsWhole /\ EpochWhole /\ RepliesLast /\ ResetForgets

(* No message waits for ever: not behind an aborted turn, nor a superseded one  *)
(* or one whose handler threw.  Once nothing new comes, nothing is under way.   *)
ComesToRest == []<>(\A m \in Msg : place[m] \in {"new", "settled"})
=============================================================================
