----------------------------- MODULE FactExtraction -----------------------------
(* Durable facts of one conversation: the turns that have left the history      *)
(* window are given to a model, each of them once.  Passes over them run in the *)
(* daemon, behind its turns and in its drain loop, and in other processes;      *)
(* short-lived processes only leave a request.  src/orchestrator/durableFacts.ts*)
(* over the tables durable_fact_cursor, durable_fact_pending and                *)
(* durable_fact_extract_requests of src/memory/store.ts.                        *)
(*                                                                             *)
(* A step is one SQLite transaction and the code up to the next await.          *)
EXTENDS Integers, FiniteSets

CONSTANTS
  Pass,          \* places where a pass runs, one at a time in each
  Drain,         \* the one of them that serves the requests: the drain loop
  Token, NoToken,  \* the UUIDs of claims
  Quarantined,   \* ids of turns that must not be extracted
  Times,         \* values of created_at
  windowSize, maxExtractPerTurn,
  MaxTurns,      \* bounds: turns, the generation of a request, and what goes
  MaxGeneration, \* wrong: failures, crashes and deletions
  MaxEvents

ASSUME FactAssumption ==
  /\ Drain \in Pass /\ NoToken \notin Token
  /\ windowSize \in Nat /\ MaxTurns \in Nat /\ MaxGeneration \in Nat /\ MaxEvents \in Nat
  /\ maxExtractPerTurn \in Nat \ {0} /\ Times \subseteq Nat \ {0}

Ids == 1..MaxTurns

VARIABLES
  last, turns,     \* AUTOINCREMENT: the newest id; the ids that are in the table
  createdAt,       \* created_at of each turn, purged ones too
  cursor,          \* last_extracted_turn_id, 0 without a row
  lease,           \* durable_fact_pending: whose each turn is, until when
  request,         \* durable_fact_extract_requests: the generation, 0 without a row
  phase,           \* where each pass is
  todo, token,     \* its outstanding turns and the token of its claim
  seen,            \* the generation the drain has listed
  handled,         \* history: turns that were extracted or may be left out
  extracted,       \* history: how often the facts of each turn were written
  heeded,          \* history: the drain has claimed since the last request
  events

rows == <<last, turns, createdAt, cursor, lease, request>>
passes == <<phase, todo, token, seen>>
history == <<handled, extracted, heeded>>
vars == <<rows, passes, history, events>>

(* called: the pass is about to claim.  calling: it works on its batch.         *)
(* releasing: it gives back what it will not reach.  clean, failed: what the    *)
(* drain makes of it.                                                           *)
Phases == {"idle", "called", "calling", "releasing", "clean", "failed"}
Holding == {"calling", "releasing"}

NoLease == [token |-> NoToken, live |-> FALSE]
Leased(n) == lease[n] # NoLease
Stale(n) == [token |-> lease[n].token, live |-> FALSE]
Event == events < MaxEvents /\ events' = events + 1
-----------------------------------------------------------------------------
(* The turns. *)

(* The window: ORDER BY created_at DESC, id DESC.                               *)
Newer(n) ==
  {k \in turns : createdAt[k] > createdAt[n] \/ (createdAt[k] = createdAt[n] /\ k > n)}
Evicted == {n \in turns : Cardinality(Newer(n)) >= windowSize}

(* A turn, or a pair of them with one created_at.  It is read before the wait   *)
(* for the write lock, in which other processes write: any time may turn out.   *)
append(size) ==
  \E at \in Times :
    LET new == (last + 1)..(last + size) IN
    /\ last + size <= MaxTurns
    /\ last' = last + size
    /\ turns' = turns \cup new
    /\ createdAt' = [n \in Ids |-> IF n \in new THEN at ELSE createdAt[n]]
    /\ UNCHANGED <<cursor, lease>>

(* A turn of a short-lived process; it may die before its request.              *)
Append ==
  /\ \E size \in {1, 2} : append(size)
  /\ UNCHANGED <<request, passes, history, events>>

(* A turn of a process that stays: its pass runs behind it.                     *)
Converse(p) ==
  /\ append(2)
  /\ p # Drain /\ phase[p] = "idle"
  /\ phase' = [phase EXCEPT ![p] = "called"]
  /\ UNCHANGED <<request, todo, token, seen, history, events>>

(* requestFactExtraction; turns that wrote nothing ask, too.                    *)
Request ==
  /\ request < MaxGeneration
  /\ request' = request + 1
  /\ heeded' = FALSE
  /\ UNCHANGED <<last, turns, createdAt, cursor, lease, passes, handled, extracted, events>>

(* A trusted turn drops the quarantined ones; leases and cursor stay.           *)
purgeQuarantined ==
  /\ turns \cap Quarantined # {}
  /\ turns' = turns \ Quarantined
  /\ UNCHANGED <<last, createdAt, cursor, lease, request, passes, history, events>>

(* Plausible bug: the leases of the conversation outlive its turns.             *)
ForgetCursor == cursor' = 0 /\ UNCHANGED lease

ForgetExtraction == cursor' = 0 /\ lease' = [n \in Ids |-> NoLease]

deleteConversation ==
  /\ Event
  /\ turns # {}
  /\ turns' = {}
  /\ createdAt' = [n \in Ids |-> 0]
  /\ ForgetExtraction
  /\ UNCHANGED <<last, request, passes, history>>
-----------------------------------------------------------------------------
(* A pass: extractDurableFactsOnEviction. *)

(* The drain loop of the daemon lists the request; one drain runs at a time.    *)
List ==
  /\ request # 0 /\ phase[Drain] = "idle"
  /\ seen' = request
  /\ phase' = [phase EXCEPT ![Drain] = "called"]
  /\ UNCHANGED <<rows, todo, token, history, events>>

(* Only the drain looks at how its pass has ended.                              *)
End(p, how) == phase' = [phase EXCEPT ![p] = IF p = Drain THEN how ELSE "idle"]

(* Plausible bug: a pass that ends keeps its token.                             *)
DropTurns(p) == todo' = [todo EXCEPT ![p] = {}] /\ UNCHANGED token

Drop(p) == todo' = [todo EXCEPT ![p] = {}] /\ token' = [token EXCEPT ![p] = NoToken]

(* Plausible bug: a turn that the cursor has passed is never claimed again.     *)
AboveCursor(n) == n > cursor

mayClaim(n) == (n > cursor \/ Leased(n)) /\ ~lease[n].live

Claimable == {n \in Evicted : mayClaim(n)}
batch ==
  LET eligible == Claimable IN
  {n \in eligible : Cardinality({k \in eligible : k < n}) < maxExtractPerTurn}

InUse == {token[p] : p \in Pass} \cup {lease[n].token : n \in Ids}
randomUUID == CHOOSE k \in Token : k \notin InUse

(* Plausible bug: the cursor follows the newest turn that has left the window.  *)
advanceToNewest == \E m \in Evicted : cursor' = m /\ \A n \in Evicted : n <= m

advance == \E m \in batch : cursor' = m /\ \A n \in batch : n <= m
raise == IF \E n \in batch : n > cursor THEN advance ELSE UNCHANGED cursor

ClaimNothing(p) ==
  /\ phase[p] = "called" /\ Claimable = {}
  /\ End(p, "clean")
  /\ heeded' = (heeded \/ p = Drain)
  /\ UNCHANGED <<rows, todo, token, seen, handled, extracted, events>>

Claim(p) ==
  /\ phase[p] = "called" /\ Claimable # {}
  /\ ~(Token \subseteq InUse)
  /\ phase' = [phase EXCEPT ![p] = "calling"]
  /\ todo' = [todo EXCEPT ![p] = batch]
  /\ token' = [token EXCEPT ![p] = randomUUID]
  /\ lease' = [n \in Ids |->
       IF n \in todo'[p] THEN [token |-> token'[p], live |-> TRUE] ELSE lease[n]]
  /\ raise
  /\ heeded' = (heeded \/ p = Drain)
  /\ UNCHANGED <<last, turns, createdAt, request, seen, handled, extracted, events>>

First(p) == {n \in todo[p] : \A k \in todo[p] : n <= k}

(* The turn is off the pass's hands; after the last one the pass is over.       *)
Cross(p, n, how) ==
  IF todo[p] = {n}
    THEN End(p, how) /\ Drop(p)
    ELSE todo' = [todo EXCEPT ![p] = @ \ {n}] /\ UNCHANGED <<phase, token>>

(* Plausible bug: a pass does not ask who holds the lease by now.               *)
OwnsAnyway(p, n) == TRUE

Owns(p, n) == lease[n].token = token[p]

Settle(p, n) ==
  /\ lease' = IF Owns(p, n) THEN [lease EXCEPT ![n] = NoLease] ELSE lease
  /\ handled' = IF Owns(p, n) THEN handled \cup {n} ELSE handled
  /\ Cross(p, n, "clean")
  /\ UNCHANGED <<last, turns, createdAt, cursor, request, seen, heeded, events>>

(* commitExtraction, once the model has answered: meanwhile the lease may have  *)
(* run out, gone to another pass, or been deleted.                              *)
Extract(p) ==
  /\ phase[p] = "calling"
  /\ \E n \in First(p) \ Quarantined :
       /\ Settle(p, n)
       /\ extracted' = IF Owns(p, n) THEN [extracted EXCEPT ![n] = @ + 1] ELSE extracted

(* commitExtractedTurn: what was quarantined is never shown to the model.       *)
Skip(p) ==
  /\ phase[p] = "calling"
  /\ \E n \in First(p) \cap Quarantined : Settle(p, n)
  /\ UNCHANGED extracted

(* The model fails, or takes too long: what is outstanding is to be released.   *)
HarnessFails(p) ==
  /\ Event
  /\ phase[p] = "calling"
  /\ First(p) \ Quarantined # {}
  /\ phase' = [phase EXCEPT ![p] = "releasing"]
  /\ UNCHANGED <<rows, todo, token, seen, history>>

(* releaseExtractionLease: turn by turn, other processes' transactions between. *)
Release(p) ==
  /\ phase[p] = "releasing"
  /\ \E n \in First(p) :
       /\ lease' = IF Owns(p, n) THEN [lease EXCEPT ![n] = Stale(n)] ELSE lease
       /\ Cross(p, n, "failed")
  /\ UNCHANGED <<last, turns, createdAt, cursor, request, seen, history, events>>

(* A transaction fails, the claim, a commit or a release: the leases stay.      *)
StoreFails(p) ==
  /\ Event
  /\ phase[p] \in {"called"} \cup Holding
  /\ End(p, "failed")
  /\ Drop(p)
  /\ UNCHANGED <<rows, seen, history>>

(* The process of the pass ends, or closes the store under it.                  *)
Crash(p) ==
  /\ Event
  /\ phase[p] # "idle"
  /\ phase' = [phase EXCEPT ![p] = "idle"]
  /\ Drop(p)
  /\ seen' = IF p = Drain THEN 0 ELSE seen
  /\ UNCHANGED <<rows, history>>

(* leaseMs have gone by since the claim.                                        *)
Expire ==
  /\ \E k \in {lease[n].token : n \in {i \in Ids : lease[i].live}} :
       lease' = [n \in Ids |->
         IF lease[n].token = k THEN Stale(n) ELSE lease[n]]
  /\ UNCHANGED <<last, turns, createdAt, cursor, request, passes, history, events>>
-----------------------------------------------------------------------------
(* Plausible bug: the row is cleared whatever it says by now.                   *)
ClearAnyway == request' = 0

clearFactExtractionRequest == request' = IF request = seen THEN 0 ELSE request

(* After a clean pass the drain clears what it had listed, unless it was renewed;*)
(* after a failed one the row stays for the next sweep.                         *)
Serve ==
  /\ phase[Drain] \in {"clean", "failed"}
  /\ IF phase[Drain] = "clean" THEN clearFactExtractionRequest ELSE UNCHANGED request
  /\ phase' = [phase EXCEPT ![Drain] = "idle"]
  /\ seen' = 0
  /\ UNCHANGED <<last, turns, createdAt, cursor, lease, todo, token, history, events>>
-----------------------------------------------------------------------------
Init ==
  /\ last = 0 /\ turns = {} /\ createdAt = [n \in Ids |-> 0]
  /\ cursor = 0
  /\ lease = [n \in Ids |-> NoLease]
  /\ request = 0
  /\ phase = [p \in Pass |-> "idle"]
  /\ todo = [p \in Pass |-> {}]
  /\ token = [p \in Pass |-> NoToken]
  /\ seen = 0
  /\ handled = {}
  /\ extracted = [n \in Ids |-> 0]
  /\ heeded = FALSE
  /\ events = 0

Run(p) == ClaimNothing(p) \/ Claim(p) \/ Extract(p) \/ Skip(p) \/ Release(p)

Next ==
  \/ Append \/ Request \/ purgeQuarantined \/ deleteConversation \/ List \/ Serve \/ Expire
  \/ \E p \in Pass : Converse(p) \/ Run(p) \/ HarnessFails(p) \/ StoreFails(p) \/ Crash(p)

Spec == Init /\ [][Next]_vars

DrainLoop == List \/ Run(Drain) \/ Serve

(* The drain has its timer, a model answers or times out, and time passes.      *)
FairSpec ==
  /\ Spec
  /\ WF_vars(DrainLoop) /\ WF_vars(Expire)
  /\ \A p \in Pass \ {Drain} : WF_vars(Run(p))
-----------------------------------------------------------------------------
(* Properties. *)

TypeOK ==
  /\ last \in 0..MaxTurns /\ turns \subseteq 1..last /\ createdAt \in [Ids -> Nat]
  /\ \A n \in turns : createdAt[n] # 0
  /\ \A n \in Ids : createdAt[n] # 0 => n <= last
  /\ cursor \in 0..last
  /\ lease \in [Ids -> [token : Token \cup {NoToken}, live : BOOLEAN]]
  /\ request \in Nat /\ seen \in Nat
  /\ phase \in [Pass -> Phases]
  /\ todo \in [Pass -> SUBSET Ids]
  /\ token \in [Pass -> Token \cup {NoToken}]
  /\ handled \subseteq 1..last
  /\ extracted \in [Ids -> Nat]
  /\ heeded \in BOOLEAN /\ events \in Nat
  /\ \A p \in Pass : phase[p] \in Holding <=> token[p] # NoToken
  /\ \A p \in Pass : todo[p] # {} => phase[p] \in Holding

(* The facts of a turn are written once, although leases run out under passes   *)
(* that are still working, and turns are claimed again.                         *)
ExtractedOnce == \A n \in Ids : extracted[n] <= 1

(* Turns that were created after one that follows them in the table: it may     *)
(* leave the window before them, and the cursor passes them with it.            *)
Overtaken ==
  {n \in Ids : \E k \in Ids : k > n /\ 0 < createdAt[k] /\ createdAt[k] < createdAt[n]}

(* No other turn is lost behind the cursor: one that the cursor has passed has  *)
(* been handled or has a lease, by which it is found again.                     *)
NothingPassedOver ==
  \A n \in turns \ Overtaken : n <= cursor => n \in handled \/ Leased(n)

(* The inductive invariant of the proofs.                                       *)
LeasesKnown ==
  \A n \in Ids : Leased(n) =>
    n \in (turns \cup Quarantined) \ handled /\ n <= cursor /\ lease[n].token # NoToken
HandledPassed == \A n \in handled : n \in turns => n <= cursor
ExtractedHandled == \A n \in Ids : extracted[n] # 0 => n \in handled
Listed ==
  phase[Drain] # "idle" =>
    /\ 0 < seen /\ seen <= request
    /\ phase[Drain] \in Holding \cup {"clean"} /\ seen = request => heeded
IInv ==
  /\ TypeOK /\ ExtractedOnce
  /\ LeasesKnown /\ HandledPassed /\ ExtractedHandled /\ Listed

(* No facts are written from a turn that has been deleted, by a pass that was   *)
(* waiting for the model meanwhile.                                             *)
NothingFromDeleted == [][\A n \in Ids : extracted'[n] # extracted[n] => n \in turns]_vars

(* A request is cleared only by a drain that has claimed after the request was  *)
(* last renewed, so that the turn behind it has been looked at.                 *)
RequestHeeded == [][request # 0 /\ request' = 0 => heeded]_vars

(* While requests keep coming, everything that has left the window is handled,  *)
(* again and again, whatever crashed or failed on the way.                      *)
EvictedHandled == ([]<>(request # 0)) => []<>(Evicted \ Overtaken \subseteq handled)
=============================================================================
