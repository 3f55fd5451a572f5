------------------------------ MODULE TaskClaims ------------------------------
(* Scheduled tasks: `phantombot tick` (src/cli/tick.ts) and the task rows it    *)
(* claims (src/lib/tasks.ts).  A tick selects and claims due tasks under        *)
(* tick.lock, gives the lock up, runs its command tasks one after the other and *)
(* starts one detached child for each agent wake.  From then on the claim in    *)
(* the row is all that keeps another tick from firing the task again.           *)
(*                                                                             *)
(* A step is one SQLite transaction (or the lock call) with the computation     *)
(* around it.  Time is kept as ages, in units of which DefaultBudget make the   *)
(* 30 minutes of DEFAULT_CLAIM_BUDGET_MS; selection, start-up and the writes    *)
(* that end a run take milliseconds and are shorter than a unit.                *)
EXTENDS Integers, FiniteSets

CONSTANTS
  Pid,             \* pids; one is used again once its process has ended
  None,            \* no claim, no pid, no task
  Wake,            \* agent wake tasks
  Command,         \* command-backed tasks
  Persona,
  PersonaOf,       \* the persona of each task
  MaxRuns,         \* [Task -> Nat]: max_runs; 1 is a one-off, 0 is unlimited
  Period,          \* [Task -> Nat]: the longest distance between two fires
  Budget,          \* [Task -> Nat]: wake_timeout_s, or a command's timeout
  DefaultBudget,   \* DEFAULT_CLAIM_BUDGET_MS
  Ceiling,         \* MAX_DEFERRAL_MS
  MaxWakes,        \* tick.max_concurrent_wakes
  Reviewed,        \* wakes whose self-review may come due
  Chatty,          \* personas whose principal may be talking
  Fragile,         \* personas whose directory may disappear
  Cancellable,     \* tasks that a user may cancel, or whose expires_at may pass
  MaxWait,         \* time a claimed task may wait in its tick before it starts
  HandoffGap,      \* may a child be started without its claim being re-pointed?
  Awake,           \* does the timer fire in every unit, or may the machine sleep?
  MaxLag,          \* bound: beyond it a task's lateness is not counted on
  MaxFaults        \* bound: crashes, failed and refused dispatches

Task == Wake \cup Command

ASSUME TaskAssumption == /\ Wake \cap Command = {} /\ IsFiniteSet(Task)
                         /\ None \notin Task \cup Pid
                         /\ None \notin [age : Nat, pid : Pid, budget : Nat, asReview : BOOLEAN]
                         /\ Reviewed \subseteq Wake
                         /\ Cancellable \subseteq Task
                         /\ Chatty \cup Fragile \subseteq Persona
                         /\ PersonaOf \in [Task -> Persona]
ASSUME TimeAssumption == /\ MaxRuns \in [Task -> Nat]
                         /\ Period \in [Task -> Nat \ {0}]
                         /\ Budget \in [Task -> Nat \ {0}]
                         /\ {DefaultBudget, MaxWakes} \subseteq Nat \ {0}
                         /\ {Ceiling, MaxWait, MaxFaults, MaxLag} \subseteq Nat
                         /\ Ceiling <= MaxLag
                         /\ {HandoffGap, Awake} \subseteq BOOLEAN

VARIABLES
  active, lag, runs, claim, review,         \* the rows of the table tasks
  lock,                                     \* the holder of tick.lock
  pc, todo, lane, batch, job, asReview,     \* the processes
  since, left,
  talking, present,                         \* personas: registry, directories
  fired,                                    \* the timer has fired in this unit
  faults

rows == <<active, lag, runs, claim, review>>
world == <<talking, present, fired, faults>>
vars == <<rows, lock, pc, todo, lane, batch, job, asReview, since, left, world>>

PC == {"off", "begin", "sweep", "count", "select", "dispatch", "command", "ran",
       "boot", "found", "ready", "turn", "done"}

(* The longest TTL; no process lives longer than Life without a step. *)
TopBudget == CHOOSE b \in {Budget[t] : t \in Task} \cup {DefaultBudget} :
               \A c \in {Budget[t] : t \in Task} \cup {DefaultBudget} : c <= b
TopAge == 2 * TopBudget + 1
Life == MaxWait + TopBudget
TopPeriod == CHOOSE n \in {Period[t] : t \in Task} :
               \A m \in {Period[t] : t \in Task} : m <= n

(* claimed_at (as an age), pid and budget_ms; asReview is next_review_at <=     *)
(* claimed_at.  Lag is how long ago next_run_at was, negative before it.        *)
Claim == [age : 0..TopAge, pid : Pid, budget : {0, DefaultBudget} \cup {Budget[t] : t \in Task},
          asReview : BOOLEAN]

-----------------------------------------------------------------------------
(* Staleness of a claim. *)

Alive(p) == pc[p] # "off"

Larger(m, n) == IF m > n THEN m ELSE n
Smaller(m, n) == IF m < n THEN m ELSE n

(* Plausible bug: the fixed TTL of the binaries before #668. *)
TtlFixed(c) == 2 * DefaultBudget

claimStaleTtl(c) ==
  Larger(2 * DefaultBudget, 2 * (IF c.budget = 0 THEN DefaultBudget ELSE c.budget))

(* Plausible bug: a pid that reads alive keeps its claim for ever. *)
StaleByPid(c) == ~Alive(c.pid)

claimIsStale(c) == c.age > claimStaleTtl(c) \/ ~Alive(c.pid)

stale == {t \in Task : claim[t] # None /\ claimIsStale(claim[t])}
live == {t \in Task : claim[t] # None /\ ~claimIsStale(claim[t])}
due == {t \in Task : active[t] /\ lag[t] >= 0}

-----------------------------------------------------------------------------
(* Transactions of TaskStore. *)

(* Plausible bugs: claiming does not look at the claim in the row, or trusts    *)
(* the due list of the selection; a handoff leaves the old pid in the claim.    *)
ClaimOverLive(t) == t \in due
ClaimFromList(t) == t \notin live
AdoptNothing(t, p, b) == UNCHANGED claim

claimable(t) == t \in due \ live

claimForRun(t, p) ==
  claim' = [claim EXCEPT ![t] = [age |-> 0, pid |-> p, budget |-> 0,
                                 asReview |-> t \in review]]

adoptClaimPid(t, p, b) ==
  claim' = IF claim[t] = None THEN claim
           ELSE [claim EXCEPT ![t].pid = p, ![t].budget = IF b = 0 THEN @ ELSE b]

releaseClaim(t) == claim' = [claim EXCEPT ![t] = None]

(* Plausible bugs: an off-by-one at max_runs, and a next fire on the wrong side. *)
RecordOneMore(t, p) ==
  /\ runs' = [runs EXCEPT ![t] = IF MaxRuns[t] = 0 THEN 0 ELSE @ + 1]
  /\ active' = [active EXCEPT ![t] = ~(MaxRuns[t] > 0 /\ runs[t] >= MaxRuns[t])]
  /\ UNCHANGED <<lag, review>>
RecordBehind(t, p) ==
  /\ lag' = [lag EXCEPT ![t] = since[p] + Period[t]]
  /\ UNCHANGED <<active, runs, review>>

(* now is the instant the process read its clock, since[p] units ago.  The next *)
(* fire is the first of the schedule after that instant.  No schedule is finer  *)
(* than a unit.                                                                 *)
recordRun(t, p) ==
  /\ runs' = [runs EXCEPT ![t] = IF MaxRuns[t] = 0 THEN 0 ELSE @ + 1]
  /\ IF MaxRuns[t] > 0 /\ runs[t] + 1 >= MaxRuns[t]
       THEN active' = [active EXCEPT ![t] = FALSE] /\ UNCHANGED lag
       ELSE /\ \E d \in 1..Period[t] : lag' = [lag EXCEPT ![t] = Smaller(since[p] - d, MaxLag)]
            /\ UNCHANGED active
  /\ UNCHANGED review

(* The next fire stays where it is. *)
recordReview(t) ==
  /\ \/ active' = [active EXCEPT ![t] = FALSE] /\ UNCHANGED review
     \/ review' = review \ {t} /\ UNCHANGED active
  /\ UNCHANGED <<lag, runs>>

-----------------------------------------------------------------------------
(* Phase A of runTick, under tick.lock. *)

Goto(p, l) == pc' = [pc EXCEPT ![p] = l]
Todo(p, S) == todo' = [todo EXCEPT ![p] = S]

(* A process that ends forgets everything; the kernel drops its flock. *)
End(p) ==
  /\ Goto(p, "off")
  /\ Todo(p, {})
  /\ lane' = [lane EXCEPT ![p] = {}]
  /\ batch' = [batch EXCEPT ![p] = {}]
  /\ job' = [job EXCEPT ![p] = None]
  /\ asReview' = [asReview EXCEPT ![p] = FALSE]
  /\ since' = [since EXCEPT ![p] = 0]
  /\ left' = [left EXCEPT ![p] = 0]
  /\ lock' = IF lock = p THEN None ELSE lock

(* The timer fires, and the tick reads its clock.  While another tick selects,  *)
(* acquireRunLock fails and the tick returns: nothing happens.                  *)
Start(p) ==
  /\ pc[p] = "off" /\ lock = None
  /\ lock' = p
  /\ Goto(p, "begin")
  /\ fired' = Awake
  /\ UNCHANGED <<rows, todo, lane, batch, job, asReview, since, left, talking, present, faults>>

ListStale(p) ==
  /\ pc[p] = "begin"
  /\ Todo(p, stale)
  /\ Goto(p, "sweep")
  /\ UNCHANGED <<rows, lock, lane, batch, job, asReview, since, left, world>>

Sweep(p, t) ==
  /\ pc[p] = "sweep" /\ t \in todo[p]
  /\ releaseClaim(t)
  /\ Todo(p, todo[p] \ {t})
  /\ UNCHANGED <<active, lag, runs, review, lock, pc, lane, batch, job, asReview,
                 since, left, world>>

ListDue(p) ==
  /\ pc[p] = "sweep" /\ todo[p] = {}
  /\ IF due = {} THEN End(p)
     ELSE /\ Goto(p, "count")
          /\ Todo(p, due)
          /\ UNCHANGED <<lock, lane, batch, job, asReview, since, left>>
  /\ UNCHANGED <<rows, world>>

CountLive(p) ==
  /\ pc[p] = "count"
  /\ lane' = [lane EXCEPT ![p] = live \cap Wake]
  /\ Goto(p, "select")
  /\ UNCHANGED <<rows, lock, todo, batch, job, asReview, since, left, world>>

(* Command tasks first, then by next_run_at. *)
Candidate(p, t) ==
  /\ pc[p] = "select" /\ t \in todo[p]
  /\ \A u \in todo[p] \ {t} :
       \/ t \in Command /\ u \in Wake
       \/ (t \in Command <=> u \in Command) /\ lag[t] >= lag[u]

(* Plausible bug: a due wake is put off as long as the principal talks. *)
DeferWhileTalking(t) == PersonaOf[t] \in talking

shouldDeferWake(t) == lag[t] < Ceiling /\ PersonaOf[t] \in talking

inFlight(p, t) == {u \in lane[p] : PersonaOf[u] = PersonaOf[t]}

(* Plausible bug: the cap compares with > . *)
AboveCap(p, t) == t \in Wake /\ Cardinality(inFlight(p, t)) > MaxWakes
atCap(p, t) == t \in Wake /\ Cardinality(inFlight(p, t)) >= MaxWakes

(* Deferred, at the wake cap of its persona, or refused by claimForRun. *)
Skip(p, t) ==
  /\ Candidate(p, t)
  /\ \/ shouldDeferWake(t)
     \/ /\ PersonaOf[t] \in present
        /\ atCap(p, t) \/ ~claimable(t)
  /\ Todo(p, todo[p] \ {t})
  /\ UNCHANGED <<rows, lock, pc, lane, batch, job, asReview, since, left, world>>

Orphan(p, t) ==
  /\ Candidate(p, t) /\ ~shouldDeferWake(t) /\ PersonaOf[t] \notin present
  /\ active' = [active EXCEPT ![t] = FALSE]
  /\ Todo(p, todo[p] \ {t})
  /\ UNCHANGED <<lag, runs, claim, review, lock, pc, lane, batch, job, asReview,
                 since, left, world>>

Take(p, t) ==
  /\ Candidate(p, t) /\ ~shouldDeferWake(t) /\ PersonaOf[t] \in present
  /\ ~atCap(p, t) /\ claimable(t)
  /\ claimForRun(t, p)
  /\ batch' = [batch EXCEPT ![p] = @ \cup {t}]
  /\ lane' = [lane EXCEPT ![p] = @ \cup ({t} \cap Wake)]
  /\ Todo(p, todo[p] \ {t})
  /\ UNCHANGED <<active, lag, runs, review, lock, pc, job, asReview, since, left, world>>

EndSelection(p) ==
  /\ pc[p] = "select" /\ todo[p] = {}
  /\ IF batch[p] = {} THEN End(p)
     ELSE /\ lock' = None
          /\ Goto(p, "dispatch")
          /\ lane' = [lane EXCEPT ![p] = {}]
          /\ UNCHANGED <<todo, batch, job, asReview, since, left>>
  /\ UNCHANGED <<rows, world>>

-----------------------------------------------------------------------------
(* Phase B of runTick, lock-free. *)

Unbatch(p, t) == batch' = [batch EXCEPT ![p] = @ \ {t}]

(* Only now does the claim of a command carry its budget. *)
RunCommand(p, t) ==
  /\ pc[p] = "dispatch" /\ t \in batch[p] \cap Command
  /\ adoptClaimPid(t, p, Budget[t])
  /\ Unbatch(p, t)
  /\ job' = [job EXCEPT ![p] = t]
  /\ left' = [left EXCEPT ![p] = Budget[t]]
  /\ Goto(p, "command")
  /\ UNCHANGED <<active, lag, runs, review, lock, todo, lane, asReview, since, world>>

(* The command ended, failed, or was killed at its timeout. *)
RecordCommand(p) ==
  /\ pc[p] = "command"
  /\ recordRun(job[p], p)
  /\ left' = [left EXCEPT ![p] = 0]
  /\ Goto(p, "ran")
  /\ UNCHANGED <<claim, lock, todo, lane, batch, job, asReview, since, world>>

ReleaseCommand(p) ==
  /\ pc[p] = "ran"
  /\ releaseClaim(job[p])
  /\ job' = [job EXCEPT ![p] = None]
  /\ Goto(p, "dispatch")
  /\ UNCHANGED <<active, lag, runs, review, lock, todo, lane, batch, asReview, since,
                 left, world>>

Dispatching(p, t) == pc[p] = "dispatch" /\ batch[p] \subseteq Wake /\ t \in batch[p]

Child(r, t) ==
  /\ pc[r] = "off"
  /\ Goto(r, "boot")
  /\ job' = [job EXCEPT ![r] = t]

(* spawn, then adoption of the child's pid: two statements with no await.  *)
Spawn(p, t, r) ==
  /\ Dispatching(p, t)
  /\ Child(r, t)
  /\ adoptClaimPid(t, r, 0)
  /\ Unbatch(p, t)
  /\ UNCHANGED <<active, lag, runs, review, lock, todo, lane, asReview, since, left, world>>

(* The child runs, but the claim still names the tick: the tick was killed      *)
(* between the two statements, or the plain retry of a failed systemd-run came  *)
(* after the store was closed.                                                  *)
SpawnUnadopted(p, t, r) ==
  /\ HandoffGap
  /\ Dispatching(p, t)
  /\ Child(r, t)
  /\ Unbatch(p, t)
  /\ UNCHANGED <<rows, lock, todo, lane, asReview, since, left, world>>

(* No user bus, or the dispatch threw: the claim goes.  spawn failed, or the    *)
(* scope never came up: it stays with a pid that is about to be dead.           *)
SpawnFails(p, t) ==
  /\ Dispatching(p, t)
  /\ faults < MaxFaults
  /\ releaseClaim(t) \/ UNCHANGED claim
  /\ faults' = faults + 1
  /\ Unbatch(p, t)
  /\ UNCHANGED <<active, lag, runs, review, lock, pc, todo, lane, job, asReview, since,
                 left, talking, present, fired>>

Exit(p) ==
  /\ pc[p] = "dispatch" /\ batch[p] = {}
  /\ End(p)
  /\ UNCHANGED <<rows, world>>

-----------------------------------------------------------------------------
(* runTaskWake, in the child. *)

(* The row is read once; a child whose row is inactive leaves the claim alone.  *)
BootInactive(r) ==
  /\ pc[r] = "boot" /\ ~active[job[r]]
  /\ End(r)
  /\ UNCHANGED <<rows, world>>

(* Whether this run is a review follows from the claim as it was read.          *)
ReadRow(r) ==
  /\ pc[r] = "boot" /\ active[job[r]]
  /\ asReview' = [asReview EXCEPT ![r] =
       IF claim[job[r]] = None THEN job[r] \in review ELSE claim[job[r]].asReview]
  /\ Goto(r, "found")
  /\ UNCHANGED <<rows, lock, todo, lane, batch, job, since, left, world>>

(* The child adopts the claim that the row has by now.  One whose persona is    *)
(* gone then drops it.                                                          *)
Boot(r) ==
  /\ pc[r] = "found" /\ PersonaOf[job[r]] \in present
  /\ adoptClaimPid(job[r], r, 0)
  /\ Goto(r, "ready")
  /\ UNCHANGED <<active, lag, runs, review, lock, todo, lane, batch, job, asReview, since,
                 left, world>>

BootOrphan(r) ==
  /\ pc[r] = "found" /\ PersonaOf[job[r]] \notin present
  /\ releaseClaim(job[r])
  /\ End(r)
  /\ UNCHANGED <<active, lag, runs, review, world>>

RunWake(r) ==
  /\ pc[r] = "ready"
  /\ adoptClaimPid(job[r], r, Budget[job[r]])
  /\ left' = [left EXCEPT ![r] = Budget[job[r]]]
  /\ Goto(r, "turn")
  /\ UNCHANGED <<active, lag, runs, review, lock, todo, lane, batch, job, asReview,
                 since, world>>

(* The turn ended, failed, was held by the threat screen or ran out of budget;  *)
(* the record is written before the claim goes.                                 *)
RecordWake(r) ==
  /\ pc[r] = "turn"
  /\ IF asReview[r] THEN recordReview(job[r]) ELSE recordRun(job[r], r)
  /\ left' = [left EXCEPT ![r] = 0]
  /\ Goto(r, "done")
  /\ UNCHANGED <<claim, lock, todo, lane, batch, job, asReview, since, world>>

ReleaseWake(r) ==
  /\ pc[r] = "done"
  /\ releaseClaim(job[r])
  /\ End(r)
  /\ UNCHANGED <<active, lag, runs, review, world>>

-----------------------------------------------------------------------------
(* The environment. *)

Crash(p) ==
  /\ Alive(p)
  /\ faults < MaxFaults
  /\ faults' = faults + 1
  /\ End(p)
  /\ UNCHANGED <<rows, talking, present, fired>>

(* `task cancel`, or expires_at found passed by the next tick. *)
Cancel(t) ==
  /\ t \in Cancellable /\ active[t]
  /\ active' = [active EXCEPT ![t] = FALSE]
  /\ UNCHANGED <<lag, runs, claim, review, lock, pc, todo, lane, batch, job, asReview,
                 since, left, world>>

ReviewComesDue(t) ==
  /\ t \in Reviewed \ review
  /\ review' = review \cup {t}
  /\ UNCHANGED <<active, lag, runs, claim, lock, pc, todo, lane, batch, job, asReview,
                 since, left, world>>

Talk(q) ==
  /\ q \in Chatty
  /\ talking' = IF q \in talking THEN talking \ {q} ELSE talking \cup {q}
  /\ UNCHANGED <<rows, lock, pc, todo, lane, batch, job, asReview, since, left,
                 present, fired, faults>>

Remove(q) ==
  /\ q \in Fragile \cap present
  /\ present' = present \ {q}
  /\ UNCHANGED <<rows, lock, pc, todo, lane, batch, job, asReview, since, left,
                 talking, fired, faults>>

(* Time passes for everyone while commands and turns run: selection, dispatch,  *)
(* the start of a child and the record of its end take milliseconds to seconds. *)
(* No run outlives its budget (the kill), and no task waits in its tick, behind *)
(* the commands that go first, for more than MaxWait.                           *)
Tick ==
  /\ Awake => fired
  /\ \A p \in Pid : /\ pc[p] \in {"off", "command", "turn"}
                    /\ Alive(p) => left[p] > 0
                    /\ batch[p] # {} => since[p] < MaxWait
  /\ since' = [p \in Pid |-> IF Alive(p) THEN since[p] + 1 ELSE 0]
  /\ left' = [p \in Pid |-> IF pc[p] \in {"command", "turn"} THEN left[p] - 1 ELSE 0]
  /\ lag' = [t \in Task |-> Smaller(lag[t] + 1, MaxLag)]
  /\ claim' = [t \in Task |-> IF claim[t] = None THEN None
                 ELSE [claim[t] EXCEPT !.age = Smaller(@ + 1, TopAge)]]
  /\ fired' = FALSE
  /\ UNCHANGED <<active, runs, review, lock, pc, todo, lane, batch, job, asReview,
                 talking, present, faults>>

-----------------------------------------------------------------------------
Init ==
  /\ active = [t \in Task |-> TRUE]
  /\ lag = [t \in Task |-> 0]
  /\ runs = [t \in Task |-> 0]
  /\ claim = [t \in Task |-> None]
  /\ review = {}
  /\ lock = None
  /\ pc = [p \in Pid |-> "off"]
  /\ todo = [p \in Pid |-> {}]
  /\ lane = [p \in Pid |-> {}]
  /\ batch = [p \in Pid |-> {}]
  /\ job = [p \in Pid |-> None]
  /\ asReview = [p \in Pid |-> FALSE]
  /\ since = [p \in Pid |-> 0]
  /\ left = [p \in Pid |-> 0]
  /\ talking = {}
  /\ present = Persona
  /\ fired = FALSE
  /\ faults = 0

(* What a process does by itself, once started. *)
Act(p) ==
  \/ ListStale(p) \/ ListDue(p) \/ CountLive(p) \/ EndSelection(p)
  \/ RecordCommand(p) \/ ReleaseCommand(p) \/ Exit(p)
  \/ ReadRow(p) \/ Boot(p) \/ BootInactive(p) \/ BootOrphan(p) \/ RunWake(p)
  \/ RecordWake(p) \/ ReleaseWake(p)
  \/ \E t \in Task : \/ Sweep(p, t) \/ Skip(p, t) \/ Orphan(p, t) \/ Take(p, t)
                     \/ RunCommand(p, t)
                     \/ \E r \in Pid : Spawn(p, t, r)

Environment ==
  \/ \E p \in Pid : Crash(p)
  \/ \E p \in Pid, t \in Task : SpawnFails(p, t) \/ \E r \in Pid : SpawnUnadopted(p, t, r)
  \/ \E t \in Task : Cancel(t) \/ ReviewComesDue(t)
  \/ \E q \in Persona : Talk(q) \/ Remove(q)

Next ==
  \/ \E p \in Pid : Start(p) \/ Act(p)
  \/ Tick
  \/ Environment

Spec == Init /\ [][Next]_vars

(* The timer keeps firing, time passes, and a running process does not stop for *)
(* ever between two steps.  Strong fairness, since the model has few pids: a    *)
(* spawn waits for a free one, and a step for the process that has it.          *)
FairSpec ==
  /\ Spec
  /\ \A p \in Pid : SF_vars(Act(p))
  /\ SF_vars(\E p \in Pid : Start(p))
  /\ SF_vars(Tick)

-----------------------------------------------------------------------------
(* Properties. *)

(* Every variable has its type; a claim's pid is one of the pids. *)
TypeOK ==
  /\ active \in [Task -> BOOLEAN]
  /\ lag \in [Task -> -TopPeriod..MaxLag]
  /\ runs \in [Task -> Nat]
  /\ claim \in [Task -> Claim \cup {None}]
  /\ review \subseteq Task
  /\ lock \in Pid \cup {None}
  /\ pc \in [Pid -> PC]
  /\ todo \in [Pid -> SUBSET Task]
  /\ lane \in [Pid -> SUBSET Wake]
  /\ batch \in [Pid -> SUBSET Task]
  /\ job \in [Pid -> Task \cup {None}]
  /\ asReview \in [Pid -> BOOLEAN]
  /\ since \in [Pid -> 0..Life]
  /\ left \in [Pid -> 0..TopBudget]
  /\ talking \subseteq Persona
  /\ present \subseteq Persona
  /\ fired \in BOOLEAN
  /\ faults \in 0..MaxFaults

Running(p) == pc[p] \in {"command", "ready", "turn"}

(* A task is never run by two processes at once: the claim, not the lock, keeps *)
(* a second tick from firing a task whose run is still in flight, whatever      *)
(* dies in between.                                                             *)
OneRun ==
  \A p, q \in Pid : Running(p) /\ Running(q) /\ job[p] = job[q] => p = q

Owns(p, t) == t \in batch[p] \/ job[p] = t

(* From claimForRun to releaseClaim the row's claim names the process that has  *)
(* the task in hand (the tick that queued it, then the command's tick or the    *)
(* wake's child), so a sweep always probes the process that does the work.      *)
Follows(p, t) == Owns(p, t) => claim[t] # None /\ claim[t].pid = p
ClaimFollowsRunner == \A p \in Pid, t \in Task : Follows(p, t)

(* A one-off is recorded once and max_runs is never exceeded, with crashes,     *)
(* reviews and overlapping ticks.                                               *)
Capped(t) == MaxRuns[t] > 0 => runs[t] <= MaxRuns[t]
RunsCapped == \A t \in Task : Capped(t)

InWake == {"boot", "found", "ready", "turn", "done"}

(* Ticks that overlap never together start more wakes of a persona than the cap.*)
WakesCapped ==
  \A q \in Persona :
    Cardinality({p \in Pid : pc[p] \in InWake /\ PersonaOf[job[p]] = q}) <= MaxWakes

(* The tasks whose claims hold: a claim outlasts the wait of the task in its     *)
(* batch and the run, and no child is started without it.                       *)
Firm ==
  {t \in Task : /\ MaxWait <= 2 * DefaultBudget
                /\ MaxWait + Budget[t] <= Larger(2 * DefaultBudget, 2 * Budget[t])
                /\ HandoffGap => t \in Command}

(* The inductive invariant of the proofs.  One tick selects at a time.          *)
LockHeld == \A p \in Pid : lock = p <=> pc[p] \in {"begin", "sweep", "count", "select"}

InHand == \A p \in Pid :
  /\ job[p] # None <=> pc[p] \in {"command", "ran"} \cup InWake
  /\ pc[p] \in InWake => job[p] \in Wake
  /\ batch[p] # {} => pc[p] \in {"select", "dispatch", "command", "ran"}
  /\ job[p] \notin batch[p]

(* A clock was read at the start, and no run is longer than its budget.         *)
Clocks == \A p \in Pid :
  /\ pc[p] \in {"off", "begin", "sweep", "count", "select", "boot", "found", "ready"} => since[p] = 0
  /\ pc[p] \notin {"command", "turn"} => left[p] = 0
  /\ batch[p] # {} => since[p] <= MaxWait
  /\ pc[p] \in {"command", "turn"} => since[p] + left[p] <= MaxWait + Budget[job[p]]

(* A claim in hand is no older than the wait and the run so far.                *)
Timely == \A p \in Pid, t \in Firm :
  /\ t \in batch[p] => claim[t].age <= since[p]
  /\ job[p] = t => IF pc[p] \in {"boot", "found", "ready"}
                     THEN claim[t].age <= MaxWait
                     ELSE /\ claim[t].budget = Budget[t]
                          /\ claim[t].age + left[p] <= MaxWait + Budget[t]

(* What is in hand and not recorded yet is due and below max_runs.              *)
Due(t) == lag[t] >= 0 /\ (MaxRuns[t] > 0 => runs[t] < MaxRuns[t])
Outstanding ==
  /\ \A t \in Task : active[t] /\ MaxRuns[t] > 0 => runs[t] < MaxRuns[t]
  /\ \A p \in Pid, t \in Firm :
       t \in batch[p] \/ (job[p] = t /\ pc[p] \notin {"ran", "done"}) => Due(t)

(* A sweep releases nothing that is in hand, and the wake cap counts it all.    *)
Taken == {t \in Firm : \E p \in Pid : Owns(p, t)}
SweptFree == \A p \in Pid : pc[p] = "sweep" => todo[p] \cap Taken = {}
Counted == \A p \in Pid : pc[p] = "select" => Taken \cap Wake \subseteq lane[p]
LanesCapped ==
  \A q \in Persona : Cardinality({t \in Taken \cap Wake : PersonaOf[t] = q}) <= MaxWakes

IInv ==
  /\ TypeOK /\ LockHeld /\ InHand /\ Clocks
  /\ \A t \in Firm : Capped(t) /\ \A p \in Pid : Follows(p, t)
  /\ Timely /\ Outstanding /\ SweptFree /\ Counted /\ LanesCapped

(* The turn of a wake, or a command, starts only while its fire is outstanding: *)
(* a run that was recorded is not fired again before its next fire, nor beyond  *)
(* max_runs, even if the process died before it released the claim.  (Whether   *)
(* the task is still active is read when it is claimed and when a wake boots;   *)
(* one that is cancelled after that still runs.)                                *)
StartsWhenDue ==
  [][\A p \in Pid : ~Running(p) /\ Running(p)' =>
       LET t == job'[p] IN lag[t] >= 0 /\ (MaxRuns[t] > 0 => runs[t] < MaxRuns[t])]_vars

(* A due task is run or deactivated in the end: neither a conversation that     *)
(* never stops, nor the wake cap, nor the claim of a dead process holds it back *)
(* for ever.                                                                    *)
DueTaskRuns ==
  \A t \in Task :
    (active[t] /\ lag[t] >= 0) ~> (~active[t] \/ \E p \in Pid : job[p] = t /\ Running(p))

(* Every claim goes in the end, although the pid of a dead owner may be used    *)
(* again and again and then reads alive.                                        *)
ClaimsEnd == \A t \in Task : claim[t] # None ~> claim[t] = None
=============================================================================
