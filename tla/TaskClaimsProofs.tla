---------------------------- MODULE TaskClaimsProofs ----------------------------
(* What the claims of TaskClaims promise of any tasks, budgets, pids, crashes    *)
(* and overlapping ticks: the invariant IInv, and what follows from it.         *)
EXTENDS TaskClaims, FiniteSetTheorems, WellFoundedInduction, TLAPS

(* All claims hold.  Where a claim does not outlast the wait of its task and the *)
(* run, or a child is started without its claim, finding 1 and the notes on the  *)
(* scheduler in the README show what happens.                                    *)
Orderly == Firm = Task

(* The parts of the invariant that are about firm claims.                       *)
HandHeld == Timely /\ \A t \in Firm, p \in Pid : Follows(p, t)
DueHeld == Outstanding /\ \A t \in Firm : Capped(t)
-----------------------------------------------------------------------------
(* Constants. *)

(* The assumptions on the constants, one by one.                                *)
LEMMA Constants ==
  /\ MaxWait \in Nat /\ MaxLag \in Nat /\ MaxFaults \in Nat /\ HandoffGap \in BOOLEAN /\ Awake \in BOOLEAN
  /\ DefaultBudget \in Nat \ {0} /\ MaxWakes \in Nat \ {0}
  /\ MaxRuns \in [Task -> Nat] /\ Period \in [Task -> Nat \ {0}] /\ Budget \in [Task -> Nat \ {0}]
  /\ \A t \in Task : MaxRuns[t] \in Nat /\ Period[t] \in Nat /\ Budget[t] \in Nat /\ Budget[t] # 0
  BY TimeAssumption

(* A finite set of numbers has a largest one: the one with the fewest above.    *)
LEMMA Largest ==
  ASSUME NEW S \in SUBSET Nat, S # {}, IsFiniteSet(S)
  PROVE  \E b \in S : \A c \in S : c <= b
<1> DEFINE Above(m) == {s \in S : s > m}
           R == OpToRel(<, Nat)
           Counts == {Cardinality(Above(m)) : m \in S}
<1>1. \A m \in S : IsFiniteSet(Above(m)) /\ Cardinality(Above(m)) \in Nat
  <2> TAKE m \in S
  <2>1. IsFiniteSet(Above(m))
    BY FS_Subset
  <2> QED BY <2>1, FS_CardinalityType
<1>2. IsWellFoundedOn(R, Nat)
  BY NatLessThanWellFounded
<1>3. \A a, b \in Nat : a < b => <<a, b>> \in R
  BY DEF OpToRel
<1>4. Counts \in SUBSET Nat /\ Counts # {}
  <2>1. PICK m \in S : TRUE
    OBVIOUS
  <2>2. Cardinality(Above(m)) \in Counts
    BY Zenon
  <2> QED BY <1>1, <2>2
<1>a. \A m \in S : Cardinality(Above(m)) \in Counts
  BY Zenon
<1>b. \A k \in Counts : \E m \in S : Cardinality(Above(m)) = k
  OBVIOUS
<1> HIDE DEF R, Counts
<1>5. PICK n \in Counts : \A k \in Counts : <<k, n>> \notin R
  BY <1>2, <1>4, WFMin
<1>6. PICK b \in S : Cardinality(Above(b)) = n
  BY <1>b
<1>7. ASSUME NEW c \in S, ~(c <= b) PROVE FALSE
  <2>1. c \in Nat /\ b \in Nat
    BY <1>6
  <2>2. Above(c) \subseteq Above(b) /\ c \in Above(b) /\ c \notin Above(c)
    <3>1. c > b /\ ~(c > c)
      BY <1>7, <2>1
    <3>2. \A s \in S : s > c => s > b
      <4> TAKE s \in S
      <4>1. s \in Nat
        OBVIOUS
      <4> QED BY <2>1, <3>1, <4>1
    <3> QED BY <3>1, <3>2
  <2>3. Cardinality(Above(c)) <= Cardinality(Above(b)) /\ Cardinality(Above(c)) # Cardinality(Above(b))
    BY <1>1, <1>6, <2>2, FS_Subset
  <2>4. Cardinality(Above(c)) < n
    BY <1>1, <1>6, <2>3
  <2>5. Cardinality(Above(c)) \in Counts
    BY <1>a
  <2>6. Cardinality(Above(c)) \in Nat /\ n \in Nat
    BY <1>4, <1>5, <2>5
  <2> HIDE DEF Above
  <2> QED BY <1>3, <1>5, <2>4, <2>5, <2>6
<1>8. \A c \in S : c <= b
  BY <1>7
<1> QED BY <1>6, <1>8

(* A function on tasks has a largest value.                                     *)
LEMMA LargestValue ==
  ASSUME NEW f \in [Task -> Nat]
  PROVE  IsFiniteSet({f[t] : t \in Task}) /\ {f[t] : t \in Task} \in SUBSET Nat
<1>1. f \in Surjection(Task, {f[t] : t \in Task})
  BY DEF Surjection
<1> QED BY <1>1, FS_Surjection, TaskAssumption

(* The longest budget bounds every budget, what is left of a run and every age. *)
LEMMA Budgets ==
  /\ TopBudget \in Nat /\ DefaultBudget <= TopBudget
  /\ \A t \in Task : Budget[t] <= TopBudget
  /\ TopAge \in Nat /\ Life \in Nat
<1> DEFINE S == {Budget[t] : t \in Task}
<1>1. IsFiniteSet(S) /\ S \in SUBSET Nat
  BY LargestValue, Constants
<1>2. IsFiniteSet(S \cup {DefaultBudget}) /\ S \cup {DefaultBudget} \in SUBSET Nat
  BY <1>1, FS_AddElement, Constants
<1>3. \E b \in S \cup {DefaultBudget} : \A c \in S \cup {DefaultBudget} : c <= b
  BY <1>2, Largest
<1>4. TopBudget \in S \cup {DefaultBudget} /\ \A c \in S \cup {DefaultBudget} : c <= TopBudget
  BY <1>3 DEF TopBudget
<1> QED BY <1>2, <1>4, Constants DEF TopAge, Life

(* The longest period bounds every period.                                      *)
LEMMA Periods == \A t \in Task : TopPeriod \in Nat /\ Period[t] <= TopPeriod
<1> SUFFICES ASSUME NEW t \in Task PROVE TopPeriod \in Nat /\ Period[t] <= TopPeriod
  OBVIOUS
<1> DEFINE S == {Period[u] : u \in Task}
<1>1. IsFiniteSet(S) /\ S \in SUBSET Nat /\ S # {}
  BY LargestValue, Constants
<1>2. \E b \in S : \A c \in S : c <= b
  BY <1>1, Largest
<1>3. TopPeriod \in S /\ \A c \in S : c <= TopPeriod
  BY <1>2 DEF TopPeriod
<1> QED BY <1>1, <1>3
-----------------------------------------------------------------------------
(* What the transactions do to the claims. *)

Claims == [Task -> Claim \cup {None}]

(* What a claim consists of.                                                    *)
LEMMA ClaimFields ==
  /\ None \notin Claim
  /\ \A c \in Claim : c.age \in Nat /\ c.age <= TopAge /\ c.pid \in Pid /\ c.budget \in Nat
<1>1. \A c \in Claim : c \in [age : Nat, pid : Pid, budget : Nat, asReview : BOOLEAN] /\ c.age <= TopAge
  BY Budgets, Constants DEF Claim
<1> QED BY <1>1, TaskAssumption

(* Re-pointing claims at a process gives claims.                                *)
LEMMA Adopted ==
  ASSUME claim \in Claims, NEW t \in Task, NEW p \in Pid,
         NEW b \in {0} \cup {Budget[u] : u \in Task}, adoptClaimPid(t, p, b)
  PROVE  /\ claim' \in Claims
         /\ \A u \in Task : u # t => claim'[u] = claim[u]
         /\ claim[t] = None => claim'[t] = None
         /\ claim[t] # None =>
              /\ claim'[t] # None /\ claim'[t].pid = p /\ claim'[t].age = claim[t].age
              /\ claim'[t].budget = IF b = 0 THEN claim[t].budget ELSE b
<1>1. CASE claim[t] = None
  BY <1>1 DEF adoptClaimPid
<1>2. CASE claim[t] # None
  <2> DEFINE c == [claim[t] EXCEPT !.pid = p, !.budget = IF b = 0 THEN @ ELSE b]
  <2>1. claim[t] \in Claim
    BY <1>2 DEF Claims
  <2>2. c \in Claim /\ c.pid = p /\ c.age = claim[t].age
        /\ c.budget = IF b = 0 THEN claim[t].budget ELSE b
    BY <2>1 DEF Claim
  <2>3. claim' = [claim EXCEPT ![t] = c]
    BY <1>2 DEF adoptClaimPid, Claims
  <2>4. c # None
    BY <2>2, ClaimFields
  <2> HIDE DEF c
  <2> QED BY <1>2, <2>2, <2>3, <2>4 DEF Claims
<1> QED BY <1>1, <1>2

(* claimForRun gives a claim of the tick.                                       *)
LEMMA Claimed ==
  ASSUME claim \in Claims, NEW t \in Task, NEW p \in Pid, claimForRun(t, p)
  PROVE  /\ claim' \in Claims
         /\ \A u \in Task : u # t => claim'[u] = claim[u]
         /\ claim'[t] # None /\ claim'[t].pid = p /\ claim'[t].age = 0
<1> DEFINE c == [age |-> 0, pid |-> p, budget |-> 0, asReview |-> t \in review]
<1>1. c \in Claim /\ c.pid = p /\ c.age = 0
  <2>1. (t \in review) \in BOOLEAN
    OBVIOUS
  <2>2. 0 \in 0..TopAge
    BY Budgets
  <2> QED BY <2>1, <2>2 DEF Claim
<1>2. c # None
  BY <1>1, ClaimFields
<1>3. claim' = [claim EXCEPT ![t] = c]
  BY DEF claimForRun
<1> HIDE DEF c
<1> QED BY <1>1, <1>2, <1>3 DEF Claims

(* Releasing a claim leaves claims.                                             *)
LEMMA Released ==
  ASSUME claim \in Claims, NEW t \in Task, releaseClaim(t)
  PROVE  /\ claim' \in Claims /\ claim'[t] = None
         /\ \A u \in Task : u # t => claim'[u] = claim[u]
  BY DEF releaseClaim, Claims
-----------------------------------------------------------------------------
(* Types. *)

(* The invariant types the variables.                                           *)
LEMMA Types == IInv => TypeOK /\ claim \in Claims
  BY DEF IInv, TypeOK, Claims

(* A process that ends is typed.                                                *)
LEMMA Ended ==
  ASSUME TypeOK, NEW p \in Pid, End(p)
  PROVE  /\ pc' \in [Pid -> PC] /\ todo' \in [Pid -> SUBSET Task] /\ lane' \in [Pid -> SUBSET Wake]
         /\ batch' \in [Pid -> SUBSET Task] /\ job' \in [Pid -> Task \cup {None}]
         /\ asReview' \in [Pid -> BOOLEAN] /\ since' \in [Pid -> 0..Life]
         /\ left' \in [Pid -> 0..TopBudget] /\ lock' \in Pid \cup {None}
  BY Budgets DEF TypeOK, End, Goto, Todo, PC

(* recordRun leaves typed rows.                                                 *)
LEMMA Recorded ==
  ASSUME TypeOK, NEW p \in Pid, NEW t \in Task, recordRun(t, p)
  PROVE  /\ runs' \in [Task -> Nat] /\ active' \in [Task -> BOOLEAN]
         /\ lag' \in [Task -> -TopPeriod..MaxLag] /\ review' = review
<1>1. since[p] \in Nat /\ TopPeriod \in Nat /\ Period[t] \in Nat /\ Period[t] <= TopPeriod
  BY Periods, Constants, Budgets DEF TypeOK
<1>2. \A d \in 1..Period[t] : Smaller(since[p] - d, MaxLag) \in -TopPeriod..MaxLag
  <2> SUFFICES ASSUME NEW d \in 1..Period[t] PROVE Smaller(since[p] - d, MaxLag) \in -TopPeriod..MaxLag
    OBVIOUS
  <2>1. since[p] - d \in Int /\ since[p] - d >= -TopPeriod /\ -TopPeriod <= MaxLag /\ MaxLag \in Nat
    BY <1>1, Constants
  <2> QED BY <2>1, <1>1 DEF Smaller
<1>3. MaxRuns[t] \in Nat /\ runs[t] \in Nat
  BY Constants DEF TypeOK
<1>4. runs' \in [Task -> Nat] /\ review' = review
  BY <1>3 DEF recordRun, TypeOK
<1>5. active' \in [Task -> BOOLEAN] /\ lag' \in [Task -> -TopPeriod..MaxLag]
  <2>1. CASE MaxRuns[t] > 0 /\ runs[t] + 1 >= MaxRuns[t]
    BY <2>1 DEF recordRun, TypeOK
  <2>2. CASE ~(MaxRuns[t] > 0 /\ runs[t] + 1 >= MaxRuns[t])
    <3>1. PICK d \in 1..Period[t] : lag' = [lag EXCEPT ![t] = Smaller(since[p] - d, MaxLag)]
      BY <2>2 DEF recordRun
    <3>2. Smaller(since[p] - d, MaxLag) \in -TopPeriod..MaxLag
      BY <1>2
    <3> QED BY <2>2, <3>1, <3>2 DEF recordRun, TypeOK
  <2> QED BY <2>1, <2>2
<1> QED BY <1>4, <1>5

(* Whoever works on a task has one, and has it in hand.                         *)
LEMMA HasJob ==
  ASSUME IInv, NEW p \in Pid, pc[p] \in {"command", "ran"} \cup InWake
  PROVE  job[p] \in Task /\ Owns(p, job[p])
  BY TaskAssumption DEF IInv, InHand, TypeOK, Owns

(* Every step of a process, and of its environment, keeps the types.            *)
LEMMA StartTyped == ASSUME IInv, NEW p \in Pid, Start(p) PROVE TypeOK'
<1>1. fired' \in BOOLEAN
  BY Constants, Zenon DEF Start
<1> QED BY <1>1, Types, Constants DEF TypeOK, Start, Goto, PC, rows
LEMMA ListStaleTyped == ASSUME IInv, NEW p \in Pid, ListStale(p) PROVE TypeOK'
<1>1. stale \subseteq Task
  BY DEF stale
<1> QED BY <1>1, Types DEF TypeOK, ListStale, Goto, Todo, PC, rows, world
LEMMA SweepTyped == ASSUME IInv, NEW p \in Pid, NEW t \in Task, Sweep(p, t) PROVE TypeOK'
<1>1. claim' \in Claims
  BY Types, Constants, Released DEF Sweep
<1>2. claim' \in [Task -> Claim \cup {None}]
  BY <1>1 DEF Claims
<1> QED BY <1>2, Types, Constants, Budgets DEF TypeOK, Sweep, Goto, Todo, PC, Unbatch, Child,
        Dispatching, world
LEMMA ListDueTyped == ASSUME IInv, NEW p \in Pid, ListDue(p) PROVE TypeOK'
<1>1. due \subseteq Task
  BY DEF due
<1>2. CASE due = {}
  BY <1>2, Types, Ended DEF TypeOK, ListDue, rows, world
<1>3. CASE due # {}
  BY <1>1, <1>3, Types DEF TypeOK, ListDue, Goto, Todo, PC, rows, world
<1> QED BY <1>2, <1>3
LEMMA CountLiveTyped == ASSUME IInv, NEW p \in Pid, CountLive(p) PROVE TypeOK'
  BY Types, Constants, Budgets DEF TypeOK, CountLive, Goto, Todo, PC, Claims, rows, world
LEMMA SkipTyped == ASSUME IInv, NEW p \in Pid, NEW t \in Task, Skip(p, t) PROVE TypeOK'
  BY Types, Constants, Budgets DEF TypeOK, Skip, Goto, Todo, PC, Claims, rows, world
LEMMA OrphanTyped == ASSUME IInv, NEW p \in Pid, NEW t \in Task, Orphan(p, t) PROVE TypeOK'
  BY Types, Constants, Budgets DEF TypeOK, Orphan, Goto, Todo, PC, Claims, rows, world
LEMMA TakeTyped == ASSUME IInv, NEW p \in Pid, NEW t \in Task, Take(p, t) PROVE TypeOK'
  BY Types, Constants, Budgets, Claimed DEF TypeOK, Take, Goto, Todo, PC, Claims, rows, world
LEMMA EndSelectionTyped == ASSUME IInv, NEW p \in Pid, EndSelection(p) PROVE TypeOK'
  BY Types, Constants, Budgets, Ended DEF TypeOK, EndSelection, Goto, Todo, PC, Claims, rows, world
LEMMA RunCommandTyped == ASSUME IInv, NEW p \in Pid, NEW t \in Task, RunCommand(p, t) PROVE TypeOK'
<1>1. claim' \in Claims
  BY Types, Constants, Adopted DEF RunCommand, Dispatching, TypeOK
<1>2. claim' \in [Task -> Claim \cup {None}]
  BY <1>1 DEF Claims
<1> QED BY <1>2, Types, Constants, Budgets DEF TypeOK, RunCommand, Goto, Todo, PC, Unbatch, Child,
        Dispatching, world
LEMMA RecordCommandTyped == ASSUME IInv, NEW p \in Pid, RecordCommand(p) PROVE TypeOK'
<1>1. job[p] \in Task
  BY HasJob DEF InWake, RecordCommand
<1>2. runs' \in [Task -> Nat] /\ active' \in [Task -> BOOLEAN]
      /\ lag' \in [Task -> -TopPeriod..MaxLag] /\ review' \subseteq Task
  BY <1>1, Types, Recorded DEF RecordCommand, recordReview, TypeOK
<1> QED BY <1>2, Types, Constants, Budgets DEF TypeOK, RecordCommand, Goto, PC, world
LEMMA ReleaseCommandTyped == ASSUME IInv, NEW p \in Pid, ReleaseCommand(p) PROVE TypeOK'
<1>1. claim' \in Claims
  BY Types, HasJob, Released DEF ReleaseCommand, InWake
<1>2. claim' \in [Task -> Claim \cup {None}]
  BY <1>1 DEF Claims
<1> QED BY <1>2, Types, Constants, Budgets DEF TypeOK, ReleaseCommand, Goto, Todo, PC, Unbatch, Child,
        Dispatching, world
LEMMA SpawnTyped == ASSUME IInv, NEW p \in Pid, NEW t \in Task, NEW r \in Pid, Spawn(p, t, r) PROVE TypeOK'
<1>1. claim' \in Claims
  BY Types, Constants, Adopted DEF Spawn, Dispatching, TypeOK
<1>2. claim' \in [Task -> Claim \cup {None}]
  BY <1>1 DEF Claims
<1> QED BY <1>2, Types, Constants, Budgets DEF TypeOK, Spawn, Goto, Todo, PC, Unbatch, Child,
        Dispatching, world
LEMMA SpawnFailsTyped == ASSUME IInv, NEW p \in Pid, NEW t \in Task, SpawnFails(p, t) PROVE TypeOK'
<1>1. claim' \in Claims
  BY Types, Constants, Released DEF SpawnFails, Dispatching
<1>2. claim' \in [Task -> Claim \cup {None}]
  BY <1>1 DEF Claims
<1> QED BY <1>2, Types, Constants, Budgets DEF TypeOK, SpawnFails, Goto, Todo, PC, Unbatch, Child,
        Dispatching, world
LEMMA ExitTyped == ASSUME IInv, NEW p \in Pid, Exit(p) PROVE TypeOK'
  BY Types, Constants, Budgets, Ended DEF TypeOK, Exit, Goto, Todo, PC, Claims, rows, world
LEMMA ReadRowTyped == ASSUME IInv, NEW p \in Pid, ReadRow(p) PROVE TypeOK'
<1>1. asReview' \in [Pid -> BOOLEAN]
  <2>1. job[p] \in Task /\ (claim[job[p]] # None => claim[job[p]].asReview \in BOOLEAN)
    BY HasJob, Types DEF ReadRow, InWake, Claims, Claim
  <2>2. (job[p] \in review) \in BOOLEAN
    OBVIOUS
  <2>3. \E b \in BOOLEAN : asReview' = [asReview EXCEPT ![p] = b]
    BY <2>1, <2>2 DEF ReadRow
  <2> QED BY <2>3, Types DEF TypeOK
<1> QED BY <1>1, Types DEF TypeOK, ReadRow, Goto, PC, Claims, rows, world
LEMMA BootTyped == ASSUME IInv, NEW p \in Pid, Boot(p) PROVE TypeOK'
<1>1. claim' \in Claims
  BY Types, Constants, HasJob, Adopted DEF Boot, InWake
<1>2. claim' \in [Task -> Claim \cup {None}]
  BY <1>1 DEF Claims
<1> QED BY <1>2, Types DEF TypeOK, Boot, Goto, Todo, PC, Unbatch, Child, Dispatching, world
LEMMA BootInactiveTyped == ASSUME IInv, NEW p \in Pid, BootInactive(p) PROVE TypeOK'
  BY Types, Constants, Budgets, Ended DEF TypeOK, BootInactive, Goto, Todo, PC, Claims, rows, world
LEMMA BootOrphanTyped == ASSUME IInv, NEW p \in Pid, BootOrphan(p) PROVE TypeOK'
<1>1. claim' \in Claims
  BY Types, Constants, HasJob, Released DEF BootOrphan, InWake
<1>2. claim' \in [Task -> Claim \cup {None}]
  BY <1>1 DEF Claims
<1> QED BY <1>2, Types, Constants, Budgets, Ended DEF TypeOK, BootOrphan, Goto, Todo, PC, Unbatch, Child,
        Dispatching, world
LEMMA RunWakeTyped == ASSUME IInv, NEW p \in Pid, RunWake(p) PROVE TypeOK'
<1>1. claim' \in Claims
  BY Types, Constants, HasJob, Adopted DEF RunWake, InWake
<1>2. claim' \in [Task -> Claim \cup {None}]
  BY <1>1 DEF Claims
<1>3. Budget[job[p]] \in 0..TopBudget
  BY HasJob, Constants, Budgets DEF RunWake, InWake
<1> QED BY <1>2, <1>3, Types DEF TypeOK, RunWake, Goto, Todo, PC, Unbatch, Child, Dispatching, world
LEMMA RecordWakeTyped == ASSUME IInv, NEW p \in Pid, RecordWake(p) PROVE TypeOK'
<1>1. job[p] \in Task
  BY HasJob DEF InWake, RecordWake
<1>2. runs' \in [Task -> Nat] /\ active' \in [Task -> BOOLEAN]
      /\ lag' \in [Task -> -TopPeriod..MaxLag] /\ review' \subseteq Task
  BY <1>1, Types, Recorded DEF RecordWake, recordReview, TypeOK
<1> QED BY <1>2, Types, Constants, Budgets DEF TypeOK, RecordWake, Goto, PC, world
LEMMA ReleaseWakeTyped == ASSUME IInv, NEW p \in Pid, ReleaseWake(p) PROVE TypeOK'
<1>1. claim' \in Claims
  BY Types, Constants, HasJob, Released DEF ReleaseWake, InWake
<1>2. claim' \in [Task -> Claim \cup {None}]
  BY <1>1 DEF Claims
<1> QED BY <1>2, Types, Constants, Budgets, Ended DEF TypeOK, ReleaseWake, Goto, Todo, PC, Unbatch,
        Child, Dispatching, world
LEMMA CrashTyped == ASSUME IInv, NEW p \in Pid, Crash(p) PROVE TypeOK'
  BY Types, Constants, Budgets, Ended DEF TypeOK, Crash, Goto, Todo, PC, Claims, rows, world
LEMMA CancelTyped == ASSUME IInv, NEW t \in Task, Cancel(t) PROVE TypeOK'
  BY Types, Constants, Budgets DEF TypeOK, Cancel, Goto, Todo, PC, Claims, rows, world
LEMMA ReviewComesDueTyped == ASSUME IInv, NEW t \in Task, ReviewComesDue(t) PROVE TypeOK'
  BY Types, Constants, Budgets DEF TypeOK, ReviewComesDue, Goto, Todo, PC, Claims, rows, world
LEMMA TalkTyped == ASSUME IInv, NEW q \in Persona, Talk(q) PROVE TypeOK'
  BY Types, Constants, Budgets DEF TypeOK, Talk, Goto, Todo, PC, Claims, rows, world
LEMMA RemoveTyped == ASSUME IInv, NEW q \in Persona, Remove(q) PROVE TypeOK'
  BY Types, Constants, Budgets DEF TypeOK, Remove, Goto, Todo, PC, Claims, rows, world
LEMMA TickTyped == ASSUME IInv, Tick PROVE TypeOK'
<1>1. \A p \in Pid : since'[p] \in 0..Life /\ left'[p] \in 0..TopBudget
  <2> TAKE p \in Pid
  <2>1. since[p] \in 0..Life /\ left[p] \in 0..TopBudget /\ TopBudget \in Nat /\ Life \in Nat
    BY Types, Budgets DEF TypeOK
  <2>2. CASE pc[p] \notin {"command", "turn"}
    BY <2>1, <2>2, Types DEF Tick, Alive
  <2>3. CASE pc[p] \in {"command", "turn"}
    <3>1. job[p] \in Task
      BY <2>3, Types DEF IInv, InHand, InWake, TypeOK
    <3>2. since[p] + left[p] <= MaxWait + Budget[job[p]] /\ left[p] > 0
      BY <2>3, Types DEF IInv, Clocks, Tick, Alive
    <3>3. MaxWait + Budget[job[p]] <= Life /\ Budget[job[p]] \in Nat
      BY <3>1, Budgets, Constants DEF Life
    <3> QED BY <2>1, <2>3, <3>2, <3>3, Constants DEF Tick, Alive
  <2> QED BY <2>2, <2>3
<1>2. since' \in [Pid -> 0..Life] /\ left' \in [Pid -> 0..TopBudget]
  BY <1>1 DEF Tick
<1>3. lag' \in [Task -> -TopPeriod..MaxLag]
  <2>1. \A t \in Task : Smaller(lag[t] + 1, MaxLag) \in -TopPeriod..MaxLag
    BY Types, Periods, Constants DEF TypeOK, Smaller
  <2> QED BY <2>1 DEF Tick
<1>4. claim' \in Claims
  <2>1. \A t \in Task : claim[t] # None =>
          [claim[t] EXCEPT !.age = Smaller(@ + 1, TopAge)] \in Claim
    <3> SUFFICES ASSUME NEW t \in Task, claim[t] # None
                 PROVE  [claim[t] EXCEPT !.age = Smaller(@ + 1, TopAge)] \in Claim
      OBVIOUS
    <3>1. claim[t] \in Claim
      BY Types DEF Claims
    <3>2. Smaller(claim[t].age + 1, TopAge) \in 0..TopAge
      BY <3>1, Budgets DEF Smaller, Claim
    <3> QED BY <3>1, <3>2 DEF Claim
  <2> QED BY <2>1 DEF Tick, Claims
<1> QED BY <1>2, <1>3, <1>4, Types DEF TypeOK, Tick, Claims
-----------------------------------------------------------------------------
(* Who selects, who has what in hand, and the clocks. *)

(* What the control part of the invariant relies on.                            *)
LEMMA ControlTyped ==
  IInv => /\ LockHeld /\ InHand /\ Clocks /\ lock \in Pid \cup {None} /\ pc \in [Pid -> PC]
          /\ batch \in [Pid -> SUBSET Task] /\ job \in [Pid -> Task \cup {None}]
          /\ since \in [Pid -> 0..Life] /\ left \in [Pid -> 0..TopBudget]
          /\ Life \in Nat /\ TopBudget \in Nat
  BY Budgets DEF IInv, TypeOK

(* Every step keeps the tick lock, the jobs and the clocks.                     *)
LEMMA ControlKept ==
  ASSUME IInv, Next
  PROVE  LockHeld' /\ InHand' /\ Clocks'
<1>1. ASSUME NEW p \in Pid, Start(p) PROVE LockHeld' /\ InHand' /\ Clocks'
  BY <1>1, ControlTyped, TaskAssumption, Constants DEF Start, LockHeld, InHand, Clocks,
     InWake, Goto, Todo, End, Unbatch, Child, Dispatching, rows, world
<1>2. ASSUME NEW p \in Pid, ListStale(p) PROVE LockHeld' /\ InHand' /\ Clocks'
  BY <1>2, ControlTyped, TaskAssumption, Constants DEF ListStale, LockHeld, InHand, Clocks,
     InWake, Goto, Todo, End, Unbatch, Child, Dispatching, rows, world
<1>3. ASSUME NEW p \in Pid, NEW t \in Task, Sweep(p, t) PROVE LockHeld' /\ InHand' /\ Clocks'
  BY <1>3, ControlTyped, TaskAssumption, Constants DEF Sweep, LockHeld, InHand, Clocks,
     InWake, Goto, Todo, End, Unbatch, Child, Dispatching, rows, world
<1>4. ASSUME NEW p \in Pid, ListDue(p) PROVE LockHeld' /\ InHand' /\ Clocks'
  BY <1>4, ControlTyped, TaskAssumption, Constants DEF ListDue, LockHeld, InHand, Clocks,
     InWake, Goto, Todo, End, Unbatch, Child, Dispatching, rows, world
<1>5. ASSUME NEW p \in Pid, CountLive(p) PROVE LockHeld' /\ InHand' /\ Clocks'
  BY <1>5, ControlTyped, TaskAssumption, Constants DEF CountLive, LockHeld, InHand, Clocks,
     InWake, Goto, Todo, End, Unbatch, Child, Dispatching, rows, world
<1>6. ASSUME NEW p \in Pid, NEW t \in Task, Skip(p, t) PROVE LockHeld' /\ InHand' /\ Clocks'
  BY <1>6, ControlTyped, TaskAssumption, Constants DEF Skip, LockHeld, InHand, Clocks,
     InWake, Goto, Todo, End, Unbatch, Child, Dispatching, rows, world
<1>7. ASSUME NEW p \in Pid, NEW t \in Task, Orphan(p, t) PROVE LockHeld' /\ InHand' /\ Clocks'
  BY <1>7, ControlTyped, TaskAssumption, Constants DEF Orphan, LockHeld, InHand, Clocks,
     InWake, Goto, Todo, End, Unbatch, Child, Dispatching, rows, world
<1>8. ASSUME NEW p \in Pid, NEW t \in Task, Take(p, t) PROVE LockHeld' /\ InHand' /\ Clocks'
  <2>1. pc[p] = "select" /\ batch' = [batch EXCEPT ![p] = @ \cup {t}] /\ UNCHANGED <<lock, pc, job, since, left>>
    BY <1>8 DEF Take, Candidate
  <2>2. LockHeld'
    BY <2>1, ControlTyped DEF LockHeld
  <2>3. InHand'
    <3>1. job[p] = None
      BY <2>1, ControlTyped DEF InHand, InWake
    <3> QED BY <2>1, <3>1, ControlTyped, TaskAssumption DEF InHand
  <2>4. Clocks'
    <3>1. since[p] = 0
      BY <2>1, ControlTyped DEF Clocks
    <3> QED BY <2>1, <3>1, ControlTyped, Constants DEF Clocks
  <2> QED BY <2>2, <2>3, <2>4
<1>9. ASSUME NEW p \in Pid, EndSelection(p) PROVE LockHeld' /\ InHand' /\ Clocks'
  BY <1>9, ControlTyped, TaskAssumption, Constants DEF EndSelection, LockHeld, InHand, Clocks,
     InWake, Goto, Todo, End, Unbatch, Child, Dispatching, rows, world
<1>10. ASSUME NEW p \in Pid, NEW t \in Task, RunCommand(p, t) PROVE LockHeld' /\ InHand' /\ Clocks'
  BY <1>10, ControlTyped, TaskAssumption, Constants DEF RunCommand, LockHeld, InHand, Clocks,
     InWake, Goto, Todo, End, Unbatch, Child, Dispatching, rows, world
<1>11. ASSUME NEW p \in Pid, RecordCommand(p) PROVE LockHeld' /\ InHand' /\ Clocks'
  BY <1>11, ControlTyped, TaskAssumption, Constants DEF RecordCommand, LockHeld, InHand, Clocks,
     InWake, Goto, Todo, End, Unbatch, Child, Dispatching, rows, world
<1>12. ASSUME NEW p \in Pid, ReleaseCommand(p) PROVE LockHeld' /\ InHand' /\ Clocks'
  BY <1>12, ControlTyped, TaskAssumption, Constants DEF ReleaseCommand, LockHeld, InHand, Clocks,
     InWake, Goto, Todo, End, Unbatch, Child, Dispatching, rows, world
<1>13. ASSUME NEW p \in Pid, NEW t \in Task, NEW r \in Pid, Spawn(p, t, r) PROVE LockHeld' /\ InHand' /\ Clocks'
  BY <1>13, ControlTyped, TaskAssumption, Constants DEF Spawn, LockHeld, InHand, Clocks,
     InWake, Goto, Todo, End, Unbatch, Child, Dispatching, rows, world
<1>14. ASSUME NEW p \in Pid, NEW t \in Task, SpawnFails(p, t) PROVE LockHeld' /\ InHand' /\ Clocks'
  BY <1>14, ControlTyped, TaskAssumption, Constants DEF SpawnFails, LockHeld, InHand, Clocks,
     InWake, Goto, Todo, End, Unbatch, Child, Dispatching, rows, world
<1>15. ASSUME NEW p \in Pid, Exit(p) PROVE LockHeld' /\ InHand' /\ Clocks'
  BY <1>15, ControlTyped, TaskAssumption, Constants DEF Exit, LockHeld, InHand, Clocks,
     InWake, Goto, Todo, End, Unbatch, Child, Dispatching, rows, world
<1>16. ASSUME NEW p \in Pid, Boot(p) PROVE LockHeld' /\ InHand' /\ Clocks'
  BY <1>16, ControlTyped, TaskAssumption, Constants DEF Boot, LockHeld, InHand, Clocks,
     InWake, Goto, Todo, End, Unbatch, Child, Dispatching, rows, world
<1>17. ASSUME NEW p \in Pid, BootInactive(p) PROVE LockHeld' /\ InHand' /\ Clocks'
  BY <1>17, ControlTyped, TaskAssumption, Constants DEF BootInactive, LockHeld, InHand, Clocks,
     InWake, Goto, Todo, End, Unbatch, Child, Dispatching, rows, world
<1>18. ASSUME NEW p \in Pid, BootOrphan(p) PROVE LockHeld' /\ InHand' /\ Clocks'
  BY <1>18, ControlTyped, TaskAssumption, Constants DEF BootOrphan, LockHeld, InHand, Clocks,
     InWake, Goto, Todo, End, Unbatch, Child, Dispatching, rows, world
<1>41. ASSUME NEW p \in Pid, ReadRow(p) PROVE LockHeld' /\ InHand' /\ Clocks'
  BY <1>41, ControlTyped, TaskAssumption, Constants DEF ReadRow, LockHeld, InHand, Clocks,
     InWake, Goto, Todo, End, Unbatch, Child, Dispatching, rows, world
<1>19. ASSUME NEW p \in Pid, RunWake(p) PROVE LockHeld' /\ InHand' /\ Clocks'
  BY <1>19, ControlTyped, TaskAssumption, Constants DEF RunWake, LockHeld, InHand, Clocks,
     InWake, Goto, Todo, End, Unbatch, Child, Dispatching, rows, world
<1>20. ASSUME NEW p \in Pid, RecordWake(p) PROVE LockHeld' /\ InHand' /\ Clocks'
  BY <1>20, ControlTyped, TaskAssumption, Constants DEF RecordWake, LockHeld, InHand, Clocks,
     InWake, Goto, Todo, End, Unbatch, Child, Dispatching, rows, world
<1>21. ASSUME NEW p \in Pid, ReleaseWake(p) PROVE LockHeld' /\ InHand' /\ Clocks'
  BY <1>21, ControlTyped, TaskAssumption, Constants DEF ReleaseWake, LockHeld, InHand, Clocks,
     InWake, Goto, Todo, End, Unbatch, Child, Dispatching, rows, world
<1>22. ASSUME NEW p \in Pid, Crash(p) PROVE LockHeld' /\ InHand' /\ Clocks'
  BY <1>22, ControlTyped, TaskAssumption, Constants DEF Crash, LockHeld, InHand, Clocks,
     InWake, Goto, Todo, End, Unbatch, Child, Dispatching, rows, world
<1>23. ASSUME NEW t \in Task, Cancel(t) PROVE LockHeld' /\ InHand' /\ Clocks'
  BY <1>23, ControlTyped, TaskAssumption, Constants DEF Cancel, LockHeld, InHand, Clocks,
     InWake, Goto, Todo, End, Unbatch, Child, Dispatching, rows, world
<1>24. ASSUME NEW t \in Task, ReviewComesDue(t) PROVE LockHeld' /\ InHand' /\ Clocks'
  BY <1>24, ControlTyped, TaskAssumption, Constants DEF ReviewComesDue, LockHeld, InHand, Clocks,
     InWake, Goto, Todo, End, Unbatch, Child, Dispatching, rows, world
<1>25. ASSUME NEW q \in Persona, Talk(q) PROVE LockHeld' /\ InHand' /\ Clocks'
  BY <1>25, ControlTyped, TaskAssumption, Constants DEF Talk, LockHeld, InHand, Clocks,
     InWake, Goto, Todo, End, Unbatch, Child, Dispatching, rows, world
<1>26. ASSUME NEW q \in Persona, Remove(q) PROVE LockHeld' /\ InHand' /\ Clocks'
  BY <1>26, ControlTyped, TaskAssumption, Constants DEF Remove, LockHeld, InHand, Clocks,
     InWake, Goto, Todo, End, Unbatch, Child, Dispatching, rows, world
<1>27. ASSUME Tick PROVE LockHeld' /\ InHand' /\ Clocks'
  <2>1. LockHeld' /\ InHand'
    BY <1>27, ControlTyped DEF Tick, LockHeld, InHand
  <2>2. Clocks'
    <3> SUFFICES ASSUME NEW p \in Pid
                 PROVE  /\ pc[p] \in {"off", "begin", "sweep", "count", "select", "boot", "found", "ready"} => since'[p] = 0
                        /\ pc[p] \notin {"command", "turn"} => left'[p] = 0
                        /\ batch[p] # {} => since'[p] <= MaxWait
                        /\ pc[p] \in {"command", "turn"} =>
                             since'[p] + left'[p] <= MaxWait + Budget[job[p]]
      BY <1>27 DEF Tick, Clocks
    <3>1. since[p] \in Nat /\ left[p] \in Nat /\ MaxWait \in Nat
      BY ControlTyped, Constants
    <3>2. CASE pc[p] = "off"
      BY <1>27, <3>1, <3>2, ControlTyped DEF Tick, Alive, InHand
    <3>3. CASE pc[p] \in {"command", "turn"}
      <4>1. since'[p] = since[p] + 1 /\ left'[p] = left[p] - 1 /\ (batch[p] # {} => since[p] < MaxWait)
        BY <1>27, <3>3 DEF Tick, Alive
      <4>2. since[p] + left[p] <= MaxWait + Budget[job[p]] /\ Budget[job[p]] \in Nat
        BY <3>3, ControlTyped, HasJob, Constants DEF Clocks, InWake
      <4> QED BY <3>1, <3>3, <4>1, <4>2
    <3> QED BY <1>27, <3>2, <3>3 DEF Tick
  <2> QED BY <2>1, <2>2
<1>28. ASSUME NEW p \in Pid, NEW t \in Task, NEW r \in Pid, SpawnUnadopted(p, t, r) PROVE LockHeld' /\ InHand' /\ Clocks'
  BY <1>28, ControlTyped, TaskAssumption, Constants DEF SpawnUnadopted, LockHeld, InHand, Clocks,
     InWake, Goto, Todo, End, Unbatch, Child, Dispatching, rows, world
<1> QED
  BY <1>1, <1>2, <1>3, <1>4, <1>5, <1>6, <1>7, <1>8, <1>9, <1>10, <1>11, <1>12, <1>13, <1>14,
     <1>15, <1>16, <1>17, <1>18, <1>41, <1>19, <1>20, <1>21, <1>22, <1>23, <1>24, <1>25, <1>26, <1>27,
     <1>28 DEF
     Next, Act, Environment

-----------------------------------------------------------------------------
(* The claims of what is in hand. *)

(* What the claims of tasks in hand rely on.                                    *)
LEMMA HandTyped ==
  IInv => /\ HandHeld /\ Timely /\ Firm \subseteq Task /\ InHand /\ Clocks /\ claim \in Claims /\ pc \in [Pid -> PC]
          /\ batch \in [Pid -> SUBSET Task] /\ job \in [Pid -> Task \cup {None}]
          /\ since \in [Pid -> 0..Life] /\ left \in [Pid -> 0..TopBudget]
          /\ Life \in Nat /\ TopBudget \in Nat
  BY Budgets, Types DEF IInv, TypeOK, HandHeld, Firm

(* Firm claims are claims of tasks.                                             *)
LEMMA FirmTasks == Firm \subseteq Task
  BY DEF Firm

(* What is in hand by a firm claim is in one hand, of a living process.         *)
LEMMA InOneHand ==
  ASSUME IInv, NEW p \in Pid, NEW t \in Firm, Owns(p, t)
  PROVE  /\ claim[t] # None /\ claim[t] \in Claim /\ claim[t].pid = p /\ Alive(p)
         /\ \A q \in Pid : Owns(q, t) => q = p
<1>1. claim[t] # None /\ claim[t].pid = p
  BY HandTyped DEF HandHeld, Follows
<1>2. pc[p] # "off"
  BY HandTyped, TaskAssumption DEF InHand, InWake, Owns
<1>3. \A q \in Pid : Owns(q, t) => q = p
  BY <1>1, HandTyped DEF HandHeld, Follows
<1> QED BY <1>1, <1>2, <1>3, HandTyped DEF Claims, Alive

(* Its claim has not run out.                                                   *)
LEMMA InHandLive ==
  ASSUME IInv, NEW p \in Pid, NEW t \in Firm, Owns(p, t)
  PROVE  t \in live
<1>1. claim[t] # None /\ claim[t] \in Claim /\ claim[t].pid = p /\ Alive(p)
  BY InOneHand
<1>2. claim[t].age \in Nat /\ claim[t].budget \in Nat /\ Budget[t] \in Nat /\ DefaultBudget \in Nat
      /\ MaxWait \in Nat /\ since[p] \in Nat /\ left[p] \in Nat
  BY <1>1, ClaimFields, Constants, HandTyped
<1>3. claimStaleTtl(claim[t]) >= 2 * DefaultBudget /\ claimStaleTtl(claim[t]) \in Nat
  BY <1>2 DEF claimStaleTtl, Larger
<1>4. MaxWait <= 2 * DefaultBudget /\ MaxWait + Budget[t] <= Larger(2 * DefaultBudget, 2 * Budget[t])
  BY DEF Firm
<1>5. claim[t].age <= claimStaleTtl(claim[t])
  <2>1. CASE t \in batch[p]
    <3>1. claim[t].age <= since[p] /\ since[p] <= MaxWait
      BY <2>1, HandTyped DEF Timely, Clocks
    <3> QED BY <1>2, <1>3, <1>4, <3>1
  <2>2. CASE job[p] = t /\ pc[p] \in {"boot", "found", "ready"}
    <3>1. claim[t].age <= MaxWait
      BY <2>2, HandTyped DEF Timely
    <3> QED BY <1>2, <1>3, <1>4, <3>1
  <2>3. CASE job[p] = t /\ pc[p] \notin {"boot", "found", "ready"}
    <3>1. claim[t].budget = Budget[t] /\ claim[t].age + left[p] <= MaxWait + Budget[t]
      BY <2>3, HandTyped DEF Timely
    <3>2. claimStaleTtl(claim[t]) = Larger(2 * DefaultBudget, 2 * Budget[t])
      BY <1>2, <3>1, Constants, FirmTasks DEF claimStaleTtl
    <3> QED BY <1>2, <1>3, <1>4, <3>1, <3>2
  <2> QED BY <2>1, <2>2, <2>3 DEF Owns
<1>6. ~claimIsStale(claim[t])
  BY <1>1, <1>2, <1>3, <1>5 DEF claimIsStale
<1> QED BY <1>1, <1>6, FirmTasks DEF live

(* The two together, for one process and one task.                              *)
Held(q, u) ==
  Owns(q, u) =>
    /\ claim[u] # None /\ claim[u].pid = q
    /\ u \in batch[q] => claim[u].age <= since[q]
    /\ job[q] = u => IF pc[q] \in {"boot", "found", "ready"}
                       THEN claim[u].age <= MaxWait
                       ELSE /\ claim[u].budget = Budget[u]
                            /\ claim[u].age + left[q] <= MaxWait + Budget[u]

(* The invariant of the claims, task by task and process by process.            *)
LEMMA HeldAll ==
  /\ IInv => \A q \in Pid, u \in Firm : Held(q, u)
  /\ (\A q \in Pid, u \in Firm : Held(q, u)') => HandHeld'
<1>1. IInv => \A q \in Pid, u \in Firm : Held(q, u)
  BY HandTyped DEF Held, HandHeld, Follows, Timely
<1>2. (\A q \in Pid, u \in Firm : Held(q, u)') => HandHeld'
  BY DEF Held, HandHeld, Follows, Timely, Owns
<1> QED BY <1>1, <1>2

(* What the step leaves alone stays as it was.                                  *)
LEMMA Untouched ==
  ASSUME IInv, NEW q \in Pid, NEW u \in Firm, claim'[u] = claim[u],
         since'[q] = since[q], left'[q] = left[q], pc'[q] = pc[q],
         batch'[q] \subseteq batch[q], job'[q] = job[q]
  PROVE  Held(q, u)'
  BY HeldAll DEF Held, Owns

(* Every step keeps what is in hand named by a live claim.                      *)
LEMMA HandKept ==
  ASSUME IInv, Next
  PROVE  HandHeld'
<1>1. ASSUME NEW p \in Pid, Start(p) PROVE HandHeld'
  BY <1>1, HandTyped, TaskAssumption, Constants DEF Start,
     HandHeld, Follows, Timely, Owns, InHand, Clocks,
     InWake, Goto, Todo, End, Unbatch, Child, Dispatching, rows, world
<1>2. ASSUME NEW p \in Pid, ListStale(p) PROVE HandHeld'
  BY <1>2, HandTyped, TaskAssumption, Constants DEF ListStale,
     HandHeld, Follows, Timely, Owns, InHand, Clocks,
     InWake, Goto, Todo, End, Unbatch, Child, Dispatching, rows, world
<1>3. ASSUME NEW p \in Pid, NEW t \in Task, Sweep(p, t) PROVE HandHeld'
  <2> SUFFICES ASSUME NEW q \in Pid, NEW u \in Firm PROVE Held(q, u)'
    BY HeldAll
  <2>1. Owns(q, t)' => Owns(q, t)
    BY <1>3 DEF Sweep, Owns
  <2>2. t \notin Taken
    BY <1>3 DEF Sweep, IInv, SweptFree
  <2>3. CASE u = t
    BY <2>1, <2>2, <2>3 DEF Held, Taken
  <2>4. CASE u # t
    BY <1>3, <2>4, HandTyped, Released, Untouched DEF Sweep
  <2> QED BY <2>3, <2>4
<1>4. ASSUME NEW p \in Pid, ListDue(p) PROVE HandHeld'
  <2>1. CASE due # {}
    BY <1>4, <2>1, HandTyped DEF ListDue, rows, HandHeld, Follows, Timely, Owns, Goto
  <2>2. CASE due = {}
    <3>1. batch[p] = {} /\ job[p] = None
      BY <1>4, HandTyped DEF ListDue, InHand, InWake
    <3>2. \A x \in Pid : batch'[x] = batch[x] /\ job'[x] = job[x]
      BY <1>4, <2>2, <3>1, HandTyped DEF ListDue, End
    <3> SUFFICES ASSUME NEW q \in Pid, NEW u \in Firm PROVE Held(q, u)'
      BY HeldAll
    <3>3. CASE q = p
      BY <3>1, <3>2, <3>3, TaskAssumption, FirmTasks DEF Held, Owns
    <3>4. CASE q # p
      BY <1>4, <2>2, <3>2, <3>4, HandTyped, Untouched DEF ListDue, End, Goto, rows
    <3> QED BY <3>3, <3>4
  <2> QED BY <2>1, <2>2
<1>5. ASSUME NEW p \in Pid, CountLive(p) PROVE HandHeld'
  BY <1>5, HandTyped, TaskAssumption, Constants DEF CountLive,
     HandHeld, Follows, Timely, Owns, InHand, Clocks,
     InWake, Goto, Todo, End, Unbatch, Child, Dispatching, rows, world
<1>6. ASSUME NEW p \in Pid, NEW t \in Task, Skip(p, t) PROVE HandHeld'
  BY <1>6, HandTyped, TaskAssumption, Constants DEF Skip,
     HandHeld, Follows, Timely, Owns, InHand, Clocks,
     InWake, Goto, Todo, End, Unbatch, Child, Dispatching, rows, world
<1>7. ASSUME NEW p \in Pid, NEW t \in Task, Orphan(p, t) PROVE HandHeld'
  BY <1>7, HandTyped, TaskAssumption, Constants DEF Orphan,
     HandHeld, Follows, Timely, Owns, InHand, Clocks,
     InWake, Goto, Todo, End, Unbatch, Child, Dispatching, rows, world
<1>8. ASSUME NEW p \in Pid, NEW t \in Task, Take(p, t) PROVE HandHeld'
  <2> SUFFICES ASSUME NEW q \in Pid, NEW u \in Firm PROVE Held(q, u)'
    BY HeldAll
  <2>1. (t \in Firm => ~Owns(q, t)) /\ job[p] = None
    BY <1>8, InHandLive, HandTyped DEF Take, Candidate, claimable, InHand, InWake
  <2>2. claim'[t] # None /\ claim'[t].pid = p /\ claim'[t].age = 0 /\ (u # t => claim'[u] = claim[u])
    BY <1>8, Claimed, HandTyped DEF Take
  <2>3. batch' = [batch EXCEPT ![p] = @ \cup {t}] /\ UNCHANGED <<pc, job, since, left>>
    BY <1>8 DEF Take
  <2>4. CASE u = t
    <3>1. Owns(q, t)' => q = p /\ job'[q] # t
      BY <2>1, <2>3, <2>4, HandTyped, TaskAssumption DEF Owns
    <3> QED BY <2>2, <2>3, <2>4, <3>1, HandTyped DEF Held
  <2>5. CASE u # t
    BY <2>2, <2>3, <2>5, HeldAll, HandTyped DEF Held, Owns
  <2> QED BY <2>4, <2>5
<1>9. ASSUME NEW p \in Pid, EndSelection(p) PROVE HandHeld'
  <2> SUFFICES ASSUME NEW q \in Pid, NEW u \in Firm PROVE Held(q, u)'
    BY HeldAll
  <2>1. job[p] = None /\ claim' = claim /\ None \notin Firm
    BY <1>9, HandTyped, FirmTasks, TaskAssumption DEF EndSelection, InHand, InWake, rows
  <2>2. CASE q # p
    BY <1>9, <2>1, <2>2, HandTyped, Untouched DEF EndSelection, End, Goto
  <2>3. CASE q = p /\ batch[p] = {}
    BY <1>9, <2>1, <2>3, HandTyped DEF EndSelection, End, Held, Owns
  <2>4. CASE q = p /\ batch[p] # {}
    BY <1>9, <2>1, <2>4, HandTyped, HeldAll DEF EndSelection, Held, Owns
  <2> QED BY <2>2, <2>3, <2>4
<1>10. ASSUME NEW p \in Pid, NEW t \in Task, RunCommand(p, t) PROVE HandHeld'
  <2> SUFFICES ASSUME NEW q \in Pid, NEW u \in Firm PROVE Held(q, u)'
    BY HeldAll
  <2>1. Owns(p, t) /\ job[p] = None /\ since[p] <= MaxWait /\ pc[p] = "dispatch"
    BY <1>10, HandTyped DEF RunCommand, Owns, InHand, InWake, Clocks
  <2>2. t \in Firm => /\ claim[t] # None /\ claim[t] \in Claim /\ claim[t].age <= since[p]
                      /\ Owns(q, t) => q = p
    BY <1>10, <2>1, InOneHand, HandTyped DEF RunCommand, Timely
  <2>3. /\ t \in Firm => /\ claim'[t] # None /\ claim'[t].pid = p /\ claim'[t].age = claim[t].age
                         /\ claim'[t].budget = Budget[t]
        /\ u # t => claim'[u] = claim[u]
    BY <1>10, <2>2, Adopted, HandTyped, Constants DEF RunCommand
  <2>4. /\ batch' = [batch EXCEPT ![p] = @ \ {t}] /\ job' = [job EXCEPT ![p] = t]
        /\ left' = [left EXCEPT ![p] = Budget[t]] /\ pc' = [pc EXCEPT ![p] = "command"]
        /\ UNCHANGED since
    BY <1>10 DEF RunCommand, Unbatch, Goto
  <2>5. CASE q = p /\ u = t
    <3>1. claim[t].age + Budget[t] <= MaxWait + Budget[t]
      BY <2>1, <2>2, <2>5, ClaimFields, Constants, HandTyped
    <3> QED BY <2>3, <2>4, <2>5, <3>1, HandTyped DEF Held
  <2>6. CASE q = p /\ u # t
    BY <2>1, <2>3, <2>4, <2>6, HeldAll, HandTyped DEF Held, Owns
  <2>7. CASE q # p /\ u = t
    BY <2>2, <2>4, <2>7, HandTyped DEF Held, Owns
  <2>8. CASE q # p /\ u # t
    BY <2>3, <2>4, <2>8, Untouched, HandTyped
  <2> QED BY <2>5, <2>6, <2>7, <2>8
<1>11. ASSUME NEW p \in Pid, RecordCommand(p) PROVE HandHeld'
  <2> SUFFICES ASSUME NEW q \in Pid, NEW u \in Firm PROVE Held(q, u)'
    BY HeldAll
  <2>1. CASE q = p
    <3>1. claim'[u] = claim[u] /\ batch' = batch /\ job' = job /\ since' = since
          /\ pc[p] = "command" /\ pc'[p] = "ran" /\ left'[p] = 0
      BY <1>11, HandTyped DEF RecordCommand, Goto
    <3>2. Owns(p, u) => claim[u].age \in Nat /\ left[p] \in Nat /\ Budget[u] \in Nat /\ MaxWait \in Nat
      BY InOneHand, ClaimFields, HandTyped, Constants
    <3> QED BY <2>1, <3>1, <3>2, HeldAll DEF Held, Owns
  <2>2. CASE q # p
    BY <1>11, <2>2, Untouched, HandTyped DEF RecordCommand, Goto
  <2> QED BY <2>1, <2>2
<1>12. ASSUME NEW p \in Pid, ReleaseCommand(p) PROVE HandHeld'
  BY <1>12, HandTyped, TaskAssumption, Constants, HasJob, Released DEF ReleaseCommand,
     HandHeld, Follows, Timely, Owns, InHand, Clocks,
     InWake, Goto, Todo, End, Unbatch, Child, Dispatching, rows, world
<1>13. ASSUME NEW p \in Pid, NEW t \in Task, NEW r \in Pid, Spawn(p, t, r) PROVE HandHeld'
  <2> SUFFICES ASSUME NEW q \in Pid, NEW u \in Firm PROVE Held(q, u)'
    BY HeldAll
  <2>1. Owns(p, t) /\ since[p] <= MaxWait /\ pc[p] = "dispatch" /\ pc[r] = "off" /\ t \in batch[p]
    BY <1>13, HandTyped DEF Spawn, Dispatching, Child, Owns, Clocks
  <2>2. t \in Firm => /\ claim[t] # None /\ claim[t] \in Claim /\ claim[t].age <= since[p]
                      /\ Owns(q, t) => q = p
    BY <2>1, InOneHand, HandTyped DEF Timely
  <2>3. /\ t \in Firm => claim'[t] # None /\ claim'[t].pid = r /\ claim'[t].age = claim[t].age
        /\ u # t => claim'[u] = claim[u]
    BY <1>13, <2>2, Adopted, HandTyped, Constants DEF Spawn
  <2>4. /\ batch' = [batch EXCEPT ![p] = @ \ {t}] /\ job' = [job EXCEPT ![r] = t]
        /\ pc' = [pc EXCEPT ![r] = "boot"] /\ UNCHANGED <<since, left>>
    BY <1>13 DEF Spawn, Unbatch, Goto, Child
  <2>5. batch[r] = {} /\ job[p] # t
    BY <2>1, HandTyped DEF InHand
  <2>6. CASE q = r /\ u = t
    <3>1. claim[t].age <= MaxWait
      BY <2>1, <2>2, <2>6, ClaimFields, Constants, HandTyped
    <3>2. t \notin batch'[r] /\ pc'[r] = "boot"
      BY <2>1, <2>4, <2>5, HandTyped
    <3> QED BY <2>3, <2>6, <3>1, <3>2 DEF Held
  <2>7. CASE q = r /\ u # t
    BY <2>4, <2>5, <2>7, HandTyped DEF Held, Owns
  <2>8. CASE q # r /\ u = t
    BY <2>2, <2>4, <2>5, <2>8, HandTyped DEF Held, Owns
  <2>9. CASE q # r /\ u # t
    <3>1. batch'[q] \subseteq batch[q] /\ job'[q] = job[q] /\ pc'[q] = pc[q]
      BY <2>4, <2>9, HandTyped
    <3> QED BY <2>3, <2>4, <2>9, <3>1, Untouched
  <2> QED BY <2>6, <2>7, <2>8, <2>9
<1>14. ASSUME NEW p \in Pid, NEW t \in Task, SpawnFails(p, t) PROVE HandHeld'
  BY <1>14, HandTyped, TaskAssumption, Constants, HasJob, Released DEF SpawnFails,
     HandHeld, Follows, Timely, Owns, InHand, Clocks,
     InWake, Goto, Todo, End, Unbatch, Child, Dispatching, rows, world
<1>15. ASSUME NEW p \in Pid, Exit(p) PROVE HandHeld'
  BY <1>15, HandTyped, TaskAssumption, Constants DEF Exit,
     HandHeld, Follows, Timely, Owns, InHand, Clocks,
     InWake, Goto, Todo, End, Unbatch, Child, Dispatching, rows, world
<1>16. ASSUME NEW p \in Pid, Boot(p) PROVE HandHeld'
  <2> SUFFICES ASSUME NEW q \in Pid, NEW u \in Firm PROVE Held(q, u)'
    BY HeldAll
  <2>1. Owns(p, job[p]) /\ job[p] \in Task
    BY <1>16, HasJob DEF Boot, InWake
  <2>2. job[p] \in Firm => claim[job[p]] # None /\ (Owns(q, job[p]) => q = p)
    BY <2>1, InOneHand
  <2>3. /\ job[p] \in Firm => /\ claim'[job[p]] # None /\ claim'[job[p]].pid = p
                              /\ claim'[job[p]].age = claim[job[p]].age
        /\ u # job[p] => claim'[u] = claim[u]
    BY <1>16, <2>1, <2>2, Adopted, HandTyped DEF Boot
  <2>4. batch' = batch /\ job' = job /\ since' = since /\ left' = left
        /\ pc' = [pc EXCEPT ![p] = "ready"] /\ pc[p] = "found"
    BY <1>16 DEF Boot, Goto
  <2>5. batch[p] = {}
    BY <2>4, HandTyped DEF InHand
  <2>6. CASE u = job[p]
    <3>1. Owns(q, u)' => q = p
      BY <2>2, <2>4, <2>6 DEF Owns
    <3>2. claim[u].age <= MaxWait
      BY <2>1, <2>4, <2>6, HandTyped DEF Timely
    <3> QED BY <2>3, <2>4, <2>5, <2>6, <3>1, <3>2, HandTyped DEF Held
  <2>7. CASE u # job[p]
    BY <2>3, <2>4, <2>5, <2>7, HeldAll, HandTyped DEF Held, Owns
  <2> QED BY <2>6, <2>7
<1>17. ASSUME NEW p \in Pid, BootInactive(p) PROVE HandHeld'
  BY <1>17, HandTyped, TaskAssumption, Constants DEF BootInactive,
     HandHeld, Follows, Timely, Owns, InHand, Clocks,
     InWake, Goto, Todo, End, Unbatch, Child, Dispatching, rows, world
<1>18. ASSUME NEW p \in Pid, BootOrphan(p) PROVE HandHeld'
  BY <1>18, HandTyped, TaskAssumption, Constants, HasJob, Released DEF BootOrphan,
     HandHeld, Follows, Timely, Owns, InHand, Clocks,
     InWake, Goto, Todo, End, Unbatch, Child, Dispatching, rows, world
<1>41. ASSUME NEW p \in Pid, ReadRow(p) PROVE HandHeld'
  BY <1>41, HandTyped, TaskAssumption, Constants DEF ReadRow,
     HandHeld, Follows, Timely, Owns, InHand, Clocks,
     InWake, Goto, Todo, End, Unbatch, Child, Dispatching, rows, world
<1>19. ASSUME NEW p \in Pid, RunWake(p) PROVE HandHeld'
  <2> SUFFICES ASSUME NEW q \in Pid, NEW u \in Firm PROVE Held(q, u)'
    BY HeldAll
  <2>1. Owns(p, job[p]) /\ job[p] \in Task
    BY <1>19, HasJob DEF RunWake, InWake
  <2>2. job[p] \in Firm => /\ claim[job[p]] # None /\ claim[job[p]] \in Claim
                           /\ Owns(q, job[p]) => q = p
    BY <2>1, InOneHand
  <2>3. /\ job[p] \in Firm => /\ claim'[job[p]] # None /\ claim'[job[p]].pid = p
                              /\ claim'[job[p]].age = claim[job[p]].age
                              /\ claim'[job[p]].budget = Budget[job[p]]
        /\ u # job[p] => claim'[u] = claim[u]
    BY <1>19, <2>1, <2>2, Adopted, HandTyped, Constants DEF RunWake
  <2>4. batch' = batch /\ job' = job /\ since' = since /\ left' = [left EXCEPT ![p] = Budget[job[p]]]
        /\ pc' = [pc EXCEPT ![p] = "turn"] /\ pc[p] = "ready"
    BY <1>19 DEF RunWake, Goto
  <2>5. batch[p] = {}
    BY <2>4, HandTyped DEF InHand
  <2>6. CASE u = job[p]
    <3>1. Owns(q, u)' => q = p
      BY <2>2, <2>4, <2>6 DEF Owns
    <3>2. claim[u].age <= MaxWait
      BY <2>1, <2>4, <2>6, HandTyped DEF Timely
    <3>3. claim[u].age + Budget[u] <= MaxWait + Budget[u]
      BY <2>2, <2>6, <3>2, ClaimFields, Constants, FirmTasks
    <3> QED BY <2>3, <2>4, <2>5, <2>6, <3>1, <3>3, HandTyped DEF Held
  <2>7. CASE u # job[p]
    BY <2>3, <2>4, <2>5, <2>7, HeldAll, HandTyped DEF Held, Owns
  <2> QED BY <2>6, <2>7
<1>20. ASSUME NEW p \in Pid, RecordWake(p) PROVE HandHeld'
  <2> SUFFICES ASSUME NEW q \in Pid, NEW u \in Firm PROVE Held(q, u)'
    BY HeldAll
  <2>1. CASE q = p
    <3>1. claim'[u] = claim[u] /\ batch' = batch /\ job' = job /\ since' = since
          /\ pc[p] = "turn" /\ pc'[p] = "done" /\ left'[p] = 0
      BY <1>20, HandTyped DEF RecordWake, Goto
    <3>2. Owns(p, u) => claim[u].age \in Nat /\ left[p] \in Nat /\ Budget[u] \in Nat /\ MaxWait \in Nat
      BY InOneHand, ClaimFields, HandTyped, Constants
    <3> QED BY <2>1, <3>1, <3>2, HeldAll DEF Held, Owns
  <2>2. CASE q # p
    BY <1>20, <2>2, Untouched, HandTyped DEF RecordWake, Goto
  <2> QED BY <2>1, <2>2
<1>21. ASSUME NEW p \in Pid, ReleaseWake(p) PROVE HandHeld'
  <2> SUFFICES ASSUME NEW q \in Pid, NEW u \in Firm PROVE Held(q, u)'
    BY HeldAll
  <2>1. pc[p] = "done" /\ batch[p] = {} /\ job[p] \in Task /\ Owns(p, job[p])
    BY <1>21, HandTyped, HasJob DEF ReleaseWake, InHand, InWake
  <2>2. claim'[job[p]] = None /\ \A x \in Task : x # job[p] => claim'[x] = claim[x]
    BY <1>21, <2>1, HandTyped, Released DEF ReleaseWake
  <2>3. CASE q = p
    BY <1>21, <2>1, <2>3, HandTyped, FirmTasks, TaskAssumption DEF ReleaseWake, End, Held, Owns
  <2>4. CASE q # p /\ u # job[p]
    BY <1>21, <2>2, <2>4, HandTyped, FirmTasks, Untouched DEF ReleaseWake, End, Goto
  <2>5. CASE q # p /\ u = job[p]
    <3>1. ~Owns(q, u)
      BY <2>1, <2>5, InOneHand
    <3>2. Owns(q, u)' => Owns(q, u)
      BY <1>21, <2>5, HandTyped DEF ReleaseWake, End, Owns
    <3> QED BY <3>1, <3>2 DEF Held
  <2> QED BY <2>3, <2>4, <2>5
<1>22. ASSUME NEW p \in Pid, Crash(p) PROVE HandHeld'
  BY <1>22, HandTyped, TaskAssumption, Constants DEF Crash,
     HandHeld, Follows, Timely, Owns, InHand, Clocks,
     InWake, Goto, Todo, End, Unbatch, Child, Dispatching, rows, world
<1>23. ASSUME NEW t \in Task, Cancel(t) PROVE HandHeld'
  BY <1>23, HandTyped, TaskAssumption, Constants DEF Cancel,
     HandHeld, Follows, Timely, Owns, InHand, Clocks,
     InWake, Goto, Todo, End, Unbatch, Child, Dispatching, rows, world
<1>24. ASSUME NEW t \in Task, ReviewComesDue(t) PROVE HandHeld'
  BY <1>24, HandTyped, TaskAssumption, Constants DEF ReviewComesDue,
     HandHeld, Follows, Timely, Owns, InHand, Clocks,
     InWake, Goto, Todo, End, Unbatch, Child, Dispatching, rows, world
<1>25. ASSUME NEW q \in Persona, Talk(q) PROVE HandHeld'
  BY <1>25, HandTyped, TaskAssumption, Constants DEF Talk,
     HandHeld, Follows, Timely, Owns, InHand, Clocks,
     InWake, Goto, Todo, End, Unbatch, Child, Dispatching, rows, world
<1>26. ASSUME NEW q \in Persona, Remove(q) PROVE HandHeld'
  BY <1>26, HandTyped, TaskAssumption, Constants DEF Remove,
     HandHeld, Follows, Timely, Owns, InHand, Clocks,
     InWake, Goto, Todo, End, Unbatch, Child, Dispatching, rows, world
<1>27. ASSUME Tick PROVE HandHeld'
  <2> SUFFICES ASSUME NEW q \in Pid, NEW u \in Firm PROVE Held(q, u)'
    BY HeldAll
  <2> SUFFICES ASSUME Owns(q, u)' PROVE Held(q, u)'
    BY DEF Held
  <2>1. Owns(q, u) /\ claim[u] # None /\ claim[u] \in Claim /\ claim[u].pid = q /\ Alive(q)
    BY <1>27, InOneHand DEF Tick, Owns
  <2>2. claim'[u] = [claim[u] EXCEPT !.age = Smaller(@ + 1, TopAge)]
    BY <1>27, <2>1, FirmTasks DEF Tick
  <2>3. claim[u].age \in Nat /\ Smaller(claim[u].age + 1, TopAge) <= claim[u].age + 1
        /\ Smaller(claim[u].age + 1, TopAge) \in Nat
    BY <2>1, ClaimFields, Budgets DEF Smaller
  <2>4. /\ claim'[u] # None /\ claim'[u].pid = q /\ claim'[u].budget = claim[u].budget
        /\ claim'[u].age = Smaller(claim[u].age + 1, TopAge)
    <3>1. claim'[u] \in [age : Nat, pid : Pid, budget : Nat, asReview : BOOLEAN]
      BY <2>1, <2>2, <2>3, Constants DEF Claim
    <3> QED BY <2>1, <2>2, <2>3, TaskAssumption, Constants DEF Claim
  <2>5. pc[q] \in {"command", "turn"} /\ since'[q] = since[q] + 1 /\ left'[q] = left[q] - 1
        /\ UNCHANGED <<batch, job, pc>>
    BY <1>27, <2>1 DEF Tick, Alive
  <2>6. since[q] \in Nat /\ left[q] \in Nat /\ Budget[u] \in Nat /\ MaxWait \in Nat
    BY HandTyped, Constants
  <2> QED BY <2>1, <2>3, <2>4, <2>5, <2>6, HeldAll DEF Held
<1>28. ASSUME NEW p \in Pid, NEW t \in Task, NEW r \in Pid, SpawnUnadopted(p, t, r) PROVE HandHeld'
  <2> SUFFICES ASSUME NEW q \in Pid, NEW u \in Firm PROVE Held(q, u)'
    BY HeldAll
  <2>1. u # t /\ pc[p] = "dispatch" /\ pc[r] = "off"
    BY <1>28, TaskAssumption DEF SpawnUnadopted, Dispatching, Child, Firm, Task
  <2>2. /\ batch' = [batch EXCEPT ![p] = @ \ {t}] /\ job' = [job EXCEPT ![r] = t]
        /\ pc' = [pc EXCEPT ![r] = "boot"] /\ UNCHANGED <<claim, since, left>>
    BY <1>28 DEF SpawnUnadopted, Unbatch, Goto, Child, rows
  <2>3. batch[r] = {}
    BY <2>1, HandTyped DEF InHand
  <2>4. CASE q = r
    BY <2>1, <2>2, <2>3, <2>4, HandTyped DEF Held, Owns
  <2>5. CASE q # r
    <3>1. batch'[q] \subseteq batch[q] /\ job'[q] = job[q] /\ pc'[q] = pc[q]
      BY <2>2, <2>5, HandTyped
    <3> QED BY <2>2, <3>1, Untouched
  <2> QED BY <2>4, <2>5
<1> QED
  BY <1>1, <1>2, <1>3, <1>4, <1>5, <1>6, <1>7, <1>8, <1>9, <1>10, <1>11, <1>12, <1>13, <1>14,
     <1>15, <1>16, <1>17, <1>18, <1>41, <1>19, <1>20, <1>21, <1>22, <1>23, <1>24, <1>25, <1>26, <1>27,
     <1>28 DEF
     Next, Act, Environment

-----------------------------------------------------------------------------
(* What is in hand is due. *)

(* What the fires of tasks in hand rely on.                                     *)
LEMMA DueTyped ==
  IInv => /\ DueHeld /\ Outstanding /\ Firm \subseteq Task /\ InHand
          /\ active \in [Task -> BOOLEAN] /\ runs \in [Task -> Nat] /\ lag \in [Task -> Int]
          /\ pc \in [Pid -> PC] /\ batch \in [Pid -> SUBSET Task] /\ job \in [Pid -> Task \cup {None}]
<1>1. IInv => lag \in [Task -> Int]
  <2> SUFFICES ASSUME IInv PROVE lag \in [Task -> Int]
    OBVIOUS
  <2>1. lag \in [Task -> -TopPeriod..MaxLag]
    BY DEF IInv, TypeOK
  <2>2. \A t \in Task : lag[t] \in Int
    BY <2>1, Periods, Constants
  <2> QED BY <2>1, <2>2
<1> QED BY <1>1 DEF IInv, TypeOK, DueHeld, Firm

(* A run is recorded once, by whoever has the task in hand.                     *)
LEMMA RunRecorded ==
  ASSUME IInv, NEW p \in Pid, NEW t \in Task, job[p] = t, Owns(p, t), t \in Firm => Due(t), t \notin batch[p],
         recordRun(t, p), UNCHANGED <<batch, job>>,
         pc' = [pc EXCEPT ![p] = "ran"] \/ pc' = [pc EXCEPT ![p] = "done"]
  PROVE  DueHeld'
<1>1. runs[t] \in Nat /\ MaxRuns[t] \in Nat /\ (t \in Firm /\ MaxRuns[t] > 0 => runs[t] < MaxRuns[t])
  BY DueTyped, Constants DEF Due
<1>2. \A u \in Task : u # t => runs'[u] = runs[u] /\ lag'[u] = lag[u] /\ active'[u] = active[u]
  BY DueTyped DEF recordRun
<1>3. (MaxRuns[t] > 0 => runs'[t] = runs[t] + 1) /\ (active'[t] /\ MaxRuns[t] > 0 => runs[t] + 1 < MaxRuns[t])
  BY <1>1, DueTyped DEF recordRun
<1>4. \A u \in Firm : Capped(u)'
  BY <1>1, <1>2, <1>3, DueTyped DEF DueHeld, Capped
<1>5. \A u \in Task : active'[u] /\ MaxRuns[u] > 0 => runs'[u] < MaxRuns[u]
  BY <1>1, <1>2, <1>3, DueTyped DEF Outstanding
<1>6. ASSUME NEW q \in Pid, NEW u \in Firm,
             u \in batch[q] \/ (job[q] = u /\ pc'[q] \notin {"ran", "done"})
      PROVE  Due(u)'
  <2>1. u # t
    <3> SUFFICES ASSUME u = t PROVE FALSE
      OBVIOUS
    <3>1. q = p
      BY <1>6, InOneHand DEF Owns
    <3> QED BY <1>6, <3>1, DueTyped
  <2>2. u \in batch[q] \/ (job[q] = u /\ pc[q] \notin {"ran", "done"})
    BY <1>6, <2>1, DueTyped
  <2>3. Due(u) /\ u \in Task
    BY <2>2, DueTyped DEF Outstanding
  <2> QED BY <1>2, <2>1, <2>3 DEF Due
<1> QED BY <1>4, <1>5, <1>6 DEF DueHeld, Outstanding

(* Every step keeps the fires of tasks in hand outstanding.                     *)
LEMMA DueKept ==
  ASSUME IInv, Next
  PROVE  DueHeld'
<1>1. ASSUME NEW p \in Pid, Start(p) PROVE DueHeld'
  BY <1>1, DueTyped, TaskAssumption, Constants DEF Start,
     DueHeld, Outstanding, Capped, Due, InHand,
     InWake, Goto, Todo, End, Unbatch, Child, Dispatching, rows, world
<1>2. ASSUME NEW p \in Pid, ListStale(p) PROVE DueHeld'
  BY <1>2, DueTyped, TaskAssumption, Constants DEF ListStale,
     DueHeld, Outstanding, Capped, Due, InHand,
     InWake, Goto, Todo, End, Unbatch, Child, Dispatching, rows, world
<1>3. ASSUME NEW p \in Pid, NEW t \in Task, Sweep(p, t) PROVE DueHeld'
  BY <1>3, DueTyped, TaskAssumption, Constants DEF Sweep,
     DueHeld, Outstanding, Capped, Due, InHand,
     InWake, Goto, Todo, End, Unbatch, Child, Dispatching, rows, world
<1>4. ASSUME NEW p \in Pid, ListDue(p) PROVE DueHeld'
  BY <1>4, DueTyped, TaskAssumption, Constants DEF ListDue,
     DueHeld, Outstanding, Capped, Due, InHand,
     InWake, Goto, Todo, End, Unbatch, Child, Dispatching, rows, world
<1>5. ASSUME NEW p \in Pid, CountLive(p) PROVE DueHeld'
  BY <1>5, DueTyped, TaskAssumption, Constants DEF CountLive,
     DueHeld, Outstanding, Capped, Due, InHand,
     InWake, Goto, Todo, End, Unbatch, Child, Dispatching, rows, world
<1>6. ASSUME NEW p \in Pid, NEW t \in Task, Skip(p, t) PROVE DueHeld'
  BY <1>6, DueTyped, TaskAssumption, Constants DEF Skip,
     DueHeld, Outstanding, Capped, Due, InHand,
     InWake, Goto, Todo, End, Unbatch, Child, Dispatching, rows, world
<1>7. ASSUME NEW p \in Pid, NEW t \in Task, Orphan(p, t) PROVE DueHeld'
  BY <1>7, DueTyped, TaskAssumption, Constants DEF Orphan,
     DueHeld, Outstanding, Capped, Due, InHand,
     InWake, Goto, Todo, End, Unbatch, Child, Dispatching, rows, world
<1>8. ASSUME NEW p \in Pid, NEW t \in Task, Take(p, t) PROVE DueHeld'
  <2>1. Due(t)
    BY <1>8, DueTyped DEF Take, claimable, due, Outstanding, Due
  <2>2. batch' = [batch EXCEPT ![p] = @ \cup {t}] /\ UNCHANGED <<pc, job, active, runs, lag>>
    BY <1>8 DEF Take
  <2>3. \A u \in Firm : Capped(u)'
    BY <2>2, DueTyped DEF DueHeld, Capped
  <2> SUFFICES ASSUME NEW q \in Pid, NEW u \in Firm,
                      u \in batch'[q] \/ (job[q] = u /\ pc[q] \notin {"ran", "done"})
               PROVE  Due(u)
    BY <2>2, <2>3, DueTyped DEF DueHeld, Outstanding, Due
  <2> QED BY <2>1, <2>2, DueTyped DEF Outstanding
<1>9. ASSUME NEW p \in Pid, EndSelection(p) PROVE DueHeld'
  BY <1>9, DueTyped, TaskAssumption, Constants DEF EndSelection,
     DueHeld, Outstanding, Capped, Due, InHand,
     InWake, Goto, Todo, End, Unbatch, Child, Dispatching, rows, world
<1>10. ASSUME NEW p \in Pid, NEW t \in Task, RunCommand(p, t) PROVE DueHeld'
  BY <1>10, DueTyped, TaskAssumption, Constants DEF RunCommand,
     DueHeld, Outstanding, Capped, Due, InHand,
     InWake, Goto, Todo, End, Unbatch, Child, Dispatching, rows, world
<1>11. ASSUME NEW p \in Pid, RecordCommand(p) PROVE DueHeld'
  <2>1. job[p] \in Task /\ Owns(p, job[p])
    BY <1>11, HasJob DEF RecordCommand, InWake
  <2>2. (job[p] \in Firm => Due(job[p])) /\ job[p] \notin batch[p]
    BY <1>11, <2>1, DueTyped DEF Outstanding, InHand, RecordCommand
  <2>3. recordRun(job[p], p) /\ pc' = [pc EXCEPT ![p] = "ran"] /\ UNCHANGED <<batch, job>>
    BY <1>11 DEF RecordCommand, Goto
  <2> QED BY <2>1, <2>2, <2>3, RunRecorded
<1>12. ASSUME NEW p \in Pid, ReleaseCommand(p) PROVE DueHeld'
  BY <1>12, DueTyped, TaskAssumption, Constants DEF ReleaseCommand,
     DueHeld, Outstanding, Capped, Due, InHand,
     InWake, Goto, Todo, End, Unbatch, Child, Dispatching, rows, world
<1>13. ASSUME NEW p \in Pid, NEW t \in Task, NEW r \in Pid, Spawn(p, t, r) PROVE DueHeld'
  BY <1>13, DueTyped, TaskAssumption, Constants DEF Spawn,
     DueHeld, Outstanding, Capped, Due, InHand,
     InWake, Goto, Todo, End, Unbatch, Child, Dispatching, rows, world
<1>14. ASSUME NEW p \in Pid, NEW t \in Task, SpawnFails(p, t) PROVE DueHeld'
  BY <1>14, DueTyped, TaskAssumption, Constants DEF SpawnFails,
     DueHeld, Outstanding, Capped, Due, InHand,
     InWake, Goto, Todo, End, Unbatch, Child, Dispatching, rows, world
<1>15. ASSUME NEW p \in Pid, Exit(p) PROVE DueHeld'
  BY <1>15, DueTyped, TaskAssumption, Constants DEF Exit,
     DueHeld, Outstanding, Capped, Due, InHand,
     InWake, Goto, Todo, End, Unbatch, Child, Dispatching, rows, world
<1>16. ASSUME NEW p \in Pid, Boot(p) PROVE DueHeld'
  BY <1>16, DueTyped, TaskAssumption, Constants DEF Boot,
     DueHeld, Outstanding, Capped, Due, InHand,
     InWake, Goto, Todo, End, Unbatch, Child, Dispatching, rows, world
<1>17. ASSUME NEW p \in Pid, BootInactive(p) PROVE DueHeld'
  BY <1>17, DueTyped, TaskAssumption, Constants DEF BootInactive,
     DueHeld, Outstanding, Capped, Due, InHand,
     InWake, Goto, Todo, End, Unbatch, Child, Dispatching, rows, world
<1>18. ASSUME NEW p \in Pid, BootOrphan(p) PROVE DueHeld'
  BY <1>18, DueTyped, TaskAssumption, Constants DEF BootOrphan,
     DueHeld, Outstanding, Capped, Due, InHand,
     InWake, Goto, Todo, End, Unbatch, Child, Dispatching, rows, world
<1>41. ASSUME NEW p \in Pid, ReadRow(p) PROVE DueHeld'
  BY <1>41, DueTyped, TaskAssumption, Constants DEF ReadRow,
     DueHeld, Outstanding, Capped, Due, InHand,
     InWake, Goto, Todo, End, Unbatch, Child, Dispatching, rows, world
<1>19. ASSUME NEW p \in Pid, RunWake(p) PROVE DueHeld'
  BY <1>19, DueTyped, TaskAssumption, Constants DEF RunWake,
     DueHeld, Outstanding, Capped, Due, InHand,
     InWake, Goto, Todo, End, Unbatch, Child, Dispatching, rows, world
<1>20. ASSUME NEW p \in Pid, RecordWake(p) PROVE DueHeld'
  <2>1. job[p] \in Task /\ Owns(p, job[p])
    BY <1>20, HasJob DEF RecordWake, InWake
  <2>2. (job[p] \in Firm => Due(job[p])) /\ job[p] \notin batch[p]
    BY <1>20, <2>1, DueTyped DEF Outstanding, InHand, RecordWake
  <2>3. pc' = [pc EXCEPT ![p] = "done"] /\ UNCHANGED <<batch, job>>
    BY <1>20 DEF RecordWake, Goto
  <2>4. CASE recordRun(job[p], p)
    BY <2>1, <2>2, <2>3, <2>4, RunRecorded
  <2>5. CASE recordReview(job[p])
    <3>1. UNCHANGED <<lag, runs>> /\ \A u \in Task : active'[u] => active[u]
      BY <2>1, <2>5, DueTyped DEF recordReview
    <3>2. /\ \A u \in Firm : Capped(u)'
          /\ \A u \in Task : active'[u] /\ MaxRuns[u] > 0 => runs[u] < MaxRuns[u]
      BY <3>1, DueTyped DEF DueHeld, Capped, Outstanding
    <3> QED BY <2>3, <3>1, <3>2, DueTyped DEF DueHeld, Outstanding, Due
  <2> QED BY <1>20, <2>4, <2>5 DEF RecordWake
<1>21. ASSUME NEW p \in Pid, ReleaseWake(p) PROVE DueHeld'
  BY <1>21, DueTyped, TaskAssumption, Constants DEF ReleaseWake,
     DueHeld, Outstanding, Capped, Due, InHand,
     InWake, Goto, Todo, End, Unbatch, Child, Dispatching, rows, world
<1>22. ASSUME NEW p \in Pid, Crash(p) PROVE DueHeld'
  BY <1>22, DueTyped, TaskAssumption, Constants DEF Crash,
     DueHeld, Outstanding, Capped, Due, InHand,
     InWake, Goto, Todo, End, Unbatch, Child, Dispatching, rows, world
<1>23. ASSUME NEW t \in Task, Cancel(t) PROVE DueHeld'
  BY <1>23, DueTyped, TaskAssumption, Constants DEF Cancel,
     DueHeld, Outstanding, Capped, Due, InHand,
     InWake, Goto, Todo, End, Unbatch, Child, Dispatching, rows, world
<1>24. ASSUME NEW t \in Task, ReviewComesDue(t) PROVE DueHeld'
  BY <1>24, DueTyped, TaskAssumption, Constants DEF ReviewComesDue,
     DueHeld, Outstanding, Capped, Due, InHand,
     InWake, Goto, Todo, End, Unbatch, Child, Dispatching, rows, world
<1>25. ASSUME NEW q \in Persona, Talk(q) PROVE DueHeld'
  BY <1>25, DueTyped, TaskAssumption, Constants DEF Talk,
     DueHeld, Outstanding, Capped, Due, InHand,
     InWake, Goto, Todo, End, Unbatch, Child, Dispatching, rows, world
<1>26. ASSUME NEW q \in Persona, Remove(q) PROVE DueHeld'
  BY <1>26, DueTyped, TaskAssumption, Constants DEF Remove,
     DueHeld, Outstanding, Capped, Due, InHand,
     InWake, Goto, Todo, End, Unbatch, Child, Dispatching, rows, world
<1>27. ASSUME Tick PROVE DueHeld'
  <2>1. \A t \in Task : lag[t] >= 0 => lag'[t] >= 0
    <3> SUFFICES ASSUME NEW t \in Task, lag[t] >= 0 PROVE Smaller(lag[t] + 1, MaxLag) >= 0
      BY <1>27 DEF Tick
    <3> QED BY DueTyped, Constants DEF Smaller
  <2> QED BY <1>27, <2>1, DueTyped DEF Tick, DueHeld, Outstanding, Capped, Due
<1>28. ASSUME NEW p \in Pid, NEW t \in Task, NEW r \in Pid, SpawnUnadopted(p, t, r) PROVE DueHeld'
  BY <1>28, DueTyped, TaskAssumption, Constants DEF SpawnUnadopted,
     Outstanding, DueHeld, Capped, Due, InHand,
     InWake, Goto, Todo, End, Unbatch, Child, Dispatching, rows, world, Firm, Task
<1> QED
  BY <1>1, <1>2, <1>3, <1>4, <1>5, <1>6, <1>7, <1>8, <1>9, <1>10, <1>11, <1>12, <1>13, <1>14,
     <1>15, <1>16, <1>17, <1>18, <1>41, <1>19, <1>20, <1>21, <1>22, <1>23, <1>24, <1>25, <1>26, <1>27,
     <1>28 DEF
     Next, Act, Environment

(* Every step keeps the budget that a running task has taken.                   *)
LEMMA TakenKept ==
  ASSUME IInv, Next, \A p \in Pid, t \in Task : ~Take(p, t)
  PROVE  Taken' \subseteq Taken
<1>1. ASSUME NEW p \in Pid, Start(p) PROVE Taken' \subseteq Taken
  BY <1>1, HandTyped, TaskAssumption DEF Start, Taken, Owns,
     Goto, Todo, End, Unbatch, Child, Dispatching, rows, world
<1>2. ASSUME NEW p \in Pid, ListStale(p) PROVE Taken' \subseteq Taken
  BY <1>2, HandTyped, TaskAssumption DEF ListStale, Taken, Owns,
     Goto, Todo, End, Unbatch, Child, Dispatching, rows, world
<1>3. ASSUME NEW p \in Pid, NEW t \in Task, Sweep(p, t) PROVE Taken' \subseteq Taken
  BY <1>3, HandTyped, TaskAssumption DEF Sweep, Taken, Owns,
     Goto, Todo, End, Unbatch, Child, Dispatching, rows, world
<1>4. ASSUME NEW p \in Pid, ListDue(p) PROVE Taken' \subseteq Taken
  BY <1>4, HandTyped, TaskAssumption DEF ListDue, Taken, Owns,
     Goto, Todo, End, Unbatch, Child, Dispatching, rows, world
<1>5. ASSUME NEW p \in Pid, CountLive(p) PROVE Taken' \subseteq Taken
  BY <1>5, HandTyped, TaskAssumption DEF CountLive, Taken, Owns,
     Goto, Todo, End, Unbatch, Child, Dispatching, rows, world
<1>6. ASSUME NEW p \in Pid, NEW t \in Task, Skip(p, t) PROVE Taken' \subseteq Taken
  BY <1>6, HandTyped, TaskAssumption DEF Skip, Taken, Owns,
     Goto, Todo, End, Unbatch, Child, Dispatching, rows, world
<1>7. ASSUME NEW p \in Pid, NEW t \in Task, Orphan(p, t) PROVE Taken' \subseteq Taken
  BY <1>7, HandTyped, TaskAssumption DEF Orphan, Taken, Owns,
     Goto, Todo, End, Unbatch, Child, Dispatching, rows, world
<1>8. ASSUME NEW p \in Pid, NEW t \in Task, Take(p, t) PROVE Taken' \subseteq Taken
  BY <1>8
<1>9. ASSUME NEW p \in Pid, EndSelection(p) PROVE Taken' \subseteq Taken
  BY <1>9, HandTyped, TaskAssumption DEF EndSelection, Taken, Owns,
     Goto, Todo, End, Unbatch, Child, Dispatching, rows, world
<1>10. ASSUME NEW p \in Pid, NEW t \in Task, RunCommand(p, t) PROVE Taken' \subseteq Taken
  BY <1>10, HandTyped, TaskAssumption DEF RunCommand, Taken, Owns,
     Goto, Todo, End, Unbatch, Child, Dispatching, rows, world
<1>11. ASSUME NEW p \in Pid, RecordCommand(p) PROVE Taken' \subseteq Taken
  BY <1>11, HandTyped, TaskAssumption DEF RecordCommand, Taken, Owns,
     Goto, Todo, End, Unbatch, Child, Dispatching, rows, world
<1>12. ASSUME NEW p \in Pid, ReleaseCommand(p) PROVE Taken' \subseteq Taken
  BY <1>12, HandTyped, TaskAssumption DEF ReleaseCommand, Taken, Owns,
     Goto, Todo, End, Unbatch, Child, Dispatching, rows, world
<1>13. ASSUME NEW p \in Pid, NEW t \in Task, NEW r \in Pid, Spawn(p, t, r) PROVE Taken' \subseteq Taken
  BY <1>13, HandTyped, TaskAssumption DEF Spawn, Taken, Owns,
     Goto, Todo, End, Unbatch, Child, Dispatching, rows, world
<1>14. ASSUME NEW p \in Pid, NEW t \in Task, SpawnFails(p, t) PROVE Taken' \subseteq Taken
  BY <1>14, HandTyped, TaskAssumption DEF SpawnFails, Taken, Owns,
     Goto, Todo, End, Unbatch, Child, Dispatching, rows, world
<1>15. ASSUME NEW p \in Pid, Exit(p) PROVE Taken' \subseteq Taken
  BY <1>15, HandTyped, TaskAssumption DEF Exit, Taken, Owns,
     Goto, Todo, End, Unbatch, Child, Dispatching, rows, world
<1>16. ASSUME NEW p \in Pid, Boot(p) PROVE Taken' \subseteq Taken
  BY <1>16, HandTyped, TaskAssumption DEF Boot, Taken, Owns,
     Goto, Todo, End, Unbatch, Child, Dispatching, rows, world
<1>17. ASSUME NEW p \in Pid, BootInactive(p) PROVE Taken' \subseteq Taken
  BY <1>17, HandTyped, TaskAssumption DEF BootInactive, Taken, Owns,
     Goto, Todo, End, Unbatch, Child, Dispatching, rows, world
<1>18. ASSUME NEW p \in Pid, BootOrphan(p) PROVE Taken' \subseteq Taken
  BY <1>18, HandTyped, TaskAssumption DEF BootOrphan, Taken, Owns,
     Goto, Todo, End, Unbatch, Child, Dispatching, rows, world
<1>41. ASSUME NEW p \in Pid, ReadRow(p) PROVE Taken' \subseteq Taken
  BY <1>41, HandTyped, TaskAssumption DEF ReadRow, Taken, Owns,
     Goto, Todo, End, Unbatch, Child, Dispatching, rows, world
<1>19. ASSUME NEW p \in Pid, RunWake(p) PROVE Taken' \subseteq Taken
  BY <1>19, HandTyped, TaskAssumption DEF RunWake, Taken, Owns,
     Goto, Todo, End, Unbatch, Child, Dispatching, rows, world
<1>20. ASSUME NEW p \in Pid, RecordWake(p) PROVE Taken' \subseteq Taken
  BY <1>20, HandTyped, TaskAssumption DEF RecordWake, Taken, Owns,
     Goto, Todo, End, Unbatch, Child, Dispatching, rows, world
<1>21. ASSUME NEW p \in Pid, ReleaseWake(p) PROVE Taken' \subseteq Taken
  BY <1>21, HandTyped, TaskAssumption DEF ReleaseWake, Taken, Owns,
     Goto, Todo, End, Unbatch, Child, Dispatching, rows, world
<1>22. ASSUME NEW p \in Pid, Crash(p) PROVE Taken' \subseteq Taken
  BY <1>22, HandTyped, TaskAssumption DEF Crash, Taken, Owns,
     Goto, Todo, End, Unbatch, Child, Dispatching, rows, world
<1>23. ASSUME NEW t \in Task, Cancel(t) PROVE Taken' \subseteq Taken
  BY <1>23, HandTyped, TaskAssumption DEF Cancel, Taken, Owns,
     Goto, Todo, End, Unbatch, Child, Dispatching, rows, world
<1>24. ASSUME NEW t \in Task, ReviewComesDue(t) PROVE Taken' \subseteq Taken
  BY <1>24, HandTyped, TaskAssumption DEF ReviewComesDue, Taken, Owns,
     Goto, Todo, End, Unbatch, Child, Dispatching, rows, world
<1>25. ASSUME NEW q \in Persona, Talk(q) PROVE Taken' \subseteq Taken
  BY <1>25, HandTyped, TaskAssumption DEF Talk, Taken, Owns,
     Goto, Todo, End, Unbatch, Child, Dispatching, rows, world
<1>26. ASSUME NEW q \in Persona, Remove(q) PROVE Taken' \subseteq Taken
  BY <1>26, HandTyped, TaskAssumption DEF Remove, Taken, Owns,
     Goto, Todo, End, Unbatch, Child, Dispatching, rows, world
<1>27. ASSUME Tick PROVE Taken' \subseteq Taken
  BY <1>27, HandTyped, TaskAssumption DEF Tick, Taken, Owns,
     Goto, Todo, End, Unbatch, Child, Dispatching, rows, world
<1>28. ASSUME NEW p \in Pid, NEW t \in Task, NEW r \in Pid, SpawnUnadopted(p, t, r) PROVE Taken' \subseteq Taken
  BY <1>28, HandTyped, TaskAssumption DEF SpawnUnadopted, Taken, Owns,
     Goto, Todo, End, Unbatch, Child, Dispatching, rows, world
<1> QED
  BY <1>1, <1>2, <1>3, <1>4, <1>5, <1>6, <1>7, <1>8, <1>9, <1>10, <1>11, <1>12, <1>13, <1>14,
     <1>15, <1>16, <1>17, <1>18, <1>41, <1>19, <1>20, <1>21, <1>22, <1>23, <1>24, <1>25, <1>26, <1>27,
     <1>28 DEF
     Next, Act, Environment

(* What a tick has listed to sweep only shrinks, and what it counted stays.     *)
Listed(q) ==
  /\ pc'[q] = "sweep" => (pc[q] = "sweep" /\ todo'[q] \subseteq todo[q]) \/ todo'[q] = stale
  /\ pc'[q] = "select" => (pc[q] = "select" /\ lane'[q] = lane[q]) \/ lane'[q] = live \cap Wake

(* What the lists of a tick rely on.                                            *)
LEMMA ListTyped ==
  IInv => /\ pc \in [Pid -> PC] /\ todo \in [Pid -> SUBSET Task] /\ lane \in [Pid -> SUBSET Wake]
          /\ LockHeld /\ SweptFree /\ Counted /\ LanesCapped
  BY DEF IInv, TypeOK

(* Every step keeps owned tasks off the list of a sweep.                        *)
LEMMA ListKept ==
  ASSUME IInv, Next, \A p \in Pid, t \in Task : ~Take(p, t)
  PROVE  \A q \in Pid : Listed(q)
<1>1. ASSUME NEW p \in Pid, Start(p) PROVE \A q \in Pid : Listed(q)
  BY <1>1, ListTyped DEF Start, Listed,
     Goto, Todo, End, Child, rows, world
<1>2. ASSUME NEW p \in Pid, ListStale(p) PROVE \A q \in Pid : Listed(q)
  BY <1>2, ListTyped DEF ListStale, Listed,
     Goto, Todo, End, Child, rows, world
<1>3. ASSUME NEW p \in Pid, NEW t \in Task, Sweep(p, t) PROVE \A q \in Pid : Listed(q)
  BY <1>3, ListTyped DEF Sweep, Listed,
     Goto, Todo, End, Child, rows, world
<1>4. ASSUME NEW p \in Pid, ListDue(p) PROVE \A q \in Pid : Listed(q)
  BY <1>4, ListTyped DEF ListDue, Listed,
     Goto, Todo, End, Child, rows, world
<1>5. ASSUME NEW p \in Pid, CountLive(p) PROVE \A q \in Pid : Listed(q)
  BY <1>5, ListTyped DEF CountLive, Listed,
     Goto, Todo, End, Child, rows, world
<1>6. ASSUME NEW p \in Pid, NEW t \in Task, Skip(p, t) PROVE \A q \in Pid : Listed(q)
  BY <1>6, ListTyped DEF Skip, Listed,
     Goto, Todo, End, Child, rows, world
<1>7. ASSUME NEW p \in Pid, NEW t \in Task, Orphan(p, t) PROVE \A q \in Pid : Listed(q)
  BY <1>7, ListTyped DEF Orphan, Listed,
     Goto, Todo, End, Child, rows, world
<1>8. ASSUME NEW p \in Pid, NEW t \in Task, Take(p, t) PROVE \A q \in Pid : Listed(q)
  BY <1>8
<1>9. ASSUME NEW p \in Pid, EndSelection(p) PROVE \A q \in Pid : Listed(q)
  BY <1>9, ListTyped DEF EndSelection, Listed,
     Goto, Todo, End, Child, rows, world
<1>10. ASSUME NEW p \in Pid, NEW t \in Task, RunCommand(p, t) PROVE \A q \in Pid : Listed(q)
  BY <1>10, ListTyped DEF RunCommand, Listed,
     Goto, Todo, End, Child, rows, world
<1>11. ASSUME NEW p \in Pid, RecordCommand(p) PROVE \A q \in Pid : Listed(q)
  BY <1>11, ListTyped DEF RecordCommand, Listed,
     Goto, Todo, End, Child, rows, world
<1>12. ASSUME NEW p \in Pid, ReleaseCommand(p) PROVE \A q \in Pid : Listed(q)
  BY <1>12, ListTyped DEF ReleaseCommand, Listed,
     Goto, Todo, End, Child, rows, world
<1>13. ASSUME NEW p \in Pid, NEW t \in Task, NEW r \in Pid, Spawn(p, t, r) PROVE \A q \in Pid : Listed(q)
  BY <1>13, ListTyped DEF Spawn, Listed,
     Goto, Todo, End, Child, rows, world
<1>14. ASSUME NEW p \in Pid, NEW t \in Task, SpawnFails(p, t) PROVE \A q \in Pid : Listed(q)
  BY <1>14, ListTyped DEF SpawnFails, Listed,
     Goto, Todo, End, Child, rows, world
<1>15. ASSUME NEW p \in Pid, Exit(p) PROVE \A q \in Pid : Listed(q)
  BY <1>15, ListTyped DEF Exit, Listed,
     Goto, Todo, End, Child, rows, world
<1>16. ASSUME NEW p \in Pid, Boot(p) PROVE \A q \in Pid : Listed(q)
  BY <1>16, ListTyped DEF Boot, Listed,
     Goto, Todo, End, Child, rows, world
<1>17. ASSUME NEW p \in Pid, BootInactive(p) PROVE \A q \in Pid : Listed(q)
  BY <1>17, ListTyped DEF BootInactive, Listed,
     Goto, Todo, End, Child, rows, world
<1>18. ASSUME NEW p \in Pid, BootOrphan(p) PROVE \A q \in Pid : Listed(q)
  BY <1>18, ListTyped DEF BootOrphan, Listed,
     Goto, Todo, End, Child, rows, world
<1>41. ASSUME NEW p \in Pid, ReadRow(p) PROVE \A q \in Pid : Listed(q)
  BY <1>41, ListTyped DEF ReadRow, Listed,
     Goto, Todo, End, Child, rows, world
<1>19. ASSUME NEW p \in Pid, RunWake(p) PROVE \A q \in Pid : Listed(q)
  BY <1>19, ListTyped DEF RunWake, Listed,
     Goto, Todo, End, Child, rows, world
<1>20. ASSUME NEW p \in Pid, RecordWake(p) PROVE \A q \in Pid : Listed(q)
  BY <1>20, ListTyped DEF RecordWake, Listed,
     Goto, Todo, End, Child, rows, world
<1>21. ASSUME NEW p \in Pid, ReleaseWake(p) PROVE \A q \in Pid : Listed(q)
  BY <1>21, ListTyped DEF ReleaseWake, Listed,
     Goto, Todo, End, Child, rows, world
<1>22. ASSUME NEW p \in Pid, Crash(p) PROVE \A q \in Pid : Listed(q)
  BY <1>22, ListTyped DEF Crash, Listed,
     Goto, Todo, End, Child, rows, world
<1>23. ASSUME NEW t \in Task, Cancel(t) PROVE \A q \in Pid : Listed(q)
  BY <1>23, ListTyped DEF Cancel, Listed,
     Goto, Todo, End, Child, rows, world
<1>24. ASSUME NEW t \in Task, ReviewComesDue(t) PROVE \A q \in Pid : Listed(q)
  BY <1>24, ListTyped DEF ReviewComesDue, Listed,
     Goto, Todo, End, Child, rows, world
<1>25. ASSUME NEW r \in Persona, Talk(r) PROVE \A q \in Pid : Listed(q)
  BY <1>25, ListTyped DEF Talk, Listed,
     Goto, Todo, End, Child, rows, world
<1>26. ASSUME NEW r \in Persona, Remove(r) PROVE \A q \in Pid : Listed(q)
  BY <1>26, ListTyped DEF Remove, Listed,
     Goto, Todo, End, Child, rows, world
<1>27. ASSUME Tick PROVE \A q \in Pid : Listed(q)
  BY <1>27, ListTyped DEF Tick, Listed,
     Goto, Todo, End, Child, rows, world
<1>28. ASSUME NEW p \in Pid, NEW t \in Task, NEW r \in Pid, SpawnUnadopted(p, t, r) PROVE \A q \in Pid : Listed(q)
  BY <1>28, ListTyped DEF SpawnUnadopted, Listed,
     Goto, Todo, End, Child, rows, world
<1> QED
  BY <1>1, <1>2, <1>3, <1>4, <1>5, <1>6, <1>7, <1>8, <1>9, <1>10, <1>11, <1>12, <1>13, <1>14,
     <1>15, <1>16, <1>17, <1>18, <1>41, <1>19, <1>20, <1>21, <1>22, <1>23, <1>24, <1>25, <1>26, <1>27,
     <1>28 DEF
     Next, Act, Environment

(* The wakes of persona q in T.                                                 *)
InLane(T, q) == {t \in T \cap Wake : PersonaOf[t] = q}

(* A lane, and a set that covers it, can be counted.                            *)
LEMMA LaneFinite ==
  ASSUME NEW T \in SUBSET Task, NEW U \in SUBSET Task, NEW q, InLane(T, q) \subseteq U
  PROVE  IsFiniteSet(U) /\ IsFiniteSet(InLane(T, q)) /\ Cardinality(U) \in Nat
         /\ Cardinality(InLane(T, q)) \in Nat /\ Cardinality(InLane(T, q)) <= Cardinality(U)
<1>1. IsFiniteSet(U)
  BY TaskAssumption, FS_Subset
<1>2. IsFiniteSet(InLane(T, q)) /\ Cardinality(InLane(T, q)) <= Cardinality(U)
  BY <1>1, FS_Subset
<1> QED BY <1>1, <1>2, FS_CardinalityType

(* A tick that takes a task has looked at everything that is in hand.           *)
LEMMA TakeCounts ==
  ASSUME IInv, NEW p \in Pid, NEW t \in Task, Take(p, t)
  PROVE  SweptFree' /\ Counted' /\ LanesCapped'
<1>1. /\ pc[p] = "select" /\ batch' = [batch EXCEPT ![p] = @ \cup {t}]
      /\ lane' = [lane EXCEPT ![p] = @ \cup ({t} \cap Wake)] /\ UNCHANGED <<lock, pc, job>>
  BY DEF Take, Candidate
<1>2. \A q \in Pid : pc[q] \in {"sweep", "select"} => q = p
  BY <1>1, ListTyped DEF LockHeld
<1>3. Taken' \subseteq Taken \cup {t} /\ Taken' \subseteq Task /\ Taken \subseteq Task
  BY <1>1, HandTyped DEF Taken, Owns, Firm
<1>4. SweptFree'
  BY <1>1, <1>2 DEF SweptFree
<1>5. Taken \cap Wake \subseteq lane[p] /\ lane[p] \subseteq Wake
  BY <1>1, ListTyped DEF Counted
<1>6. Counted'
  BY <1>1, <1>2, <1>3, <1>5, ListTyped DEF Counted
<1>7. LanesCapped'
  <2> SUFFICES ASSUME NEW q \in Persona PROVE Cardinality(InLane(Taken', q)) <= MaxWakes
    BY DEF LanesCapped, InLane
  <2>1. CASE t \in Wake /\ PersonaOf[t] = q
    <3> DEFINE S == inFlight(p, t)
    <3>1. S \subseteq Task /\ InLane(Taken', q) \subseteq S \cup {t}
      BY <1>3, <1>5, <2>1 DEF inFlight, InLane, Task
    <3>2. IsFiniteSet(S) /\ Cardinality(S) \in Nat
      BY <3>1, TaskAssumption, FS_Subset, FS_CardinalityType
    <3>3. Cardinality(S) < MaxWakes
      BY <2>1, <3>2, Constants DEF Take, atCap
    <3>5. S \cup {t} \in SUBSET Task /\ Taken' \in SUBSET Task
      BY <1>3, <3>1
    <3> HIDE DEF S
    <3>6. Cardinality(S \cup {t}) = IF t \in S THEN Cardinality(S) ELSE Cardinality(S) + 1
      BY <3>2, FS_AddElement
    <3>4. Cardinality(S \cup {t}) <= MaxWakes
      <4>1. MaxWakes \in Nat
        BY Constants
      <4> QED BY <3>2, <3>3, <3>6, <4>1
    <3> QED BY <3>1, <3>4, <3>5, LaneFinite, Constants
  <2>2. CASE ~(t \in Wake /\ PersonaOf[t] = q)
    <3>1. InLane(Taken', q) \subseteq InLane(Taken, q)
      BY <1>3, <2>2 DEF InLane
    <3>2. Cardinality(InLane(Taken, q)) <= MaxWakes
      BY ListTyped DEF LanesCapped, InLane
    <3>3. InLane(Taken, q) \in SUBSET Task /\ Taken' \in SUBSET Task
      BY <1>3 DEF InLane
    <3> QED BY <3>1, <3>2, <3>3, LaneFinite, Constants
  <2> QED BY <2>1, <2>2
<1> QED BY <1>4, <1>6, <1>7

(* Every step keeps what ticks have swept and counted true, and the lanes capped. *)
LEMMA LanesKept ==
  ASSUME IInv, Next
  PROVE  SweptFree' /\ Counted' /\ LanesCapped'
<1>1. CASE \E p \in Pid, t \in Task : Take(p, t)
  BY <1>1, TakeCounts
<1>2. CASE \A p \in Pid, t \in Task : ~Take(p, t)
  <2>1. Taken' \subseteq Taken /\ Taken \subseteq Task
    BY <1>2, TakenKept DEF Taken, Firm
  <2>2. \A q \in Pid : Listed(q)
    BY <1>2, ListKept
  <2>3. Taken \subseteq live
    BY InHandLive DEF Taken
  <2>4. SweptFree'
    <3>1. stale \cap live = {}
      BY DEF stale, live
    <3> QED BY <2>1, <2>2, <2>3, <3>1, ListTyped DEF SweptFree, Listed
  <2>5. Counted'
    BY <2>1, <2>2, <2>3, ListTyped DEF Counted, Listed
  <2>6. LanesCapped'
    <3> SUFFICES ASSUME NEW q \in Persona PROVE Cardinality(InLane(Taken', q)) <= MaxWakes
      BY DEF LanesCapped, InLane
    <3>1. InLane(Taken', q) \subseteq InLane(Taken, q) /\ Cardinality(InLane(Taken, q)) <= MaxWakes
      BY <2>1, ListTyped DEF LanesCapped, InLane
    <3>2. InLane(Taken, q) \in SUBSET Task /\ Taken' \in SUBSET Task
      BY <2>1 DEF InLane
    <3> QED BY <3>1, <3>2, LaneFinite, Constants
  <2> QED BY <2>4, <2>5, <2>6
<1> QED BY <1>1, <1>2
-----------------------------------------------------------------------------
(* The invariant. *)

(* The invariant holds at the start.                                            *)
LEMMA InitInv == Init => IInv
<1> SUFFICES ASSUME Init PROVE IInv
  OBVIOUS
<1>1. TypeOK
  <2>1. lag \in [Task -> -TopPeriod..MaxLag]
    <3> DEFINE R == -TopPeriod..MaxLag
    <3>1. \A t \in Task : 0 \in R
      BY Periods, Constants
    <3> HIDE DEF R
    <3>2. lag = [t \in Task |-> 0]
      BY DEF Init
    <3>3. lag \in [Task -> R]
      BY <3>1, <3>2
    <3> QED BY <3>3, Zenon DEF R
  <2>2. since \in [Pid -> 0..Life] /\ left \in [Pid -> 0..TopBudget] /\ faults \in 0..MaxFaults
    BY Budgets, Constants DEF Init
  <2>3. pc \in [Pid -> PC]
    BY DEF Init, PC
  <2>4. /\ active \in [Task -> BOOLEAN] /\ runs \in [Task -> Nat] /\ claim \in [Task -> Claim \cup {None}]
        /\ job \in [Pid -> Task \cup {None}] /\ asReview \in [Pid -> BOOLEAN] /\ fired \in BOOLEAN
    BY DEF Init
  <2>5. todo \in [Pid -> SUBSET Task] /\ lane \in [Pid -> SUBSET Wake] /\ batch \in [Pid -> SUBSET Task]
    BY DEF Init
  <2> QED BY <2>1, <2>2, <2>3, <2>4, <2>5 DEF Init, TypeOK
<1>2. LockHeld /\ InHand /\ Clocks
  BY TaskAssumption, Constants DEF Init, LockHeld, InHand, Clocks, InWake
<1>3. Taken = {}
  BY TaskAssumption DEF Init, Taken, Owns, Firm
<1>4. HandHeld
  BY TaskAssumption DEF Init, HandHeld, Follows, Timely, Owns, Firm
<1>5. DueHeld
  BY TaskAssumption, Constants DEF Init, DueHeld, Outstanding, Capped, Firm
<1>6. SweptFree /\ Counted
  BY <1>3 DEF SweptFree, Counted
<1>7. LanesCapped
  <2>1. \A q \in Persona : {t \in Taken \cap Wake : PersonaOf[t] = q} = {}
    BY <1>3
  <2> QED BY <2>1, FS_EmptySet, Constants DEF LanesCapped
<1> QED BY <1>1, <1>2, <1>4, <1>5, <1>6, <1>7 DEF IInv, HandHeld, DueHeld

(* Every step keeps the types.                                                  *)
LEMMA TypesKept ==
  ASSUME IInv, Next
  PROVE  TypeOK'
<1>1. ASSUME NEW p \in Pid, Start(p) PROVE TypeOK'
  BY <1>1, StartTyped
<1>2. ASSUME NEW p \in Pid, ListStale(p) PROVE TypeOK'
  BY <1>2, ListStaleTyped
<1>3. ASSUME NEW p \in Pid, NEW t \in Task, Sweep(p, t) PROVE TypeOK'
  BY <1>3, SweepTyped
<1>4. ASSUME NEW p \in Pid, ListDue(p) PROVE TypeOK'
  BY <1>4, ListDueTyped
<1>5. ASSUME NEW p \in Pid, CountLive(p) PROVE TypeOK'
  BY <1>5, CountLiveTyped
<1>6. ASSUME NEW p \in Pid, NEW t \in Task, Skip(p, t) PROVE TypeOK'
  BY <1>6, SkipTyped
<1>7. ASSUME NEW p \in Pid, NEW t \in Task, Orphan(p, t) PROVE TypeOK'
  BY <1>7, OrphanTyped
<1>8. ASSUME NEW p \in Pid, NEW t \in Task, Take(p, t) PROVE TypeOK'
  BY <1>8, TakeTyped
<1>9. ASSUME NEW p \in Pid, EndSelection(p) PROVE TypeOK'
  BY <1>9, EndSelectionTyped
<1>10. ASSUME NEW p \in Pid, NEW t \in Task, RunCommand(p, t) PROVE TypeOK'
  BY <1>10, RunCommandTyped
<1>11. ASSUME NEW p \in Pid, RecordCommand(p) PROVE TypeOK'
  BY <1>11, RecordCommandTyped
<1>12. ASSUME NEW p \in Pid, ReleaseCommand(p) PROVE TypeOK'
  BY <1>12, ReleaseCommandTyped
<1>13. ASSUME NEW p \in Pid, NEW t \in Task, NEW r \in Pid, Spawn(p, t, r) PROVE TypeOK'
  BY <1>13, SpawnTyped
<1>14. ASSUME NEW p \in Pid, NEW t \in Task, SpawnFails(p, t) PROVE TypeOK'
  BY <1>14, SpawnFailsTyped
<1>15. ASSUME NEW p \in Pid, Exit(p) PROVE TypeOK'
  BY <1>15, ExitTyped
<1>16. ASSUME NEW p \in Pid, Boot(p) PROVE TypeOK'
  BY <1>16, BootTyped
<1>17. ASSUME NEW p \in Pid, BootInactive(p) PROVE TypeOK'
  BY <1>17, BootInactiveTyped
<1>18. ASSUME NEW p \in Pid, BootOrphan(p) PROVE TypeOK'
  BY <1>18, BootOrphanTyped
<1>41. ASSUME NEW p \in Pid, ReadRow(p) PROVE TypeOK'
  BY <1>41, ReadRowTyped
<1>19. ASSUME NEW p \in Pid, RunWake(p) PROVE TypeOK'
  BY <1>19, RunWakeTyped
<1>20. ASSUME NEW p \in Pid, RecordWake(p) PROVE TypeOK'
  BY <1>20, RecordWakeTyped
<1>21. ASSUME NEW p \in Pid, ReleaseWake(p) PROVE TypeOK'
  BY <1>21, ReleaseWakeTyped
<1>22. ASSUME NEW p \in Pid, Crash(p) PROVE TypeOK'
  BY <1>22, CrashTyped
<1>23. ASSUME NEW t \in Task, Cancel(t) PROVE TypeOK'
  BY <1>23, CancelTyped
<1>24. ASSUME NEW t \in Task, ReviewComesDue(t) PROVE TypeOK'
  BY <1>24, ReviewComesDueTyped
<1>25. ASSUME NEW q \in Persona, Talk(q) PROVE TypeOK'
  BY <1>25, TalkTyped
<1>26. ASSUME NEW q \in Persona, Remove(q) PROVE TypeOK'
  BY <1>26, RemoveTyped
<1>27. ASSUME Tick PROVE TypeOK'
  BY <1>27, TickTyped
<1>28. ASSUME NEW p \in Pid, NEW t \in Task, NEW r \in Pid, SpawnUnadopted(p, t, r) PROVE TypeOK'
  BY <1>28, Types, Constants, Budgets DEF TypeOK, SpawnUnadopted, Goto, Todo, PC, Unbatch, Child,
     Dispatching, Claims, rows, world
<1> QED
  BY <1>1, <1>2, <1>3, <1>4, <1>5, <1>6, <1>7, <1>8, <1>9, <1>10, <1>11, <1>12, <1>13, <1>14,
     <1>15, <1>16, <1>17, <1>18, <1>41, <1>19, <1>20, <1>21, <1>22, <1>23, <1>24, <1>25, <1>26, <1>27,
     <1>28 DEF
     Next, Act, Environment

(* The invariant is inductive.                                                  *)
LEMMA StepInv == IInv /\ [Next]_vars => IInv'
<1>1. ASSUME IInv, Next PROVE IInv'
  BY <1>1, TypesKept, ControlKept, HandKept, DueKept, LanesKept DEF IInv, HandHeld, DueHeld
<1>2. ASSUME IInv, UNCHANGED vars PROVE IInv'
  BY <1>2 DEF vars, rows, world, IInv, TypeOK, LockHeld, InHand, Follows, Clocks, Timely,
     Outstanding, Due, Capped, SweptFree, Counted, LanesCapped, Taken, Owns
<1> QED BY <1>1, <1>2

(* The invariant holds in every reachable state.                                *)
THEOREM Invariance == Spec => []IInv
  BY InitInv, StepInv, PTL DEF Spec

(* A task with a firm claim is in one hand, which the claim names, and never    *)
(* runs more often than it may: whatever becomes of other tasks, whose claims   *)
(* run out in the batch or are lost at a handoff.  Commands have no handoff.    *)
THEOREM FirmClaims ==
  Spec => [](\A t \in Firm : /\ \A p, q \in Pid : Owns(p, t) /\ Owns(q, t) => p = q
                             /\ \A p \in Pid : Follows(p, t)
                             /\ Capped(t))
<1>1. IInv => \A t \in Firm : /\ \A p, q \in Pid : Owns(p, t) /\ Owns(q, t) => p = q
                              /\ \A p \in Pid : Follows(p, t)
                              /\ Capped(t)
  BY InOneHand DEF IInv
<1> QED BY <1>1, Invariance, PTL

(* No task is ever run by two processes at once.                                *)
THEOREM RunsAlone == ASSUME Orderly PROVE Spec => []OneRun
<1>1. IInv => OneRun
  <2> SUFFICES ASSUME IInv, NEW p \in Pid, NEW q \in Pid, Running(p), Running(q), job[p] = job[q]
               PROVE  p = q
    BY DEF OneRun
  <2>1. job[p] \in Firm /\ Owns(p, job[p]) /\ Owns(q, job[p])
    BY HasJob DEF Running, InWake, Orderly
  <2> QED BY <2>1, InOneHand
<1> QED BY <1>1, Invariance, PTL

(* Whoever has a task in hand is named by its claim.                            *)
THEOREM ClaimsFollow == ASSUME Orderly PROVE Spec => []ClaimFollowsRunner
<1>1. IInv => ClaimFollowsRunner
  BY DEF IInv, ClaimFollowsRunner, Orderly
<1> QED BY <1>1, Invariance, PTL

(* max_runs is never exceeded.                                                  *)
THEOREM RunsLimited == ASSUME Orderly PROVE Spec => []RunsCapped
<1>1. IInv => RunsCapped
  BY DEF IInv, RunsCapped, Orderly
<1> QED BY <1>1, Invariance, PTL

(* No persona has more wakes under way than the cap, whatever ticks overlap.    *)
THEOREM WakesLimited == ASSUME Orderly PROVE Spec => []WakesCapped
<1>1. ASSUME IInv, NEW q \in Persona
      PROVE  Cardinality({p \in Pid : pc[p] \in InWake /\ PersonaOf[job[p]] = q}) <= MaxWakes
  <2> DEFINE S == {p \in Pid : pc[p] \in InWake /\ PersonaOf[job[p]] = q}
             T == InLane(Taken, q)
             f == [p \in S |-> job[p]]
  <2>1. \A p \in S : job[p] \in Wake /\ job[p] \in Task /\ Owns(p, job[p])
    BY <1>1, HasJob, HandTyped DEF InHand
  <2>2. \A p \in S : f[p] \in T
    BY <2>1 DEF InLane, Taken, Orderly
  <2>3. \A p, r \in S : f[p] = f[r] => p = r
    BY <1>1, <2>1, InOneHand DEF Orderly
  <2>4. f \in Injection(S, T)
    BY <2>2, <2>3 DEF Injection, IsInjective
  <2>5. IsFiniteSet(T) /\ Cardinality(T) <= MaxWakes /\ Cardinality(T) \in Nat
    <3>1. T \in SUBSET Task /\ Taken \in SUBSET Task
      BY DEF InLane, Taken, Firm
    <3>2. Cardinality(T) <= MaxWakes
      BY <1>1, ListTyped DEF LanesCapped, InLane
    <3> QED BY <3>1, <3>2, LaneFinite
  <2>6. IsFiniteSet(S) /\ Cardinality(S) <= Cardinality(T)
    <3> HIDE DEF S, T, f
    <3> QED BY <2>4, <2>5, FS_Injection
  <2>7. Cardinality(S) \in Nat
    BY <2>6, FS_CardinalityType
  <2> QED BY <2>5, <2>6, <2>7, Constants
<1>2. IInv => WakesCapped
  BY <1>1 DEF WakesCapped
<1> QED BY <1>2, Invariance, PTL

(* What makes a process run a task with a firm claim finds the task due.        *)
StartsDue == \A q \in Pid : ~Running(q) /\ Running(q)' /\ job'[q] \in Firm => Due(job'[q])

(* Every step that makes a process run such a task finds it due.                *)
LEMMA StartKept ==
  ASSUME IInv, Next
  PROVE  StartsDue
<1>1. ASSUME NEW p \in Pid, Start(p) PROVE StartsDue
  BY <1>1, DueTyped DEF Start, StartsDue, Running,
     Goto, End, Child, rows, world
<1>2. ASSUME NEW p \in Pid, ListStale(p) PROVE StartsDue
  BY <1>2, DueTyped DEF ListStale, StartsDue, Running,
     Goto, End, Child, rows, world
<1>3. ASSUME NEW p \in Pid, NEW t \in Task, Sweep(p, t) PROVE StartsDue
  BY <1>3, DueTyped DEF Sweep, StartsDue, Running,
     Goto, End, Child, rows, world
<1>4. ASSUME NEW p \in Pid, ListDue(p) PROVE StartsDue
  BY <1>4, DueTyped DEF ListDue, StartsDue, Running,
     Goto, End, Child, rows, world
<1>5. ASSUME NEW p \in Pid, CountLive(p) PROVE StartsDue
  BY <1>5, DueTyped DEF CountLive, StartsDue, Running,
     Goto, End, Child, rows, world
<1>6. ASSUME NEW p \in Pid, NEW t \in Task, Skip(p, t) PROVE StartsDue
  BY <1>6, DueTyped DEF Skip, StartsDue, Running,
     Goto, End, Child, rows, world
<1>7. ASSUME NEW p \in Pid, NEW t \in Task, Orphan(p, t) PROVE StartsDue
  BY <1>7, DueTyped DEF Orphan, StartsDue, Running,
     Goto, End, Child, rows, world
<1>8. ASSUME NEW p \in Pid, NEW t \in Task, Take(p, t) PROVE StartsDue
  BY <1>8, DueTyped DEF Take, StartsDue, Running,
     Goto, End, Child, rows, world
<1>9. ASSUME NEW p \in Pid, EndSelection(p) PROVE StartsDue
  BY <1>9, DueTyped DEF EndSelection, StartsDue, Running,
     Goto, End, Child, rows, world
<1>10. ASSUME NEW p \in Pid, NEW t \in Task, RunCommand(p, t) PROVE StartsDue
  <2>1. t \in Firm => Due(t)
    BY <1>10, DueTyped DEF RunCommand, Outstanding
  <2> QED BY <1>10, <2>1, DueTyped DEF RunCommand, StartsDue, Running, Goto
<1>11. ASSUME NEW p \in Pid, RecordCommand(p) PROVE StartsDue
  BY <1>11, DueTyped DEF RecordCommand, StartsDue, Running,
     Goto, End, Child, rows, world
<1>12. ASSUME NEW p \in Pid, ReleaseCommand(p) PROVE StartsDue
  BY <1>12, DueTyped DEF ReleaseCommand, StartsDue, Running,
     Goto, End, Child, rows, world
<1>13. ASSUME NEW p \in Pid, NEW t \in Task, NEW r \in Pid, Spawn(p, t, r) PROVE StartsDue
  BY <1>13, DueTyped DEF Spawn, StartsDue, Running,
     Goto, End, Child, rows, world
<1>14. ASSUME NEW p \in Pid, NEW t \in Task, SpawnFails(p, t) PROVE StartsDue
  BY <1>14, DueTyped DEF SpawnFails, StartsDue, Running,
     Goto, End, Child, rows, world
<1>15. ASSUME NEW p \in Pid, Exit(p) PROVE StartsDue
  BY <1>15, DueTyped DEF Exit, StartsDue, Running,
     Goto, End, Child, rows, world
<1>16. ASSUME NEW p \in Pid, Boot(p) PROVE StartsDue
  <2>1. job[p] \in Firm => Due(job[p])
    BY <1>16, HasJob, DueTyped DEF Boot, Outstanding, InWake
  <2> QED BY <1>16, <2>1, DueTyped DEF Boot, StartsDue, Running, Goto
<1>17. ASSUME NEW p \in Pid, BootInactive(p) PROVE StartsDue
  BY <1>17, DueTyped DEF BootInactive, StartsDue, Running,
     Goto, End, Child, rows, world
<1>18. ASSUME NEW p \in Pid, BootOrphan(p) PROVE StartsDue
  BY <1>18, DueTyped DEF BootOrphan, StartsDue, Running,
     Goto, End, Child, rows, world
<1>41. ASSUME NEW p \in Pid, ReadRow(p) PROVE StartsDue
  BY <1>41, DueTyped DEF ReadRow, StartsDue, Running,
     Goto, End, Child, rows, world
<1>19. ASSUME NEW p \in Pid, RunWake(p) PROVE StartsDue
  BY <1>19, DueTyped DEF RunWake, StartsDue, Running,
     Goto, End, Child, rows, world
<1>20. ASSUME NEW p \in Pid, RecordWake(p) PROVE StartsDue
  BY <1>20, DueTyped DEF RecordWake, StartsDue, Running,
     Goto, End, Child, rows, world
<1>21. ASSUME NEW p \in Pid, ReleaseWake(p) PROVE StartsDue
  BY <1>21, DueTyped DEF ReleaseWake, StartsDue, Running,
     Goto, End, Child, rows, world
<1>22. ASSUME NEW p \in Pid, Crash(p) PROVE StartsDue
  BY <1>22, DueTyped DEF Crash, StartsDue, Running,
     Goto, End, Child, rows, world
<1>23. ASSUME NEW t \in Task, Cancel(t) PROVE StartsDue
  BY <1>23, DueTyped DEF Cancel, StartsDue, Running,
     Goto, End, Child, rows, world
<1>24. ASSUME NEW t \in Task, ReviewComesDue(t) PROVE StartsDue
  BY <1>24, DueTyped DEF ReviewComesDue, StartsDue, Running,
     Goto, End, Child, rows, world
<1>25. ASSUME NEW q \in Persona, Talk(q) PROVE StartsDue
  BY <1>25, DueTyped DEF Talk, StartsDue, Running,
     Goto, End, Child, rows, world
<1>26. ASSUME NEW q \in Persona, Remove(q) PROVE StartsDue
  BY <1>26, DueTyped DEF Remove, StartsDue, Running,
     Goto, End, Child, rows, world
<1>27. ASSUME Tick PROVE StartsDue
  BY <1>27, DueTyped DEF Tick, StartsDue, Running,
     Goto, End, Child, rows, world
<1>28. ASSUME NEW p \in Pid, NEW t \in Task, NEW r \in Pid, SpawnUnadopted(p, t, r) PROVE StartsDue
  BY <1>28, DueTyped DEF SpawnUnadopted, StartsDue, Running,
     Goto, End, Child, rows, world
<1> QED
  BY <1>1, <1>2, <1>3, <1>4, <1>5, <1>6, <1>7, <1>8, <1>9, <1>10, <1>11, <1>12, <1>13, <1>14,
     <1>15, <1>16, <1>17, <1>18, <1>41, <1>19, <1>20, <1>21, <1>22, <1>23, <1>24, <1>25, <1>26, <1>27,
     <1>28 DEF
     Next, Act, Environment

(* Whoever runs a task after a step has one.                                    *)
LEMMA HasJobNext ==
  ASSUME IInv', NEW p \in Pid, Running(p)'
  PROVE  job'[p] \in Task
  BY TaskAssumption DEF IInv, InHand, TypeOK, Running, InWake

(* A task with a firm claim starts only while its fire is outstanding, below    *)
(* max_runs.                                                                    *)
THEOREM FirmStartsDue == Spec => [][StartsDue]_vars
<1>1. IInv /\ [Next]_vars => [StartsDue]_vars
  BY StartKept
<1> QED BY Invariance, <1>1, PTL DEF Spec

(* Every command and every turn starts only while its fire is outstanding.      *)
THEOREM StartsDueOnly == ASSUME Orderly PROVE Spec => StartsWhenDue
<1>1. IInv /\ [Next]_vars =>
        [\A p \in Pid : ~Running(p) /\ Running(p)' =>
           LET t == job'[p] IN lag[t] >= 0 /\ (MaxRuns[t] > 0 => runs[t] < MaxRuns[t])]_vars
  <2> SUFFICES ASSUME IInv, Next, NEW p \in Pid, ~Running(p), Running(p)' PROVE Due(job'[p])
    BY DEF Due
  <2>1. job'[p] \in Firm
    BY StepInv, HasJobNext DEF Orderly
  <2> QED BY <2>1, StartKept DEF StartsDue
<1> QED BY Invariance, <1>1, PTL DEF Spec, StartsWhenDue
-----------------------------------------------------------------------------
(* What ClaimsEnd and DueTaskRuns rest on, apart from fairness and time.        *)

(* A firm claim is good for as long as somebody needs it: no sweep that begins  *)
(* now would release it under a run.  And no claim at all is good for ever,     *)
(* whoever has the pid in it by now.                                            *)
THEOREM ClaimsHold ==
  Spec => [](/\ Taken \subseteq live
             /\ \A t \in Task : claim[t] # None /\ claim[t].age = TopAge => t \in stale)
<1>1. IInv => Taken \subseteq live
  BY InHandLive DEF Taken
<1>2. IInv => \A t \in Task : claim[t] # None /\ claim[t].age = TopAge => t \in stale
  <2> SUFFICES ASSUME IInv, NEW t \in Task, claim[t] # None, claim[t].age = TopAge PROVE t \in stale
    OBVIOUS
  <2>1. claim[t] \in Claim
    BY HandTyped DEF Claims
  <2>2. claim[t].budget \in {0, DefaultBudget} \cup {Budget[u] : u \in Task}
    BY <2>1 DEF Claim
  <2>3. claim[t].budget <= TopBudget /\ claim[t].budget \in Nat
    BY <2>2, Budgets, Constants
  <2>4. claimStaleTtl(claim[t]) <= 2 * TopBudget /\ claimStaleTtl(claim[t]) \in Nat
    BY <2>3, Budgets, Constants DEF claimStaleTtl, Larger
  <2>5. claimIsStale(claim[t])
    BY <2>4, Budgets DEF claimIsStale, TopAge
  <2> QED BY <2>5 DEF stale
<1> QED BY <1>1, <1>2, Invariance, PTL

(* Of some due tasks one is the latest.                                         *)
LEMMA Latest ==
  ASSUME IInv, NEW S \in SUBSET Task, S # {}
  PROVE  \E t \in S : \A u \in S : lag[t] >= lag[u]
<1> DEFINE late == [t \in S |-> lag[t] + TopPeriod]
<1>1. late \in [S -> Nat] /\ \A t \in S : lag[t] \in Int /\ TopPeriod \in Int
  BY Periods DEF IInv, TypeOK
<1>2. late \in Surjection(S, {late[t] : t \in S})
  BY <1>1 DEF Surjection
<1>3. IsFiniteSet({late[t] : t \in S})
  BY <1>2, TaskAssumption, FS_Subset, FS_Surjection
<1>4. {late[t] : t \in S} \in SUBSET Nat /\ {late[t] : t \in S} # {}
  BY <1>1
<1>5. PICK n \in {late[t] : t \in S} : \A m \in {late[t] : t \in S} : m <= n
  BY <1>3, <1>4, Largest
<1>6. PICK t \in S : late[t] = n
  BY <1>5
<1>7. ASSUME NEW u \in S PROVE lag[t] >= lag[u]
  <2>1. late[u] <= late[t]
    BY <1>5, <1>6
  <2> QED BY <1>1, <2>1
<1> QED BY <1>7

(* The next task of a selection can always be taken, skipped or dropped: the    *)
(* order of the tasks leaves one to begin with, although their next fires are   *)
(* moved while the selection goes on.                                           *)
THEOREM SelectsOn ==
  Spec => [](\A p \in Pid : pc[p] = "select" /\ todo[p] # {} => \E t \in Task : Candidate(p, t))
<1>1. ASSUME IInv, NEW p \in Pid, pc[p] = "select", todo[p] # {} PROVE \E t \in Task : Candidate(p, t)
  <2>1. todo[p] \in SUBSET Task
    BY <1>1 DEF IInv, TypeOK
  <2>2. CASE todo[p] \cap Command = {}
    <3>1. PICK t \in todo[p] : \A u \in todo[p] : lag[t] >= lag[u]
      BY <1>1, <2>1, Latest
    <3> QED BY <1>1, <2>1, <2>2, <3>1 DEF Candidate
  <2>3. CASE todo[p] \cap Command # {}
    <3>1. PICK t \in todo[p] \cap Command : \A u \in todo[p] \cap Command : lag[t] >= lag[u]
      BY <1>1, <2>1, <2>3, Latest
    <3> QED BY <1>1, <2>1, <3>1, TaskAssumption DEF Candidate, Task
  <2> QED BY <2>2, <2>3
<1>2. IInv => \A p \in Pid : pc[p] = "select" /\ todo[p] # {} => \E t \in Task : Candidate(p, t)
  BY <1>1
<1> QED BY <1>2, Invariance, PTL
=============================================================================
