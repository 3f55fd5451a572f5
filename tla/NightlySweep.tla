------------------------------ MODULE NightlySweep ------------------------------
(* The nightly sweep of one persona: `phantombot nightly` (runNightly of        *)
(* src/cli/nightly.ts) over the daily files and the ledger .nightly-state.json  *)
(* (src/lib/nightly.ts).  Sweeps are started as detached processes by the       *)
(* daemon, the heartbeat and people; a marker in the ledger is to keep them     *)
(* apart, and may fail to.                                                      *)
(*                                                                             *)
(* A step is the code between two awaits.  The ledger is read, truncated and    *)
(* written in three of them; whoever reads it in between reads nothing.         *)
EXTENDS Integers

CONSTANTS
  Pid, None,
  LastDate,        \* the closed days are 1..LastDate, oldest first
  MaxEvents        \* bound: changes of daily files, sweeps of one date, crashes
                   \* and failed stages, together

Date == 1..LastDate
Stages == {"distill", "kb"}
Jobs == {"claim", "beat", "touched", "record", "clear"}

ASSUME SweepAssumption ==
  None \notin Pid \cup Jobs /\ LastDate \in Nat /\ MaxEvents \in Nat

VARIABLES
  version, mtime,  \* the daily files: content (0 without a file), mtime and size
  distilled,       \* history: the content each stage has last worked through
  file,            \* the ledger file
  pc, job,         \* where each sweep is; what the ledger is being saved for
  only,            \* --date, or None
  known,           \* the ledger as it was when the sweep began
  cur,             \* the ledger that the save in progress has read
  left,            \* dates that are still to be looked at
  item,            \* the fingerprint that was taken of each date
  queue, touched,  \* dates to be worked through; dates with another mtime only
  stages, done,    \* of the first date in the queue: under way, succeeded
  taken,           \* pids of other processes
  events

days == <<version, mtime, distilled>>
listing == <<left, item, queue, touched>>
sweeps == <<pc, job, only, known, cur, listing, stages, done>>
vars == <<days, file, sweeps, taken, events>>

NoRecord == [mtime |-> 0, hash |-> 0, done |-> {}]
NoItem == [mtime |-> 0, hash |-> 0]
Nothing == [ledger |-> [d \in Date |-> NoRecord], current |-> None]

(* Plausible bug: a date of which one stage succeeded is a date that is done.   *)
PartlyDistilled(r) == r.done # {}

recordDistilled(r) == r.done = Stages
First(S) == CHOOSE d \in S : \A e \in S : d <= e

Goto(p, l) == pc' = [pc EXCEPT ![p] = l]
Save(p, why) == Goto(p, "read") /\ job' = [job EXCEPT ![p] = why]
Event == events < MaxEvents /\ events' = events + 1
-----------------------------------------------------------------------------
(* The daily files, which captures append to and the journal renders. *)

Grow(d) ==
  /\ Event
  /\ version' = [version EXCEPT ![d] = @ + 1]
  /\ mtime' = [mtime EXCEPT ![d] = @ + 1]
  /\ UNCHANGED <<distilled, file, sweeps, taken>>

Touch(d) ==
  /\ Event /\ version[d] > 0
  /\ mtime' = [mtime EXCEPT ![d] = @ + 1]
  /\ UNCHANGED <<version, distilled, file, sweeps, taken>>
-----------------------------------------------------------------------------
(* A sweep. *)

isProcessAlive(p) == pc[p] # "off" \/ p \in taken

(* Plausible bug: a marker is obeyed as long as its pid is alive.               *)
TrustThePid(current, stale) ==
  IF current # None /\ isProcessAlive(current) THEN "running" ELSE "dead"

(* Where start times of processes cannot be read.  Whether STALE_RUN_MS have    *)
(* gone by since the last beat is left open.                                    *)
sweepLiveness(current, stale) ==
  CASE current = None -> "none"
    [] current # None /\ ~isProcessAlive(current) -> "dead"
    [] OTHER -> IF stale THEN "stalled" ELSE "running"

Begin(p, d) ==
  /\ pc[p] = "off" /\ p \notin taken
  /\ Goto(p, "begin")
  /\ only' = [only EXCEPT ![p] = d]
  /\ UNCHANGED <<days, file, job, known, cur, listing, stages, done, taken>>

(* The daemon has started, the day has rolled over, or somebody asks for it.    *)
Start(p) == Begin(p, None) /\ UNCHANGED events
StartDate(p) == Event /\ \E d \in Date : Begin(p, d)

(* The end of the process.                                                      *)
Gone(p) ==
  /\ Goto(p, "off")
  /\ job' = [job EXCEPT ![p] = None]
  /\ only' = [only EXCEPT ![p] = None]
  /\ known' = [known EXCEPT ![p] = Nothing.ledger]
  /\ cur' = [cur EXCEPT ![p] = Nothing]
  /\ left' = [left EXCEPT ![p] = {}]
  /\ item' = [item EXCEPT ![p] = [d \in Date |-> NoItem]]
  /\ queue' = [queue EXCEPT ![p] = {}]
  /\ touched' = [touched EXCEPT ![p] = {}]
  /\ stages' = [stages EXCEPT ![p] = {}]
  /\ done' = [done EXCEPT ![p] = {}]

(* The marker is looked at here and written by the save that follows: a second  *)
(* sweep may look in between.  With --force (only sweeps of one date use it     *)
(* here) it is not looked at.                                                   *)
StandDown(p) ==
  /\ pc[p] = "begin"
  /\ \E stale \in BOOLEAN : sweepLiveness(file.current, stale) = "running"
  /\ Gone(p)
  /\ UNCHANGED <<days, file, taken, events>>

Claim(p) ==
  /\ pc[p] = "begin"
  /\ \/ only[p] # None
     \/ \E stale \in BOOLEAN : sweepLiveness(file.current, stale) # "running"
  /\ known' = [known EXCEPT ![p] = file.ledger]
  /\ Save(p, "claim")
  /\ UNCHANGED <<days, file, only, cur, listing, stages, done, taken, events>>
-----------------------------------------------------------------------------
(* saveNightlyState: load, merge the patch, write. *)

Read(p) ==
  /\ pc[p] = "read"
  /\ cur' = [cur EXCEPT ![p] = file]
  /\ Goto(p, "truncate")
  /\ UNCHANGED <<days, file, job, only, known, listing, stages, done, taken, events>>

Truncate(p) ==
  /\ pc[p] = "truncate"
  /\ file' = Nothing
  /\ Goto(p, "write")
  /\ UNCHANGED <<days, job, only, known, cur, listing, stages, done, taken, events>>

(* Plausible bug: the fingerprint is that of the file when its date is done.    *)
RecordNow(p, d) == [mtime |-> mtime[d], hash |-> item[p][d].hash, done |-> done[p]]

dateRecord(p, d) == [mtime |-> item[p][d].mtime, hash |-> item[p][d].hash, done |-> done[p]]

(* Refreshed from what the sweep knew, not from what is in the file by now.     *)
refreshed(p, d) == [known[p][d] EXCEPT !.mtime = item[p][d].mtime]

merged(p) ==
  CASE job[p] \in {"claim", "beat"} -> [cur[p] EXCEPT !.current = p]
    [] job[p] = "touched" ->
         [cur[p] EXCEPT !.ledger = [d \in Date |->
            IF d \in touched[p] THEN refreshed(p, d) ELSE @[d]]]
    [] job[p] = "record" ->
         [cur[p] EXCEPT !.ledger[First(queue[p])] = dateRecord(p, First(queue[p]))]
    [] OTHER -> [cur[p] EXCEPT !.current = None]

(* Over what another sweep has written since the truncation, the shorter of the *)
(* two leaves a tail of the longer one behind, and the file cannot be parsed.   *)
Written(p) == {merged(p)} \cup (IF file = Nothing THEN {} ELSE {Nothing})

(* What the write is followed by: the listing, the stages of a date, the beat   *)
(* before the next date or the tail, the end.  The beats and the save of the    *)
(* compaction and the review, before that of the tail, are left out.            *)
Then(p) ==
  CASE job[p] = "claim" -> [at |-> "readdir", job |-> None]
    [] job[p] = "beat" /\ queue[p] # {} -> [at |-> "stages", job |-> None]
    [] job[p] = "beat" /\ queue[p] = {} -> [at |-> "read", job |-> "clear"]
    [] OTHER -> [at |-> "read", job |-> "beat"]

Write(p) ==
  /\ pc[p] = "write" /\ job[p] # "clear"
  /\ file' \in Written(p)
  /\ Goto(p, Then(p).at)
  /\ job' = [job EXCEPT ![p] = Then(p).job]
  /\ cur' = [cur EXCEPT ![p] = Nothing]
  /\ queue' = [queue EXCEPT ![p] = IF job[p] = "record" THEN @ \ {First(@)} ELSE @]
  /\ stages' = [stages EXCEPT ![p] = IF Then(p).at = "stages" THEN Stages ELSE {}]
  /\ done' = [done EXCEPT ![p] = {}]
  /\ UNCHANGED <<days, only, known, left, item, touched, taken, events>>

(* The marker goes, whoever's it is by now.                                     *)
Finish(p) ==
  /\ pc[p] = "write" /\ job[p] = "clear"
  /\ file' \in Written(p)
  /\ Gone(p)
  /\ UNCHANGED <<days, taken, events>>
-----------------------------------------------------------------------------
(* sweepDailyFiles and pendingForDate. *)

Wanted(p) == {d \in Date : version[d] > 0 /\ only[p] \in {None, d}}

(* Without a file for --date the sweep ends, and leaves its marker.             *)
NoSuchFile(p) ==
  /\ pc[p] = "readdir" /\ only[p] # None /\ Wanted(p) = {}
  /\ Gone(p)
  /\ UNCHANGED <<days, file, taken, events>>

(* The dates in S are still to be looked at; after the last of them what was    *)
(* touched is saved, if anything was.                                           *)
Remaining(p, S) ==
  /\ left' = [left EXCEPT ![p] = S]
  /\ IF S # {} THEN Goto(p, "stat") /\ UNCHANGED job
                ELSE Save(p, IF touched'[p] # {} THEN "touched" ELSE "beat")

ReadDir(p) ==
  /\ pc[p] = "readdir" /\ (only[p] # None => Wanted(p) # {})
  /\ queue' = [queue EXCEPT ![p] = {}] /\ touched' = [touched EXCEPT ![p] = {}]
  /\ Remaining(p, Wanted(p))
  /\ UNCHANGED <<days, file, only, known, cur, item, stages, done, taken, events>>

Unchanged(p, d) ==
  only[p] = None /\ recordDistilled(known[p][d]) /\ known[p][d].mtime = mtime[d]

PassOver(p) ==
  /\ pc[p] = "stat" /\ Unchanged(p, First(left[p]))
  /\ UNCHANGED touched
  /\ Remaining(p, left[p] \ {First(left[p])})
  /\ UNCHANGED <<days, file, only, known, cur, item, queue, stages, done, taken, events>>

Stat(p) ==
  /\ pc[p] = "stat" /\ ~Unchanged(p, First(left[p]))
  /\ item' = [item EXCEPT ![p][First(left[p])].mtime = mtime[First(left[p])]]
  /\ Goto(p, "hash")
  /\ UNCHANGED <<days, file, job, only, known, cur, left, queue, touched, stages, done,
                 taken, events>>

(* Another content than the record's, or none that is done, is to be worked     *)
(* through; the same content was only touched.                                  *)
Hash(p) ==
  /\ pc[p] = "hash"
  /\ LET d == First(left[p])
         same == only[p] = None /\ recordDistilled(known[p][d]) /\ known[p][d].hash = version[d]
     IN /\ item' = [item EXCEPT ![p][d].hash = version[d]]
        /\ touched' = [touched EXCEPT ![p] = IF same THEN @ \cup {d} ELSE @]
        /\ queue' = [queue EXCEPT ![p] = IF same THEN @ ELSE @ \cup {d}]
        /\ Remaining(p, left[p] \ {d})
  /\ UNCHANGED <<days, file, only, known, cur, stages, done, taken, events>>
-----------------------------------------------------------------------------
(* The dates, oldest first: the two stages of a date run concurrently, read its *)
(* file when they like, and are recorded together.                              *)

StageEnds(p, s) ==
  /\ pc[p] = "stages" /\ s \in stages[p]
  /\ stages' = [stages EXCEPT ![p] = @ \ {s}]
  /\ IF stages[p] = {s} THEN Save(p, "record") ELSE UNCHANGED <<pc, job>>
  /\ UNCHANGED <<version, mtime, file, only, known, cur, listing, taken>>

Stage(p, s) ==
  /\ StageEnds(p, s)
  /\ distilled' = [distilled EXCEPT ![First(queue[p])][s] = version[First(queue[p])]]
  /\ done' = [done EXCEPT ![p] = @ \cup {s}]
  /\ UNCHANGED events

StageFails(p, s) ==
  /\ Event
  /\ StageEnds(p, s)
  /\ UNCHANGED <<distilled, done>>
-----------------------------------------------------------------------------
(* The machine goes down or the sweep is killed with the unit that started it.  *)
Crash(p) ==
  /\ Event
  /\ pc[p] # "off"
  /\ Gone(p)
  /\ UNCHANGED <<days, file, taken>>

(* A process that is no sweep gets the pid of a former one and keeps it.        *)
Recycle(p) ==
  /\ pc[p] = "off" /\ taken = {}
  /\ taken' = {p}
  /\ UNCHANGED <<days, file, sweeps, events>>
-----------------------------------------------------------------------------
Init ==
  /\ version \in [Date -> 0..1]
  /\ mtime = version
  /\ distilled = [d \in Date |-> [s \in Stages |-> 0]]
  /\ file = Nothing
  /\ pc = [p \in Pid |-> "off"]
  /\ job = [p \in Pid |-> None]
  /\ only = [p \in Pid |-> None]
  /\ known = [p \in Pid |-> Nothing.ledger]
  /\ cur = [p \in Pid |-> Nothing]
  /\ left = [p \in Pid |-> {}]
  /\ item = [p \in Pid |-> [d \in Date |-> NoItem]]
  /\ queue = [p \in Pid |-> {}]
  /\ touched = [p \in Pid |-> {}]
  /\ stages = [p \in Pid |-> {}]
  /\ done = [p \in Pid |-> {}]
  /\ taken = {} /\ events = 0

Run(p) ==
  \/ StandDown(p) \/ Claim(p)
  \/ Read(p) \/ Truncate(p) \/ Write(p) \/ Finish(p)
  \/ NoSuchFile(p) \/ ReadDir(p) \/ PassOver(p) \/ Stat(p) \/ Hash(p)
  \/ \E s \in Stages : Stage(p, s)

Next ==
  \/ \E d \in Date : Grow(d) \/ Touch(d)
  \/ \E p \in Pid : Start(p) \/ StartDate(p) \/ Run(p) \/ Crash(p) \/ Recycle(p)
  \/ \E p \in Pid, s \in Stages : StageFails(p, s)

Spec == Init /\ [][Next]_vars

(* Days roll over, a sweep does not stop for ever between two steps (its turns  *)
(* have a timeout), and a marker that is met again and again is met stale.      *)
FairSpec ==
  /\ Spec
  /\ WF_vars(\E p \in Pid : Start(p))
  /\ \A p \in Pid : WF_vars(Run(p)) /\ SF_vars(Claim(p))
-----------------------------------------------------------------------------
(* Properties. *)

Records == [mtime : Nat, hash : Nat, done : SUBSET Stages]
Files == [ledger : [Date -> Records], current : Pid \cup {None}]
Places == {"off", "begin", "read", "truncate", "write", "readdir", "stat", "hash", "stages"}

TypeOK ==
  /\ version \in [Date -> Nat] /\ mtime \in [Date -> Nat]
  /\ distilled \in [Date -> [Stages -> Nat]]
  /\ file \in Files
  /\ pc \in [Pid -> Places]
  /\ job \in [Pid -> Jobs \cup {None}]
  /\ only \in [Pid -> Date \cup {None}]
  /\ known \in [Pid -> [Date -> Records]]
  /\ cur \in [Pid -> Files]
  /\ left \in [Pid -> SUBSET Date]
  /\ item \in [Pid -> [Date -> [mtime : Nat, hash : Nat]]]
  /\ queue \in [Pid -> SUBSET Date] /\ touched \in [Pid -> SUBSET Date]
  /\ stages \in [Pid -> SUBSET Stages] /\ done \in [Pid -> SUBSET Stages]
  /\ taken \subseteq Pid
  /\ events \in Nat

(* A fingerprint is of a content that the file had when its mtime was that one, *)
(* or of a later one, if the file has changed since.                            *)
Seen(d, i) ==
  /\ i.mtime <= mtime[d] /\ i.hash <= version[d]
  /\ i.mtime = mtime[d] => i.hash = version[d]

(* What a ledger, or a copy of one, calls distilled has been worked through.    *)
Truthful(ledger) ==
  \A d \in Date : recordDistilled(ledger[d]) =>
    Seen(d, ledger[d]) /\ \A s \in Stages : ledger[d].hash <= distilled[d][s]

Ledgers ==
  /\ Truthful(file.ledger)
  /\ \A p \in Pid : Truthful(known[p]) /\ Truthful(cur[p].ledger)

NoneAhead == \A d \in Date, s \in Stages : distilled[d][s] <= version[d]

Listing(p) ==
  /\ \A d \in queue[p] \cup touched[p] : d \notin left[p] /\ Seen(d, item[p][d])
  /\ \A d \in touched[p] :
       recordDistilled(known[p][d]) /\ known[p][d].hash = item[p][d].hash
  /\ pc[p] \in {"off", "begin"} => touched[p] = {}
  /\ pc[p] \in {"stat", "hash"} => left[p] # {}
  /\ pc[p] = "hash" => item[p][First(left[p])].mtime <= mtime[First(left[p])]

Working(p) ==
  /\ job[p] = "record" => pc[p] \in {"read", "truncate", "write"}
  /\ pc[p] = "stages" \/ job[p] = "record" =>
       /\ queue[p] # {}
       /\ \A s \in done[p] : item[p][First(queue[p])].hash <= distilled[First(queue[p])][s]

(* The inductive invariant: every copy of the ledger that a sweep may still     *)
(* write is as truthful as the ledger.                                          *)
IInv == TypeOK /\ NoneAhead /\ Ledgers /\ \A p \in Pid : Listing(p) /\ Working(p)

(* What isDailyDistilled and the next sweep pass over, by mtime and size alone, *)
(* has been worked through by both stages as it is now: a capture that came     *)
(* while the day was being listed, distilled or recorded, or beside a second    *)
(* sweep, is not hidden by the record.                                          *)
NothingHidden ==
  \A d \in Date :
    LET r == file.ledger[d] IN
      recordDistilled(r) /\ r.mtime = mtime[d] => \A s \in Stages : distilled[d][s] = version[d]

(* Every closed day is distilled in the end, as long as days roll over: neither *)
(* the marker of a dead or stalled sweep, nor a failed stage, nor a ledger that *)
(* was torn or overwritten by another sweep holds it back for ever.             *)
DaysDistilled == \A d \in Date : []<>(\A s \in Stages : distilled[d][s] = version[d])
=============================================================================
