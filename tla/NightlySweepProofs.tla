--------------------------- MODULE NightlySweepProofs ---------------------------
(* Proofs about the ledger of the nightly sweep: whatever sweeps overlap, crash  *)
(* or overwrite one another, no record hides a change of a daily file.           *)
EXTENDS NightlySweep, WellFoundedInduction, TLAPS

LEMMA OldestDate ==
  ASSUME NEW S \in SUBSET Date, S # {}
  PROVE  First(S) \in S /\ First(S) \in Date
<1> DEFINE R == OpToRel(<, Nat)
<1>1. IsWellFoundedOn(R, Nat)
  BY NatLessThanWellFounded
<1>2. \A a, b \in Nat : a < b => <<a, b>> \in R
  BY DEF OpToRel
<1>3. S \subseteq Nat
  BY SweepAssumption DEF Date
<1> HIDE DEF R
<1>4. PICK x \in S : \A y \in S : <<y, x>> \notin R
  BY <1>1, <1>3, WFMin
<1>5. ASSUME NEW y \in S PROVE x <= y
  <2>1. x \in Nat /\ y \in Nat
    BY <1>3
  <2>2. ~(y < x)
    BY <1>2, <1>4, <2>1, Zenon
  <2> QED BY <2>1, <2>2
<1> QED BY <1>5 DEF First
-----------------------------------------------------------------------------
(* Types. *)

LEMMA NothingTyped == Nothing \in Files /\ Nothing.ledger \in [Date -> Records] /\ Nothing.current = None
  BY DEF Nothing, Files, Records, NoRecord

LEMMA InitTyped == ASSUME Init PROVE TypeOK
<1>1. version \in [Date -> Nat] /\ mtime \in [Date -> Nat] /\ distilled \in [Date -> [Stages -> Nat]]
  <2>1. version \in [Date -> 0..1] /\ 0..1 \subseteq Nat
    BY DEF Init
  <2> QED BY <2>1 DEF Init
<1>2. /\ pc \in [Pid -> Places] /\ job \in [Pid -> Jobs \cup {None}]
      /\ only \in [Pid -> Date \cup {None}]
      /\ left \in [Pid -> SUBSET Date]
      /\ queue \in [Pid -> SUBSET Date] /\ touched \in [Pid -> SUBSET Date]
      /\ stages \in [Pid -> SUBSET Stages] /\ done \in [Pid -> SUBSET Stages]
      /\ taken \subseteq Pid /\ events \in Nat
  BY DEF Init, Places
<1>3. file \in Files /\ known \in [Pid -> [Date -> Records]] /\ cur \in [Pid -> Files]
  BY NothingTyped DEF Init
<1>4. item \in [Pid -> [Date -> [mtime : Nat, hash : Nat]]]
  BY DEF Init, NoItem
<1> QED BY <1>1, <1>2, <1>3, <1>4 DEF TypeOK

LEMMA GoneTyped ==
  ASSUME TypeOK, NEW p \in Pid, Gone(p), UNCHANGED <<days, taken>>,
         file' \in Files, events' \in Nat
  PROVE  TypeOK'
<1>1. NoItem \in [mtime : Nat, hash : Nat]
  BY DEF NoItem
<1> QED BY <1>1, NothingTyped DEF Gone, Goto, TypeOK, Places, days

LEMMA MergedTyped ==
  ASSUME TypeOK, NEW p \in Pid
  PROVE  merged(p) \in Files
<1>1. cur[p] \in Files /\ done[p] \in SUBSET Stages
  BY DEF TypeOK
<1>2. \A d \in Date : refreshed(p, d) \in Records /\ dateRecord(p, d) \in Records
  <2> SUFFICES ASSUME NEW d \in Date PROVE refreshed(p, d) \in Records /\ dateRecord(p, d) \in Records
    OBVIOUS
  <2>1. known[p][d] \in Records /\ item[p][d] \in [mtime : Nat, hash : Nat]
    BY DEF TypeOK
  <2> QED BY <1>1, <2>1 DEF refreshed, dateRecord, Records
<1>3. CASE job[p] \in {"claim", "beat"}
  BY <1>1, <1>3 DEF merged, Files
<1>4. CASE job[p] = "touched"
  <2>1. merged(p) = [cur[p] EXCEPT !.ledger = [d \in Date |->
                       IF d \in touched[p] THEN refreshed(p, d) ELSE cur[p].ledger[d]]]
    BY <1>4 DEF merged
  <2> QED BY <1>1, <1>2, <2>1 DEF Files
<1>5. CASE job[p] = "record"
  <2> DEFINE x == First(queue[p])
  <2>1. merged(p) = [cur[p] EXCEPT !.ledger[x] = dateRecord(p, x)]
    BY <1>5 DEF merged
  <2> HIDE DEF x
  <2> QED BY <1>1, <1>2, <2>1 DEF Files
<1>6. CASE job[p] \notin {"claim", "beat", "touched", "record"}
  BY <1>1, <1>6 DEF merged, Files
<1> QED BY <1>3, <1>4, <1>5, <1>6

LEMMA WrittenTyped ==
  ASSUME TypeOK, NEW p \in Pid
  PROVE  Written(p) \subseteq Files
  BY MergedTyped, NothingTyped DEF Written

LEMMA ItemTyped ==
  ASSUME TypeOK, NEW p \in Pid, NEW x \in Date, NEW n \in Nat
  PROVE  /\ [item EXCEPT ![p][x].mtime = n] \in [Pid -> [Date -> [mtime : Nat, hash : Nat]]]
         /\ [item EXCEPT ![p][x].hash = n] \in [Pid -> [Date -> [mtime : Nat, hash : Nat]]]
<1> DEFINE T == [mtime : Nat, hash : Nat]
<1>1. item[p] \in [Date -> T] /\ item[p][x] \in T
  BY DEF TypeOK
<1>2. [item[p][x] EXCEPT !.mtime = n] \in T /\ [item[p][x] EXCEPT !.hash = n] \in T
  BY <1>1
<1>3. \A t \in T : [item EXCEPT ![p][x] = t] \in [Pid -> [Date -> T]]
  <2> HIDE DEF T
  <2> QED BY <1>1 DEF TypeOK, T
<1>4. /\ [item EXCEPT ![p][x].mtime = n] = [item EXCEPT ![p][x] = [item[p][x] EXCEPT !.mtime = n]]
      /\ [item EXCEPT ![p][x].hash = n] = [item EXCEPT ![p][x] = [item[p][x] EXCEPT !.hash = n]]
  BY <1>1
<1> QED BY <1>2, <1>3, <1>4

LEMMA EventCounted == ASSUME TypeOK, Event PROVE events' \in Nat
  BY DEF TypeOK, Event

LEMMA TypeStep ==
  ASSUME IInv, [Next]_vars
  PROVE  TypeOK'
<1> USE DEF Goto, Save, days, sweeps, listing
<1>0. TypeOK
  BY DEF IInv
<1>1. ASSUME NEW d \in Date, Grow(d) \/ Touch(d) PROVE TypeOK'
  <2>1. /\ version' \in [Date -> Nat] /\ mtime' \in [Date -> Nat] /\ events' \in Nat
        /\ UNCHANGED <<distilled, file, pc, job, only, known, cur, left, item, queue, touched,
                       stages, done, taken>>
    <3>1. events' \in Nat
      BY <1>0, <1>1, EventCounted DEF Grow, Touch
    <3>2. CASE Grow(d)
      BY <1>0, <3>1, <3>2 DEF Grow, TypeOK
    <3>3. CASE Touch(d)
      BY <1>0, <3>1, <3>3 DEF Touch, TypeOK
    <3> QED BY <1>1, <3>2, <3>3
  <2> QED BY <1>0, <2>1 DEF TypeOK
<1>2. ASSUME NEW p \in Pid, Start(p) \/ StartDate(p) PROVE TypeOK'
  <2>1. PICK d \in Date \cup {None} : Begin(p, d) /\ events' \in Nat
    BY <1>0, <1>2, EventCounted DEF Start, StartDate, TypeOK
  <2> QED BY <1>0, <2>1 DEF Begin, TypeOK, Places
<1>3. ASSUME NEW p \in Pid, StandDown(p) \/ NoSuchFile(p) \/ Crash(p) PROVE TypeOK'
  <2>1. file' \in Files /\ events' \in Nat /\ Gone(p) /\ UNCHANGED <<days, taken>>
    BY <1>0, <1>3 DEF StandDown, NoSuchFile, Crash, Event, TypeOK
  <2> QED BY <1>0, <2>1, GoneTyped
<1>4. ASSUME NEW p \in Pid, Finish(p) PROVE TypeOK'
  <2>1. file' \in Files /\ events' \in Nat /\ Gone(p) /\ UNCHANGED <<days, taken>>
    BY <1>0, <1>4, WrittenTyped DEF Finish, TypeOK
  <2> QED BY <1>0, <2>1, GoneTyped
<1>5. ASSUME NEW p \in Pid, Claim(p) PROVE TypeOK'
  BY <1>0, <1>5 DEF Claim, TypeOK, Places, Jobs, Files
<1>6. ASSUME NEW p \in Pid, Read(p) PROVE TypeOK'
  BY <1>0, <1>6 DEF Read, TypeOK, Places
<1>7. ASSUME NEW p \in Pid, Truncate(p) PROVE TypeOK'
  BY <1>0, <1>7, NothingTyped DEF Truncate, TypeOK, Places
<1>8. ASSUME NEW p \in Pid, Write(p) PROVE TypeOK'
  <2>1. Then(p).at \in Places /\ Then(p).job \in Jobs \cup {None}
    BY <1>8 DEF Then, Places, Jobs
  <2> QED BY <1>0, <1>8, <2>1, NothingTyped, WrittenTyped DEF Write, TypeOK
<1>9. ASSUME NEW p \in Pid, NEW S \in SUBSET Date, Remaining(p, S)
      PROVE  /\ left' \in [Pid -> SUBSET Date] /\ pc' \in [Pid -> Places]
             /\ job' \in [Pid -> Jobs \cup {None}]
  BY <1>0, <1>9 DEF Remaining, TypeOK, Places, Jobs
<1>10. ASSUME NEW p \in Pid, ReadDir(p) PROVE TypeOK'
  <2>1. Wanted(p) \in SUBSET Date
    BY DEF Wanted
  <2> QED BY <1>0, <1>10, <2>1, <1>9 DEF ReadDir, TypeOK
<1>11. ASSUME NEW p \in Pid, PassOver(p) PROVE TypeOK'
  <2>1. left[p] \ {First(left[p])} \in SUBSET Date
    BY <1>0 DEF TypeOK
  <2> QED BY <1>0, <1>11, <2>1, <1>9 DEF PassOver, TypeOK
<1>12. ASSUME NEW p \in Pid, Stat(p) PROVE TypeOK'
  <2> DEFINE x == First(left[p])
  <2>1. item' = [item EXCEPT ![p][x].mtime = mtime[x]]
    BY <1>12 DEF Stat
  <2>2. item' \in [Pid -> [Date -> [mtime : Nat, hash : Nat]]]
    <3>1. x \in Date
      BY <1>12, <1>0, OldestDate DEF Stat, IInv, Listing, TypeOK
    <3> HIDE DEF x
    <3> QED BY <1>0, <2>1, <3>1, ItemTyped DEF TypeOK
  <2> QED BY <1>0, <1>12, <2>2 DEF Stat, TypeOK, Places
<1>13. ASSUME NEW p \in Pid, Hash(p) PROVE TypeOK'
  <2>1. left[p] \ {First(left[p])} \in SUBSET Date
    BY <1>0 DEF TypeOK
  <2> DEFINE x == First(left[p])
  <2>2. item' = [item EXCEPT ![p][x].hash = version[x]]
    BY <1>13 DEF Hash
  <2>3. queue' \in [Pid -> SUBSET Date] /\ touched' \in [Pid -> SUBSET Date]
    <3>1. x \in Date
      BY <1>0, <1>13, OldestDate DEF Hash, IInv, Listing, TypeOK
    <3>2. PICK same \in BOOLEAN :
            /\ touched' = [touched EXCEPT ![p] = IF same THEN @ \cup {x} ELSE @]
            /\ queue' = [queue EXCEPT ![p] = IF same THEN @ ELSE @ \cup {x}]
      BY <1>13 DEF Hash
    <3> HIDE DEF x
    <3> QED BY <1>0, <3>1, <3>2 DEF TypeOK
  <2>4. item' \in [Pid -> [Date -> [mtime : Nat, hash : Nat]]]
    <3>1. x \in Date
      BY <1>13, <1>0, OldestDate DEF Hash, IInv, Listing, TypeOK
    <3> HIDE DEF x
    <3> QED BY <1>0, <2>2, <3>1, ItemTyped DEF TypeOK
  <2> QED BY <1>0, <1>13, <2>1, <2>3, <2>4, <1>9 DEF Hash, TypeOK
<1>14. ASSUME NEW p \in Pid, NEW s \in Stages, StageEnds(p, s)
       PROVE  /\ stages' \in [Pid -> SUBSET Stages] /\ pc' \in [Pid -> Places]
              /\ job' \in [Pid -> Jobs \cup {None}]
  BY <1>0, <1>14 DEF StageEnds, TypeOK, Places, Jobs
<1>15. ASSUME NEW p \in Pid, NEW s \in Stages, Stage(p, s) PROVE TypeOK'
  BY <1>0, <1>14, <1>15 DEF Stage, StageEnds, TypeOK
<1>16. ASSUME NEW p \in Pid, NEW s \in Stages, StageFails(p, s) PROVE TypeOK'
  BY <1>0, <1>14, <1>16, EventCounted DEF StageFails, StageEnds, TypeOK
<1>17. ASSUME NEW p \in Pid, Recycle(p) PROVE TypeOK'
  BY <1>0, <1>17 DEF Recycle, TypeOK
<1>18. CASE UNCHANGED vars
  BY <1>0, <1>18 DEF vars, TypeOK
<1> QED
  BY <1>1, <1>2, <1>3, <1>4, <1>5, <1>6, <1>7, <1>8, <1>10, <1>11, <1>12, <1>13, <1>15, <1>16,
     <1>17, <1>18 DEF Next, Run
-----------------------------------------------------------------------------
(* The days only grow, and what a fingerprint says of them stays true. *)

LEMMA DaysGrow ==
  ASSUME IInv, [Next]_vars, NEW d \in Date
  PROVE  /\ version[d] <= version'[d] /\ mtime[d] <= mtime'[d]
         /\ mtime'[d] = mtime[d] => version'[d] = version[d]
         /\ \A s \in Stages : /\ distilled[d][s] <= distilled'[d][s]
                              /\ distilled'[d][s] <= version'[d]
<1>1. /\ version \in [Date -> Nat] /\ mtime \in [Date -> Nat]
      /\ distilled \in [Date -> [Stages -> Nat]]
      /\ \A s \in Stages : distilled[d][s] <= version[d]
  BY DEF IInv, TypeOK, NoneAhead
<1>2. CASE \E e \in Date : Grow(e) \/ Touch(e)
  <2>1. PICK e \in Date : Grow(e) \/ Touch(e)
    BY <1>2
  <2>2. CASE Grow(e)
    <3>1. version'[d] \in {version[d], version[d] + 1} /\ distilled' = distilled
      BY <1>1, <2>2 DEF Grow
    <3>2. mtime'[d] = (IF d = e THEN mtime[d] + 1 ELSE mtime[d]) /\ (d # e => version'[d] = version[d])
      BY <1>1, <2>2 DEF Grow
    <3> QED BY <1>1, <3>1, <3>2
  <2>3. CASE Touch(e)
    <3>1. mtime'[d] \in {mtime[d], mtime[d] + 1} /\ UNCHANGED <<version, distilled>>
      BY <1>1, <2>3 DEF Touch
    <3> QED BY <1>1, <3>1
  <2> QED BY <2>1, <2>2, <2>3
<1>3. CASE \E p \in Pid, s \in Stages : Stage(p, s)
  <2>1. PICK p \in Pid, s \in Stages : Stage(p, s)
    BY <1>3
  <2> DEFINE x == First(queue[p])
  <2>2. distilled' = [distilled EXCEPT ![x][s] = version[x]] /\ UNCHANGED <<version, mtime>>
    BY <2>1 DEF Stage, StageEnds
  <2> HIDE DEF x
  <2>3. \A t \in Stages : distilled'[d][t] \in {distilled[d][t], version[d]}
    BY <1>1, <2>2
  <2> QED BY <1>1, <2>2, <2>3
<1>4. CASE UNCHANGED days
  BY <1>1, <1>4 DEF days
<1> QED
  BY <1>2, <1>3, <1>4 DEF Next, vars, Run, Start, StartDate, Begin, StandDown, Claim, Read, Truncate,
    Write, Finish, NoSuchFile, ReadDir, PassOver, Stat, Hash, StageFails, StageEnds, Crash, Recycle,
    days

(* Seen and Truthful, of a fixed fingerprint or ledger, after the step.         *)
SeenThen(d, i) ==
  /\ i.mtime <= mtime'[d] /\ i.hash <= version'[d]
  /\ i.mtime = mtime'[d] => i.hash = version'[d]

TruthfulThen(ledger) ==
  \A d \in Date : recordDistilled(ledger[d]) =>
    SeenThen(d, ledger[d]) /\ \A s \in Stages : ledger[d].hash <= distilled'[d][s]

LEMMA SeenStays ==
  ASSUME IInv, [Next]_vars, NEW d \in Date, NEW i, i.mtime \in Nat, i.hash \in Nat, Seen(d, i)
  PROVE  SeenThen(d, i)
<1>1. /\ version[d] \in Nat /\ mtime[d] \in Nat /\ version'[d] \in Nat /\ mtime'[d] \in Nat
  BY TypeStep DEF IInv, TypeOK
<1> QED BY <1>1, DaysGrow DEF Seen, SeenThen

LEMMA TruthfulStays ==
  ASSUME IInv, [Next]_vars, NEW L \in [Date -> Records], Truthful(L)
  PROVE  TruthfulThen(L)
<1> SUFFICES ASSUME NEW d \in Date, recordDistilled(L[d])
             PROVE  SeenThen(d, L[d]) /\ \A s \in Stages : L[d].hash <= distilled'[d][s]
  BY DEF TruthfulThen
<1>1. L[d] \in Records /\ L[d].mtime \in Nat /\ L[d].hash \in Nat
  BY DEF Records
<1>2. Seen(d, L[d]) /\ \A s \in Stages : L[d].hash <= distilled[d][s]
  BY DEF Truthful
<1>3. SeenThen(d, L[d])
  BY <1>1, <1>2, SeenStays
<1>4. \A s \in Stages : distilled[d][s] \in Nat /\ distilled'[d][s] \in Nat
  BY TypeStep DEF IInv, TypeOK
<1>5. \A s \in Stages : distilled[d][s] <= distilled'[d][s]
  BY DaysGrow
<1> QED BY <1>1, <1>2, <1>3, <1>4, <1>5

LEMMA NoneAheadStep ==
  ASSUME IInv, [Next]_vars
  PROVE  NoneAhead'
  BY DaysGrow DEF NoneAhead
-----------------------------------------------------------------------------
(* The copies of the ledger. *)

LEMMA NothingTruthful == Truthful(Nothing.ledger)
  BY DEF Truthful, Nothing, NoRecord, recordDistilled, Stages

LEMMA MergedTruthful ==
  ASSUME IInv, NEW p \in Pid
  PROVE  Truthful(merged(p).ledger)
<1> USE DEF IInv
<1>1. /\ cur[p] \in Files /\ known[p] \in [Date -> Records]
      /\ queue[p] \in SUBSET Date /\ touched[p] \in SUBSET Date
      /\ Truthful(cur[p].ledger) /\ Truthful(known[p]) /\ Listing(p) /\ Working(p)
      /\ \A d \in Date : item[p][d] \in [mtime : Nat, hash : Nat]
  BY DEF TypeOK, Ledgers
<1>2. CASE job[p] \in {"claim", "beat"}
  <2>1. merged(p).ledger = cur[p].ledger
    BY <1>1, <1>2 DEF merged, Files
  <2> QED BY <1>1, <2>1
<1>3. CASE job[p] = "touched"
  <2>1. merged(p).ledger = [d \in Date |-> IF d \in touched[p] THEN refreshed(p, d) ELSE cur[p].ledger[d]]
    BY <1>1, <1>3 DEF merged, Files
  <2>2. ASSUME NEW d \in touched[p]
        PROVE  Seen(d, refreshed(p, d)) /\ \A s \in Stages : refreshed(p, d).hash <= distilled[d][s]
    <3>1. known[p][d] \in Records /\ item[p][d] \in [mtime : Nat, hash : Nat]
      BY <1>1
    <3>2. /\ refreshed(p, d).mtime = item[p][d].mtime
          /\ refreshed(p, d).hash = known[p][d].hash
      BY <3>1 DEF refreshed, Records
    <3>3. Seen(d, item[p][d]) /\ recordDistilled(known[p][d]) /\ known[p][d].hash = item[p][d].hash
      BY <1>1 DEF Listing
    <3>4. \A s \in Stages : known[p][d].hash <= distilled[d][s]
      BY <1>1, <3>3 DEF Truthful
    <3> QED BY <3>2, <3>3, <3>4 DEF Seen
  <2>3. ASSUME NEW d \in Date, recordDistilled(merged(p).ledger[d])
        PROVE  /\ Seen(d, merged(p).ledger[d])
               /\ \A s \in Stages : merged(p).ledger[d].hash <= distilled[d][s]
    <3>1. CASE d \in touched[p]
      BY <2>1, <2>2, <3>1
    <3>2. CASE d \notin touched[p]
      BY <1>1, <2>1, <2>3, <3>2 DEF Truthful
    <3> QED BY <3>1, <3>2
  <2> QED BY <2>3 DEF Truthful
<1>4. CASE job[p] = "record"
  <2> DEFINE x == First(queue[p])
  <2>1. queue[p] # {} /\ \A s \in done[p] : item[p][x].hash <= distilled[x][s]
    BY <1>1, <1>4 DEF Working
  <2>2. x \in queue[p] /\ x \in Date
    BY <1>1, <2>1, OldestDate
  <2>3. merged(p).ledger = [cur[p].ledger EXCEPT ![x] = dateRecord(p, x)]
    <3>1. merged(p) = [cur[p] EXCEPT !.ledger[x] = dateRecord(p, x)]
      BY <1>4 DEF merged
    <3> HIDE DEF x
    <3> QED BY <1>1, <3>1 DEF Files
  <2>4. /\ dateRecord(p, x).mtime = item[p][x].mtime /\ dateRecord(p, x).hash = item[p][x].hash
        /\ dateRecord(p, x).done = done[p]
    BY DEF dateRecord
  <2>5. Seen(x, item[p][x])
    BY <1>1, <2>2 DEF Listing
  <2> HIDE DEF x
  <2>6. recordDistilled(dateRecord(p, x)) =>
          Seen(x, dateRecord(p, x)) /\ \A s \in Stages : dateRecord(p, x).hash <= distilled[x][s]
    BY <2>1, <2>4, <2>5 DEF Seen, recordDistilled
  <2>7. ASSUME NEW d \in Date, recordDistilled(merged(p).ledger[d])
        PROVE  /\ Seen(d, merged(p).ledger[d])
               /\ \A s \in Stages : merged(p).ledger[d].hash <= distilled[d][s]
    <3>1. CASE d = x
      <4>1. merged(p).ledger[d] = dateRecord(p, x)
        BY <1>1, <2>2, <2>3, <3>1 DEF Files
      <4> QED BY <2>6, <2>7, <3>1, <4>1
    <3>2. CASE d # x
      <4>1. merged(p).ledger[d] = cur[p].ledger[d]
        BY <1>1, <2>3, <3>2 DEF Files
      <4> QED BY <1>1, <2>7, <4>1 DEF Truthful
    <3> QED BY <3>1, <3>2
  <2> QED BY <2>7 DEF Truthful
<1>5. CASE job[p] \notin {"claim", "beat", "touched", "record"}
  <2>1. merged(p).ledger = cur[p].ledger
    BY <1>1, <1>5 DEF merged, Files
  <2> QED BY <1>1, <2>1
<1> QED BY <1>2, <1>3, <1>4, <1>5

(* Where the copies come from.                                                  *)
LEMMA CopiesStep ==
  ASSUME IInv, [Next]_vars
  PROVE  /\ \/ file' \in {file, Nothing}
            \/ \E p \in Pid : file' = merged(p)
         /\ \A q \in Pid : /\ known'[q] \in {known[q], Nothing.ledger, file.ledger}
                           /\ cur'[q] \in {cur[q], Nothing, file}
<1> USE DEF listing, days, sweeps
<1>0. known \in [Pid -> [Date -> Records]] /\ cur \in [Pid -> Files]
  BY DEF IInv, TypeOK
<1>1. ASSUME NEW p \in Pid, Gone(p)
      PROVE  \A q \in Pid : known'[q] \in {known[q], Nothing.ledger} /\ cur'[q] \in {cur[q], Nothing}
  BY <1>0, <1>1 DEF Gone
<1>2. ASSUME NEW p \in Pid, StandDown(p) \/ NoSuchFile(p) \/ Crash(p) \/ Finish(p)
      PROVE  Gone(p) /\ file' \in {file, Nothing, merged(p)}
  BY <1>2 DEF StandDown, NoSuchFile, Crash, Finish, Written
<1>3. ASSUME NEW p \in Pid, Claim(p)
      PROVE  file' = file /\ cur' = cur /\ \A q \in Pid : known'[q] \in {known[q], file.ledger}
  BY <1>0, <1>3 DEF Claim
<1>4. ASSUME NEW p \in Pid, Read(p)
      PROVE  file' = file /\ known' = known /\ \A q \in Pid : cur'[q] \in {cur[q], file}
  BY <1>0, <1>4 DEF Read
<1>5. ASSUME NEW p \in Pid, Truncate(p)
      PROVE  file' = Nothing /\ known' = known /\ cur' = cur
  BY <1>5 DEF Truncate
<1>6. ASSUME NEW p \in Pid, Write(p)
      PROVE  /\ file' \in {merged(p), Nothing} /\ known' = known
             /\ \A q \in Pid : cur'[q] \in {cur[q], Nothing}
  BY <1>0, <1>6 DEF Write, Written
<1>7. CASE UNCHANGED <<file, known, cur>>
  BY <1>7
<1> QED
  BY <1>1, <1>2, <1>3, <1>4, <1>5, <1>6, <1>7
  DEF Next, vars, Run, Grow, Touch, Start, StartDate, Begin, ReadDir, PassOver, Stat, Hash, Stage,
    StageFails, StageEnds, Recycle

LEMMA LedgersStep ==
  ASSUME IInv, [Next]_vars
  PROVE  Ledgers'
<1>1. /\ file \in Files /\ Truthful(file.ledger) /\ file.ledger \in [Date -> Records]
      /\ \A p \in Pid : /\ known[p] \in [Date -> Records] /\ Truthful(known[p])
                        /\ cur[p].ledger \in [Date -> Records] /\ Truthful(cur[p].ledger)
  BY DEF IInv, TypeOK, Ledgers, Files
<1>2. Truthful(Nothing.ledger) /\ Nothing.ledger \in [Date -> Records]
  BY NothingTruthful, NothingTyped
<1>3. \A p \in Pid : Truthful(merged(p).ledger) /\ merged(p).ledger \in [Date -> Records]
  BY MergedTruthful, MergedTyped DEF IInv, Files
<1>4. TruthfulThen(file'.ledger)
  BY <1>1, <1>2, <1>3, CopiesStep, TruthfulStays
<1>5. \A q \in Pid : TruthfulThen(known'[q]) /\ TruthfulThen(cur'[q].ledger)
  BY <1>1, <1>2, CopiesStep, TruthfulStays
<1> QED BY <1>4, <1>5 DEF Ledgers, Truthful, TruthfulThen, Seen, SeenThen, recordDistilled
-----------------------------------------------------------------------------
(* What a sweep has listed and is working through. *)

Row(q) == <<pc[q], job[q], known[q], left[q], item[q], queue[q], touched[q], done[q]>>

(* A sweep that has not moved itself.                                           *)
LEMMA OthersStep ==
  ASSUME IInv, [Next]_vars, NEW q \in Pid, Row(q)' = Row(q)
  PROVE  Listing(q)' /\ Working(q)'
<1>1. /\ Listing(q) /\ Working(q) /\ left[q] \in SUBSET Date /\ queue[q] \in SUBSET Date
      /\ touched[q] \in SUBSET Date /\ \A d \in Date : item[q][d] \in [mtime : Nat, hash : Nat]
  BY DEF IInv, TypeOK
<1>2. /\ pc'[q] = pc[q] /\ job'[q] = job[q] /\ known'[q] = known[q] /\ left'[q] = left[q]
      /\ item'[q] = item[q] /\ queue'[q] = queue[q] /\ touched'[q] = touched[q]
      /\ done'[q] = done[q]
  BY DEF Row
<1>3. \A d \in queue[q] \cup touched[q] : SeenThen(d, item[q][d])
  BY <1>1, SeenStays DEF Listing
<1>4. ASSUME pc[q] = "hash"
      PROVE  item[q][First(left[q])].mtime <= mtime'[First(left[q])]
  <2> DEFINE x == First(left[q])
  <2>1. x \in Date
    BY <1>1, <1>4, OldestDate DEF Listing
  <2>2. item[q][x].mtime <= mtime[x]
    BY <1>1, <1>4 DEF Listing
  <2> HIDE DEF x
  <2>3. item[q][x].mtime \in Nat /\ mtime[x] \in Nat /\ mtime'[x] \in Nat /\ mtime[x] <= mtime'[x]
    BY <1>1, <2>1, TypeStep, DaysGrow DEF IInv, TypeOK
  <2>4. item[q][x].mtime <= mtime'[x]
    BY <2>2, <2>3
  <2> QED BY <2>4 DEF x
<1>5. ASSUME pc[q] = "stages" \/ job[q] = "record", NEW s \in done[q]
      PROVE  item[q][First(queue[q])].hash <= distilled'[First(queue[q])][s]
  <2> DEFINE x == First(queue[q])
  <2>1. x \in Date /\ s \in Stages
    BY <1>1, <1>5, OldestDate DEF Working, IInv, TypeOK
  <2>2. item[q][x].hash <= distilled[x][s]
    BY <1>1, <1>5 DEF Working
  <2> HIDE DEF x
  <2>3. /\ item[q][x].hash \in Nat /\ distilled[x][s] \in Nat /\ distilled'[x][s] \in Nat
        /\ distilled[x][s] <= distilled'[x][s]
    BY <1>1, <2>1, TypeStep, DaysGrow DEF IInv, TypeOK
  <2>4. item[q][x].hash <= distilled'[x][s]
    BY <2>2, <2>3
  <2> QED BY <2>4 DEF x
<1>6. Listing(q)'
  BY <1>1, <1>2, <1>3, <1>4 DEF Listing, Seen, SeenThen
<1> QED BY <1>1, <1>2, <1>5, <1>6 DEF Working

(* The steps of a sweep that change no day.                                     *)
LEMMA GoneStep ==
  ASSUME IInv, NEW p \in Pid, Gone(p)
  PROVE  Listing(p)' /\ Working(p)'
<1>1. /\ pc'[p] = "off" /\ job'[p] = None /\ queue'[p] = {} /\ touched'[p] = {}
  BY DEF Gone, Goto, IInv, TypeOK
<1> QED BY <1>1, SweepAssumption DEF Listing, Working, Jobs

LEMMA SaveStep ==
  ASSUME IInv, NEW p \in Pid, Claim(p) \/ Read(p) \/ Truncate(p) \/ Write(p)
  PROVE  Listing(p)' /\ Working(p)'
<1> USE DEF listing, days, Goto, Save
<1>1. TypeOK /\ Listing(p) /\ Working(p) /\ queue[p] \in SUBSET Date /\ touched[p] \in SUBSET Date
  BY DEF IInv, TypeOK
<1>2. CASE Claim(p)
  <2>1. /\ pc'[p] = "read" /\ job'[p] = "claim" /\ touched[p] = {}
        /\ UNCHANGED <<version, mtime, left, item, queue, touched>>
    BY <1>1, <1>2 DEF Claim, TypeOK, Listing
  <2> QED BY <1>1, <2>1 DEF Listing, Working, Seen
<1>3. CASE Read(p) \/ Truncate(p)
  <2>1. /\ pc[p] \in {"read", "truncate"} /\ pc'[p] \in {"truncate", "write"}
        /\ UNCHANGED <<version, mtime, distilled, job, known, left, item, queue, touched, done>>
    BY <1>1, <1>3 DEF Read, Truncate, TypeOK
  <2> QED BY <1>1, <2>1 DEF Listing, Working, Seen
<1>4. CASE Write(p)
  <2>1. /\ pc'[p] = Then(p).at /\ job'[p] = Then(p).job /\ done'[p] = {}
        /\ UNCHANGED <<version, mtime, known, left, item, touched>>
    BY <1>1, <1>4 DEF Write, TypeOK
  <2>2. /\ Then(p).at \in {"readdir", "stages", "read"} /\ Then(p).job \in {None, "beat", "clear"}
        /\ Then(p).at = "stages" => job[p] = "beat" /\ queue[p] # {}
    BY DEF Then
  <2>3. queue'[p] \subseteq queue[p] /\ (job[p] # "record" => queue'[p] = queue[p])
    BY <1>1, <1>4 DEF Write, TypeOK
  <2>4. None # "record"
    BY SweepAssumption DEF Jobs
  <2>5. Listing(p)'
    BY <1>1, <2>1, <2>2, <2>3 DEF Listing, Seen
  <2> QED BY <2>1, <2>2, <2>3, <2>4, <2>5 DEF Working
<1> QED BY <1>2, <1>3, <1>4

LEMMA RemainingStep ==
  ASSUME TypeOK, NEW p \in Pid, NEW S \in SUBSET Date, Remaining(p, S),
         pc[p] \in {"readdir", "stat", "hash"}, Working(p)
  PROVE  /\ left'[p] = S /\ (pc'[p] = "stat" => S # {}) /\ pc'[p] \in {"stat", "read"}
         /\ job'[p] # "record"
  BY DEF Remaining, TypeOK, Goto, Save, Working

LEMMA ListStep ==
  ASSUME IInv, NEW p \in Pid, ReadDir(p) \/ PassOver(p) \/ Stat(p) \/ Hash(p)
  PROVE  Listing(p)' /\ Working(p)'
<1> USE DEF days
<1>1. /\ TypeOK /\ Listing(p) /\ Working(p) /\ left[p] \in SUBSET Date
      /\ queue[p] \in SUBSET Date /\ touched[p] \in SUBSET Date
      /\ \A d \in Date : /\ item[p][d] \in [mtime : Nat, hash : Nat]
                         /\ version[d] \in Nat /\ mtime[d] \in Nat
  BY DEF IInv, TypeOK
<1>2. CASE ReadDir(p)
  <2>1. Wanted(p) \in SUBSET Date /\ Remaining(p, Wanted(p)) /\ pc[p] = "readdir"
    BY <1>2 DEF ReadDir, Wanted
  <2>2. queue'[p] = {} /\ touched'[p] = {}
    BY <1>1, <1>2 DEF ReadDir, TypeOK
  <2> QED BY <1>1, <2>1, <2>2, RemainingStep DEF Listing, Working
<1>3. CASE PassOver(p)
  <2>1. /\ left[p] \ {First(left[p])} \in SUBSET Date /\ pc[p] = "stat"
        /\ Remaining(p, left[p] \ {First(left[p])})
    BY <1>1, <1>3 DEF PassOver
  <2>2. UNCHANGED <<version, mtime, known, item, queue, touched>>
    BY <1>3 DEF PassOver
  <2> QED BY <1>1, <2>1, <2>2, RemainingStep DEF Listing, Working, Seen
<1>4. ASSUME pc[p] \in {"stat", "hash"}
      PROVE  First(left[p]) \in left[p] /\ First(left[p]) \in Date
  BY <1>1, <1>4, OldestDate DEF Listing
<1>5. CASE Stat(p)
  <2> DEFINE x == First(left[p])
  <2>1. x \in left[p] /\ x \in Date /\ pc[p] = "stat"
    BY <1>4, <1>5 DEF Stat
  <2>2. item' = [item EXCEPT ![p][x].mtime = mtime[x]]
    BY <1>5 DEF Stat
  <2>3. pc'[p] = "hash" /\ UNCHANGED <<version, mtime, job, known, left, queue, touched>>
    BY <1>1, <1>5 DEF Stat, Goto, TypeOK
  <2>4. item'[p][x].mtime = mtime[x] /\ \A d \in Date \ {x} : item'[p][d] = item[p][d]
    <3> HIDE DEF x
    <3> QED BY <1>1, <2>1, <2>2 DEF TypeOK
  <2>5. job[p] # "record"
    BY <1>1, <2>1 DEF Working
  <2>6. x \notin queue[p] \cup touched[p]
    BY <1>1, <2>1 DEF Listing
  <2>7. Working(p)'
    BY <2>3, <2>5 DEF Working
  <2>8. \A d \in queue[p] \cup touched[p] : item'[p][d] = item[p][d]
    <3> HIDE DEF x
    <3> QED BY <1>1, <2>4, <2>6
  <2> QED BY <1>1, <2>1, <2>3, <2>4, <2>7, <2>8 DEF Listing, Seen
<1>6. CASE Hash(p)
  <2> DEFINE x == First(left[p])
  <2>1. x \in left[p] /\ x \in Date /\ pc[p] = "hash" /\ item[p][x].mtime <= mtime[x]
    BY <1>1, <1>4, <1>6 DEF Hash, Listing
  <2>2. /\ item' = [item EXCEPT ![p][x].hash = version[x]]
        /\ Remaining(p, left[p] \ {x}) /\ UNCHANGED <<version, mtime, known>>
    BY <1>6 DEF Hash
  <2>3. PICK same \in BOOLEAN :
          /\ same => recordDistilled(known[p][x]) /\ known[p][x].hash = version[x]
          /\ touched' = [touched EXCEPT ![p] = IF same THEN @ \cup {x} ELSE @]
          /\ queue' = [queue EXCEPT ![p] = IF same THEN @ ELSE @ \cup {x}]
    BY <1>6 DEF Hash
  <2> HIDE DEF x
  <2>4. /\ item'[p][x].mtime = item[p][x].mtime /\ item'[p][x].hash = version[x]
        /\ \A d \in Date \ {x} : item'[p][d] = item[p][d]
    BY <1>1, <2>1, <2>2 DEF TypeOK
  <2>5. /\ queue'[p] \cup touched'[p] = queue[p] \cup touched[p] \cup {x}
        /\ touched'[p] \subseteq touched[p] \cup {x} /\ (x \in touched'[p] => same \/ x \in touched[p])
    BY <1>1, <2>3 DEF TypeOK
  <2>6. x \notin queue[p] \cup touched[p]
    BY <1>1, <2>1 DEF Listing
  <2>7. left'[p] = left[p] \ {x} /\ (pc'[p] = "stat" => left'[p] # {}) /\ pc'[p] \in {"stat", "read"} /\ job'[p] # "record"
    BY <1>1, <2>1, <2>2, RemainingStep
  <2>8. ASSUME NEW d \in queue'[p] \cup touched'[p]
        PROVE  d \notin left'[p] /\ Seen(d, item[p][d])' 
    <3>1. CASE d = x
      BY <1>1, <2>1, <2>2, <2>4, <2>7, <3>1 DEF Seen
    <3>2. CASE d # x
      <4>1. d \in queue[p] \cup touched[p] /\ d \in Date
        BY <1>1, <2>5, <2>8, <3>2
      <4>2. item'[p][d] = item[p][d] /\ Seen(d, item[p][d]) /\ d \notin left[p]
        BY <1>1, <2>4, <3>2, <4>1 DEF Listing
      <4> QED BY <2>2, <2>7, <4>2 DEF Seen
    <3> QED BY <3>1, <3>2
  <2>9. ASSUME NEW d \in touched'[p]
        PROVE  recordDistilled(known'[p][d]) /\ known'[p][d].hash = item'[p][d].hash
    <3>1. CASE d = x
      BY <2>2, <2>3, <2>4, <2>5, <2>6, <2>9, <3>1
    <3>2. CASE d # x
      <4>1. d \in touched[p] /\ d \in Date
        BY <1>1, <2>5, <2>9, <3>2
      <4> QED BY <1>1, <2>2, <2>4, <3>2, <4>1 DEF Listing
    <3> QED BY <3>1, <3>2
  <2>10. Listing(p)'
    BY <2>7, <2>8, <2>9 DEF Listing, recordDistilled
  <2> QED BY <2>7, <2>10 DEF Working
<1> QED BY <1>2, <1>3, <1>5, <1>6

LEMMA StageStep ==
  ASSUME IInv, NEW p \in Pid, NEW s \in Stages, Stage(p, s) \/ StageFails(p, s)
  PROVE  Listing(p)' /\ Working(p)'
<1> DEFINE x == First(queue[p])
<1>1. /\ TypeOK /\ NoneAhead /\ Listing(p) /\ Working(p) /\ queue[p] \in SUBSET Date
      /\ done[p] \in SUBSET Stages
      /\ \A d \in Date : item[p][d] \in [mtime : Nat, hash : Nat] /\ version[d] \in Nat
  BY DEF IInv, TypeOK
<1>2. /\ pc[p] = "stages" /\ StageEnds(p, s)
      /\ UNCHANGED <<version, mtime, known, left, item, queue, touched>>
  BY DEF Stage, StageFails, StageEnds, listing
<1>3. queue[p] # {} /\ x \in queue[p] /\ x \in Date
  BY <1>1, <1>2, OldestDate DEF Working
<1>4. \A t \in done[p] : item[p][x].hash <= distilled[x][t]
  BY <1>1, <1>2 DEF Working
<1>5. item[p][x].hash <= version[x]
  BY <1>1, <1>3 DEF Listing, Seen
<1>6. /\ pc'[p] \in {"stages", "read"} /\ (job'[p] = "record" => pc'[p] = "read")
  BY <1>1, <1>2 DEF StageEnds, Goto, Save, TypeOK, Working
<1> HIDE DEF x
<1>7. \A t \in done'[p] : item[p][x].hash <= distilled'[x][t]
  <2>1. CASE StageFails(p, s)
    BY <1>4, <2>1 DEF StageFails
  <2>2. CASE Stage(p, s)
    <3>1. distilled' = [distilled EXCEPT ![x][s] = version[x]] /\ done'[p] = done[p] \cup {s}
      BY <1>1, <2>2 DEF Stage, TypeOK, x
    <3>2. /\ distilled'[x][s] = version[x]
          /\ \A t \in done[p] \ {s} : distilled'[x][t] = distilled[x][t]
      BY <1>1, <1>3, <3>1 DEF TypeOK
    <3> QED BY <1>4, <1>5, <3>1, <3>2
  <2> QED BY <2>1, <2>2
<1>8. Working(p)'
  BY <1>2, <1>3, <1>6, <1>7 DEF Working, x
<1> QED BY <1>1, <1>2, <1>6, <1>8 DEF Listing, Seen
-----------------------------------------------------------------------------
LEMMA InitInv == ASSUME Init PROVE IInv
<1>1. NoneAhead
  BY DEF Init, NoneAhead
<1>2. Ledgers
  BY NothingTruthful DEF Init, Ledgers
<1>3. ASSUME NEW p \in Pid PROVE Listing(p) /\ Working(p)
  BY SweepAssumption DEF Init, Listing, Working, Jobs
<1> QED BY <1>1, <1>2, <1>3, InitTyped DEF IInv

(* The row of every other sweep stays; that of the sweep that moves is dealt    *)
(* with above.                                                                  *)
LEMMA RowsStep ==
  ASSUME IInv, [Next]_vars, NEW q \in Pid
  PROVE  Listing(q)' /\ Working(q)'
<1> USE DEF days, listing, sweeps, Goto, Save
<1>1. TypeOK
  BY DEF IInv
<1>2. ASSUME NEW p \in Pid, p # q, Run(p) \/ Start(p) \/ StartDate(p) \/ Crash(p)
      PROVE  Row(q)' = Row(q)
  BY <1>1, <1>2 DEF TypeOK, Row, Run, Start, StartDate, Begin, Crash, Gone, StandDown, Claim, Read,
    Truncate, Write, Finish, NoSuchFile, ReadDir, PassOver, Stat, Hash, Remaining, Stage, StageEnds
<1>3. ASSUME NEW p \in Pid, p # q, NEW s \in Stages, StageFails(p, s)
      PROVE  Row(q)' = Row(q)
  BY <1>1, <1>3 DEF TypeOK, Row, StageFails, StageEnds
<1>4. ASSUME NEW d \in Date, Grow(d) \/ Touch(d)
      PROVE  Row(q)' = Row(q)
  BY <1>4 DEF Row, Grow, Touch
<1>5. ASSUME NEW p \in Pid, Recycle(p) PROVE Row(q)' = Row(q)
  BY <1>5 DEF Row, Recycle
<1>6. CASE Start(q) \/ StartDate(q)
  <2>1. /\ pc[q] = "off" /\ pc'[q] = "begin"
        /\ UNCHANGED <<version, mtime, job, known, left, item, queue, touched, done>>
    BY <1>1, <1>6 DEF Start, StartDate, Begin, TypeOK
  <2> QED BY <2>1 DEF IInv, Listing, Working, Seen
<1>7. CASE StandDown(q) \/ NoSuchFile(q) \/ Finish(q) \/ Crash(q)
  BY <1>7, GoneStep DEF StandDown, NoSuchFile, Finish, Crash
<1>8. CASE Claim(q) \/ Read(q) \/ Truncate(q) \/ Write(q)
  BY <1>8, SaveStep
<1>9. CASE ReadDir(q) \/ PassOver(q) \/ Stat(q) \/ Hash(q)
  BY <1>9, ListStep
<1>10. ASSUME NEW s \in Stages, Stage(q, s) \/ StageFails(q, s) PROVE Listing(q)' /\ Working(q)'
  BY <1>10, StageStep
<1>11. CASE UNCHANGED vars
  BY <1>11, OthersStep DEF vars, Row
<1> QED
  BY <1>2, <1>3, <1>4, <1>5, <1>6, <1>7, <1>8, <1>9, <1>10, <1>11, OthersStep DEF Next, Run
-----------------------------------------------------------------------------
(* Every copy of the ledger that a sweep may still write stays truthful.        *)
THEOREM Invariance == Spec => []IInv
<1>1. Init => IInv
  BY InitInv
<1>2. IInv /\ [Next]_vars => IInv'
  BY TypeStep, NoneAheadStep, LedgersStep, RowsStep DEF IInv
<1> QED BY <1>1, <1>2, PTL DEF Spec

(* No record of the ledger hides a content that has not been distilled.         *)
THEOREM NoChangeHidden == Spec => []NothingHidden
<1>1. IInv => NothingHidden
  <2> SUFFICES ASSUME IInv, NEW d \in Date, recordDistilled(file.ledger[d]),
                      file.ledger[d].mtime = mtime[d], NEW s \in Stages
               PROVE  distilled[d][s] = version[d]
    BY DEF NothingHidden
  <2>1. distilled[d][s] \in Nat /\ version[d] \in Nat
    BY DEF IInv, TypeOK
  <2>2. file.ledger[d].hash = version[d] /\ file.ledger[d].hash <= distilled[d][s]
    BY DEF IInv, Ledgers, Truthful, Seen
  <2>3. distilled[d][s] <= version[d]
    BY DEF IInv, NoneAhead
  <2> QED BY <2>1, <2>2, <2>3
<1> QED BY <1>1, Invariance, PTL
-----------------------------------------------------------------------------
(* What DaysDistilled rests on, apart from fairness: no sweep is stuck, and none *)
(* goes round for ever.                                                         *)

Saving == {"read", "truncate", "write"}
AtWork(p) == (pc[p] \in Saving <=> job[p] # None) /\ (pc[p] = "stages" => stages[p] # {})

(* The parts of a sweep in their order; beat, stages and record come once for   *)
(* every date of the queue.                                                     *)
Part(l, j) ==
  CASE l = "begin" -> 0 [] j = "claim" -> 1 [] l = "readdir" -> 2 [] l \in {"stat", "hash"} -> 3
    [] j = "touched" -> 4 [] j = "beat" -> 5 [] l = "stages" -> 6 [] j = "record" -> 7
    [] j = "clear" -> 8 [] OTHER -> 9
Now(p) == Part(pc[p], job[p])

Onward(p) ==
  \/ Now(p)' > Now(p) /\ (Now(p) > 3 => queue'[p] = queue[p] \/ pc'[p] = "off")
  \/ Now(p) = 7 /\ Now(p)' = 5 /\ \E d \in queue[p] : queue'[p] = queue[p] \ {d}
  \/ /\ <<pc[p], pc'[p]>> \in {<<"read", "truncate">>, <<"truncate", "write">>, <<"stat", "hash">>}
     /\ job'[p] = job[p] /\ left'[p] = left[p] /\ queue'[p] = queue[p]
  \/ Now(p) = 3 /\ Now(p)' = 3 /\ \E d \in left[p] : left'[p] = left[p] \ {d}
  \/ /\ pc[p] = "stages" /\ pc'[p] = "stages" /\ job'[p] = job[p] /\ queue'[p] = queue[p]
     /\ \E s \in stages[p] : stages'[p] = stages[p] \ {s}
GoOnward == \A p \in Pid : Run(p) \/ (\E s \in Stages : StageFails(p, s)) => Onward(p)

(* After a date that was looked at comes the next, or the save.                  *)
LEMMA RemainingOn ==
  ASSUME TypeOK, NEW p \in Pid, NEW S, Remaining(p, S), pc[p] \in {"readdir", "stat", "hash"}, AtWork(p)
  PROVE  /\ AtWork(p)' /\ left'[p] = S
         /\ \/ pc'[p] = "stat" /\ job'[p] = None
            \/ pc'[p] = "read" /\ job'[p] \in {"touched", "beat"}
  BY SweepAssumption DEF Remaining, TypeOK, Goto, Save, AtWork, Saving, Jobs

LEMMA ListOn ==
  ASSUME IInv, NEW p \in Pid, ReadDir(p) \/ PassOver(p) \/ Stat(p) \/ Hash(p), AtWork(p)
  PROVE  AtWork(p)' /\ Onward(p)
<1>1. /\ TypeOK /\ left[p] \in SUBSET Date /\ (pc[p] \in {"stat", "hash"} => left[p] # {}) /\ None \notin Jobs
  BY SweepAssumption DEF IInv, TypeOK, Listing
<1>2. pc[p] \in {"readdir", "stat", "hash"} /\ job[p] = None
  BY DEF ReadDir, PassOver, Stat, Hash, AtWork, Saving
<1>3. CASE ReadDir(p)
  <2>1. Remaining(p, Wanted(p)) /\ pc[p] = "readdir"
    BY <1>3 DEF ReadDir
  <2> QED BY <1>1, <1>2, <2>1, RemainingOn DEF Onward, Now, Part, Jobs
<1>4. CASE PassOver(p) \/ Hash(p)
  <2>1. PICK d \in left[p] : Remaining(p, left[p] \ {d})
    BY <1>1, <1>4, OldestDate DEF PassOver, Hash
  <2>2. pc[p] \in {"stat", "hash"} /\ Now(p) = 3
    BY <1>1, <1>2, <1>4 DEF PassOver, Hash, Now, Part, Jobs
  <2> QED BY <1>1, <1>2, <2>1, <2>2, RemainingOn DEF Onward, Now, Part, Jobs
<1>5. CASE Stat(p)
  BY <1>1, <1>2, <1>5 DEF Stat, TypeOK, Goto, AtWork, Saving, Onward
<1> QED BY <1>3, <1>4, <1>5

LEMMA SaveOn ==
  ASSUME IInv, NEW p \in Pid, Claim(p) \/ Read(p) \/ Truncate(p) \/ Write(p), AtWork(p)
  PROVE  AtWork(p)' /\ Onward(p)
<1> USE DEF listing, days, Goto, Save
<1>1. /\ TypeOK /\ queue[p] \in SUBSET Date /\ None \notin Jobs /\ Working(p)
      /\ job[p] \in Jobs \cup {None}
  BY SweepAssumption DEF IInv, TypeOK
<1>2. CASE Claim(p)
  BY <1>1, <1>2 DEF Claim, TypeOK, AtWork, Saving, Onward, Now, Part, Jobs
<1>3. CASE Read(p) \/ Truncate(p)
  BY <1>1, <1>3 DEF Read, Truncate, TypeOK, AtWork, Saving, Onward
<1>4. CASE Write(p)
  <2>1. /\ pc[p] = "write" /\ job[p] \in Jobs \ {"clear"}
        /\ pc'[p] = Then(p).at /\ job'[p] = Then(p).job
        /\ queue'[p] = IF job[p] = "record" THEN queue[p] \ {First(queue[p])} ELSE queue[p]
        /\ stages'[p] = IF Then(p).at = "stages" THEN Stages ELSE {}
    BY <1>1, <1>4 DEF Write, TypeOK, AtWork, Saving
  <2>2. AtWork(p)'
    BY <1>1, <2>1 DEF AtWork, Saving, Then, Jobs, Stages
  <2>3. CASE job[p] = "record"
    <3>1. First(queue[p]) \in queue[p]
      BY <1>1, <2>3, OldestDate DEF Working
    <3>2. pc'[p] = "read" /\ job'[p] = "beat"
      BY <2>1, <2>3 DEF Then
    <3> QED BY <2>1, <2>2, <2>3, <3>1, <3>2 DEF Onward, Now, Part
  <2>4. CASE job[p] # "record"
    BY <1>1, <2>1, <2>2, <2>4 DEF Onward, Now, Part, Then, Jobs
  <2> QED BY <2>3, <2>4
<1> QED BY <1>2, <1>3, <1>4

LEMMA StageOn ==
  ASSUME IInv, NEW p \in Pid, NEW s \in Stages, Stage(p, s) \/ StageFails(p, s), AtWork(p)
  PROVE  AtWork(p)' /\ Onward(p)
<1>1. /\ TypeOK /\ None \notin Jobs /\ pc[p] = "stages" /\ job[p] = None /\ s \in stages[p]
      /\ queue' = queue /\ left' = left
  BY SweepAssumption DEF IInv, Stage, StageFails, StageEnds, AtWork, Saving, listing
<1>2. stages'[p] = stages[p] \ {s}
  BY <1>1 DEF Stage, StageFails, StageEnds, TypeOK
<1>3. CASE stages[p] = {s}
  <2>1. pc'[p] = "read" /\ job'[p] = "record"
    BY <1>1, <1>3 DEF Stage, StageFails, StageEnds, Save, Goto, TypeOK
  <2> QED BY <1>1, <1>2, <2>1 DEF AtWork, Saving, Onward, Now, Part, Jobs
<1>4. CASE stages[p] # {s}
  <2>1. pc'[p] = "stages" /\ job'[p] = None
    BY <1>1, <1>4 DEF Stage, StageFails, StageEnds
  <2> QED BY <1>1, <1>2, <1>4, <2>1 DEF AtWork, Saving, Onward
<1> QED BY <1>3, <1>4

LEMMA GoneOn ==
  ASSUME IInv, NEW p \in Pid, StandDown(p) \/ NoSuchFile(p) \/ Finish(p) \/ Crash(p)
  PROVE  AtWork(p)' /\ (AtWork(p) => Onward(p))
<1>1. TypeOK /\ Gone(p) /\ None \notin Jobs
  BY SweepAssumption DEF IInv, StandDown, NoSuchFile, Finish, Crash
<1>2. pc'[p] = "off" /\ job'[p] = None
  BY <1>1 DEF Gone, Goto, TypeOK
<1>3. pc[p] \in Places \ {"off"} /\ job[p] \in Jobs \cup {None}
  BY <1>1 DEF TypeOK, StandDown, NoSuchFile, Finish, Crash, Places
<1>4. AtWork(p) => Now(p) \in 0..8
  BY <1>1, <1>3 DEF AtWork, Saving, Now, Part, Jobs, Places
<1>5. Now(p)' = 9 /\ AtWork(p)'
  BY <1>1, <1>2 DEF AtWork, Saving, Now, Part, Jobs
<1> QED BY <1>2, <1>4, <1>5 DEF Onward

LEMMA OnStep ==
  ASSUME IInv, [Next]_vars, \A p \in Pid : AtWork(p), NEW q \in Pid
  PROVE  AtWork(q)'
<1> USE DEF days, listing, sweeps, Goto, Save
<1>1. TypeOK
  BY DEF IInv
<1>2. ASSUME NEW p \in Pid, p # q, Run(p) \/ Start(p) \/ StartDate(p) \/ Crash(p)
      PROVE  UNCHANGED <<pc[q], job[q], stages[q]>>
  BY <1>1, <1>2 DEF TypeOK, Run, Start, StartDate, Begin, Crash, Gone, StandDown, Claim, Read,
    Truncate, Write, Finish, NoSuchFile, ReadDir, PassOver, Stat, Hash, Remaining, Stage, StageEnds
<1>3. ASSUME NEW p \in Pid, p # q, NEW s \in Stages, StageFails(p, s)
      PROVE  UNCHANGED <<pc[q], job[q], stages[q]>>
  BY <1>1, <1>3 DEF TypeOK, StageFails, StageEnds
<1>4. ASSUME (\E d \in Date : Grow(d) \/ Touch(d)) \/ (\E p \in Pid : Recycle(p)) \/ UNCHANGED vars
      PROVE  UNCHANGED <<pc[q], job[q], stages[q]>>
  BY <1>4 DEF Grow, Touch, Recycle, vars
<1>5. ASSUME UNCHANGED <<pc[q], job[q], stages[q]>> PROVE AtWork(q)'
  BY <1>5 DEF AtWork
<1>6. CASE Start(q) \/ StartDate(q)
  BY <1>1, <1>6 DEF Start, StartDate, Begin, TypeOK, AtWork, Saving
<1>7. CASE Run(q) \/ Crash(q) \/ \E s \in Stages : StageFails(q, s)
  BY <1>7, GoneOn, SaveOn, ListOn, StageOn DEF Run
<1> QED BY <1>2, <1>3, <1>4, <1>5, <1>6, <1>7 DEF Next

LEMMA AtWorkInvariant == Spec => [](\A p \in Pid : AtWork(p))
<1>1. Init => \A p \in Pid : AtWork(p)
  BY SweepAssumption DEF Init, AtWork, Saving, Jobs
<1>2. IInv /\ (\A p \in Pid : AtWork(p)) /\ [Next]_vars => (\A p \in Pid : AtWork(p))'
  BY OnStep
<1> QED BY <1>1, <1>2, Invariance, PTL DEF Spec

(* A sweep that is under way always has something to do next: a save to finish, *)
(* a date to look at, a stage of the oldest date in its queue to run.           *)
THEOREM SweepsGoOn ==
  Spec => [](\A p \in Pid : /\ pc[p] \in Saving => job[p] \in Jobs
                            /\ pc[p] \in {"stat", "hash"} => left[p] # {}
                            /\ pc[p] = "stages" => stages[p] # {} /\ queue[p] # {})
<1>1. ASSUME IInv, NEW p \in Pid, AtWork(p)
      PROVE  /\ pc[p] \in Saving => job[p] \in Jobs
             /\ pc[p] \in {"stat", "hash"} => left[p] # {}
             /\ pc[p] = "stages" => stages[p] # {} /\ queue[p] # {}
  BY <1>1 DEF IInv, TypeOK, AtWork, Listing, Working
<1>2. IInv /\ (\A p \in Pid : AtWork(p)) =>
        \A p \in Pid : /\ pc[p] \in Saving => job[p] \in Jobs
                       /\ pc[p] \in {"stat", "hash"} => left[p] # {}
                       /\ pc[p] = "stages" => stages[p] # {} /\ queue[p] # {}
  BY <1>1
<1> QED BY <1>2, Invariance, AtWorkInvariant, PTL

(* Every step of a sweep brings it nearer to its end, whatever a second sweep   *)
(* does to the ledger and whichever stages fail.                                *)
THEOREM SweepsEnd == Spec => [][GoOnward]_vars
<1>1. ASSUME IInv, NEW p \in Pid, AtWork(p), Run(p) \/ \E s \in Stages : StageFails(p, s)
      PROVE  Onward(p)
  BY <1>1, GoneOn, SaveOn, ListOn, StageOn DEF Run
<1>2. IInv /\ (\A p \in Pid : AtWork(p)) /\ [Next]_vars => [GoOnward]_vars
  BY <1>1 DEF GoOnward
<1> QED BY <1>2, Invariance, AtWorkInvariant, PTL DEF Spec
=============================================================================
