-------------------------- MODULE FactExtractionProofs --------------------------
(* What FactExtraction promises of every number of turns, passes and tokens,    *)
(* and of all limits: the invariant IInv, and what follows from it.             *)
EXTENDS FactExtraction, FiniteSetTheorems, WellFoundedInduction, TLAPS

USE FactAssumption

(* A claim is stamped with a token that nobody has.                             *)
LEMMA FreshToken == ~(Token \subseteq InUse) => randomUUID \in Token \ InUse
  BY DEF randomUUID

(* In the beginning nothing is leased, handled or under way.                    *)
LEMMA InitInv == Init => IInv
<1> SUFFICES ASSUME Init PROVE IInv
  OBVIOUS
<1>1. NoLease \in [token : Token \cup {NoToken}, live : BOOLEAN]
  BY DEF NoLease
<1>2. lease \in [Ids -> [token : Token \cup {NoToken}, live : BOOLEAN]]
  BY <1>1 DEF Init
<1>3. todo \in [Pass -> SUBSET Ids] /\ token \in [Pass -> Token \cup {NoToken}]
  BY DEF Init
<1>5. extracted \in [Ids -> Nat] /\ phase \in [Pass -> Phases]
  BY DEF Init, Phases
<1>6. last \in 0..MaxTurns /\ turns \subseteq 1..last /\ cursor \in 0..last /\ handled \subseteq 1..last
  BY DEF Init
<1>7. TypeOK
  BY <1>2, <1>3, <1>5, <1>6 DEF Init, TypeOK, Holding
<1>4. ExtractedOnce /\ LeasesKnown /\ HandledPassed /\ ExtractedHandled /\ Listed
  BY DEF Init, ExtractedOnce, LeasesKnown, HandledPassed, ExtractedHandled, Listed, Leased
<1> QED
  BY <1>7, <1>4 DEF IInv

(* The turns that a pass claims were in the window's past, and new or leased.   *)
LEMMA BatchKnown ==
  ASSUME IInv
  PROVE  batch \subseteq turns \ handled /\ \A n \in batch : ~lease[n].live /\ n \in Ids
<1>1. batch \subseteq turns /\ \A n \in batch : mayClaim(n)
  BY DEF batch, Claimable, Evicted
<1>2. turns \subseteq Ids /\ turns \subseteq Nat /\ cursor \in Nat
  BY DEF IInv, TypeOK, Ids
<1>3. ASSUME NEW n \in batch PROVE n \notin handled
  <2>1. CASE n > cursor
    BY <1>1, <1>2, <2>1 DEF IInv, HandledPassed
  <2>2. CASE Leased(n)
    BY <1>1, <1>2, <2>2 DEF IInv, LeasesKnown
  <2> QED BY <1>1, <2>1, <2>2 DEF mayClaim
<1> QED BY <1>1, <1>2, <1>3 DEF mayClaim

(* New rows have ids above the cursor and all leases.                           *)
LEMMA Appended ==
  ASSUME IInv, NEW size \in {1, 2}, append(size)
  PROVE  /\ last' \in last..MaxTurns /\ turns \subseteq turns' /\ turns' \subseteq 1..last'
         /\ createdAt' \in [Ids -> Nat] /\ \A n \in turns' : createdAt'[n] # 0
         /\ \A n \in turns' \ turns : n > last
         /\ \A n \in Ids : createdAt'[n] # 0 => n <= last'
         /\ \A n \in Ids : n <= last => createdAt'[n] = createdAt[n]
         /\ UNCHANGED <<cursor, lease>>
<1>1. PICK at \in Times :
        /\ last + size <= MaxTurns
        /\ last' = last + size
        /\ turns' = turns \cup (last + 1)..(last + size)
        /\ createdAt' = [n \in Ids |-> IF n \in (last + 1)..(last + size) THEN at ELSE createdAt[n]]
        /\ UNCHANGED <<cursor, lease>>
  BY DEF append
<1>2. at \in Nat \ {0} /\ last \in Nat /\ turns \subseteq 1..last /\ turns \subseteq Ids
      /\ createdAt \in [Ids -> Nat] /\ (\A n \in turns : createdAt[n] # 0)
      /\ \A n \in Ids : createdAt[n] # 0 => n <= last
  BY <1>1 DEF IInv, TypeOK, Ids
<1>3. (last + 1)..(last + size) \subseteq Ids
  BY <1>1, <1>2 DEF Ids
<1>4. createdAt' \in [Ids -> Nat] /\ \A n \in turns' : createdAt'[n] # 0
  BY <1>1, <1>2, <1>3
<1>5. \A n \in Ids : n <= last => createdAt'[n] = createdAt[n]
  BY <1>1, <1>2 DEF Ids
<1>6. \A n \in Ids : createdAt'[n] # 0 => n <= last'
  BY <1>1, <1>2 DEF Ids
<1> QED
  BY <1>1, <1>2, <1>4, <1>5, <1>6

LEMMA AppendedInv ==
  ASSUME IInv, NEW size \in {1, 2}, append(size), UNCHANGED history
  PROVE  /\ last' \in 0..MaxTurns /\ turns' \subseteq 1..last' /\ cursor' \in 0..last' /\ handled' \subseteq 1..last'
         /\ LeasesKnown' /\ HandledPassed'
<1>1. last' \in last..MaxTurns /\ turns \subseteq turns' /\ turns' \subseteq 1..last' /\ UNCHANGED <<cursor, lease, handled>>
      /\ \A n \in turns' \ turns : n > last
  BY Appended DEF history
<1>2. last \in 0..MaxTurns /\ handled \subseteq 1..last /\ cursor \in 0..last
  BY DEF IInv, TypeOK
<1>3. last' \in 0..MaxTurns /\ turns' \subseteq 1..last' /\ cursor' \in 0..last' /\ handled' \subseteq 1..last'
  BY <1>1, <1>2
<1>4. LeasesKnown'
  BY <1>1 DEF IInv, LeasesKnown, Leased
<1>5. HandledPassed'
  BY <1>1, <1>2 DEF IInv, HandledPassed
<1> QED BY <1>3, <1>4, <1>5

LEMMA AppendInv == ASSUME IInv, Append PROVE IInv'
<1>1. PICK size \in {1, 2} : append(size)
  BY DEF Append
<1>2. UNCHANGED <<request, passes, history, events>>
  BY DEF Append
<1>3. createdAt' \in [Ids -> Nat] /\ (\A n \in turns' : createdAt'[n] # 0) /\ UNCHANGED <<cursor, lease>>
      /\ \A n \in Ids : createdAt'[n] # 0 => n <= last'
  BY <1>1, Appended
<1>4. /\ last' \in 0..MaxTurns /\ turns' \subseteq 1..last' /\ cursor' \in 0..last' /\ handled' \subseteq 1..last'
      /\ LeasesKnown' /\ HandledPassed'
  BY <1>1, <1>2, AppendedInv
<1>5. TypeOK'
  BY <1>2, <1>3, <1>4 DEF IInv, TypeOK, passes, history
<1>6. ExtractedOnce' /\ ExtractedHandled' /\ Listed'
  BY <1>2 DEF IInv, ExtractedOnce, ExtractedHandled, Listed, passes, history
<1> QED
  BY <1>4, <1>5, <1>6 DEF IInv

LEMMA ConverseInv == ASSUME IInv, NEW p \in Pass, Converse(p) PROVE IInv'
<1>1. append(2) /\ UNCHANGED <<request, todo, token, seen, history, events>>
  BY DEF Converse
<1>2. phase' \in [Pass -> Phases] /\ \A q \in Pass : phase'[q] \in Holding <=> phase[q] \in Holding
  BY DEF IInv, TypeOK, Converse, Phases, Holding
<1>3. createdAt' \in [Ids -> Nat] /\ (\A n \in turns' : createdAt'[n] # 0) /\ UNCHANGED <<cursor, lease>>
      /\ \A n \in Ids : createdAt'[n] # 0 => n <= last'
  BY <1>1, Appended
<1>4. /\ last' \in 0..MaxTurns /\ turns' \subseteq 1..last' /\ cursor' \in 0..last' /\ handled' \subseteq 1..last'
      /\ LeasesKnown' /\ HandledPassed'
  BY <1>1, AppendedInv
<1>5. TypeOK'
  BY <1>1, <1>2, <1>3, <1>4 DEF IInv, TypeOK, history
<1>6. ExtractedOnce' /\ ExtractedHandled'
  BY <1>1 DEF IInv, ExtractedOnce, ExtractedHandled, history
<1>7. Listed'
  BY DEF IInv, TypeOK, Converse, Listed, history
<1> QED
  BY <1>4, <1>5, <1>6, <1>7 DEF IInv

(* A lease of a purged turn stays behind, and points at no turn.                *)
LEMMA PurgeInv == ASSUME IInv, purgeQuarantined PROVE IInv'
  BY DEF IInv, purgeQuarantined, TypeOK, ExtractedOnce, LeasesKnown, HandledPassed,
         ExtractedHandled, Listed, Leased, Ids, passes, history

LEMMA RequestInv == ASSUME IInv, Request PROVE IInv'
<1>1. TypeOK'
  <2>1. request' \in Nat
    BY DEF IInv, Request, TypeOK
  <2>2. heeded' \in BOOLEAN
    BY Zenon DEF Request
  <2> QED
    BY <2>1, <2>2 DEF IInv, Request, TypeOK, passes
<1>2. LeasesKnown' /\ HandledPassed' /\ ExtractedOnce' /\ ExtractedHandled'
  BY DEF IInv, Request, LeasesKnown, HandledPassed, ExtractedOnce, ExtractedHandled, Leased, passes
<1>3. Listed'
  BY DEF IInv, TypeOK, Request, Listed, passes
<1> QED
  BY <1>1, <1>2, <1>3 DEF IInv

LEMMA DeleteInv == ASSUME IInv, deleteConversation PROVE IInv'
  BY DEF IInv, deleteConversation, ForgetExtraction, Event, TypeOK, ExtractedOnce, LeasesKnown, HandledPassed,
         ExtractedHandled, Listed, Leased, NoLease, Ids, Phases, Holding, passes, history

LEMMA ListInv == ASSUME IInv, List PROVE IInv'
  BY DEF IInv, List, TypeOK, ExtractedOnce, LeasesKnown, HandledPassed,
         ExtractedHandled, Listed, Leased, NoLease, Ids, Phases, Holding, rows, history

LEMMA ServeInv == ASSUME IInv, Serve PROVE IInv'
  BY DEF IInv, Serve, clearFactExtractionRequest, TypeOK, ExtractedOnce, LeasesKnown, HandledPassed,
         ExtractedHandled, Listed, Leased, NoLease, Ids, Phases, Holding, history

LEMMA ClaimNothingInv == ASSUME IInv, NEW p \in Pass, ClaimNothing(p) PROVE IInv'
  BY DEF IInv, ClaimNothing, End, TypeOK, ExtractedOnce, LeasesKnown, HandledPassed,
         ExtractedHandled, Listed, Leased, NoLease, Ids, Phases, Holding, rows

(* A pass that claims stamps its batch and takes the cursor past all of it.     *)
LEMMA Raised ==
  ASSUME IInv, raise
  PROVE  /\ cursor' \in cursor..last /\ \A n \in batch : n <= cursor'
         /\ cursor' > cursor => cursor' \in batch
<1>1. batch \subseteq turns /\ turns \subseteq 1..last /\ cursor \in 0..last /\ last \in Nat
  BY BatchKnown DEF IInv, TypeOK
<1> QED
  BY <1>1 DEF raise, advance

LEMMA Stamped ==
  ASSUME IInv, NEW p \in Pass, Claim(p)
  PROVE  lease' = [n \in Ids |->
           IF n \in batch THEN [token |-> randomUUID, live |-> TRUE] ELSE lease[n]]
<1>1. todo'[p] = batch /\ token'[p] = randomUUID
  BY DEF Claim, IInv, TypeOK
<1> QED BY <1>1 DEF Claim

LEMMA ClaimInv == ASSUME IInv, NEW p \in Pass, Claim(p) PROVE IInv'
<1> DEFINE k == randomUUID
<1>1. k \in Token /\ k # NoToken
  BY FreshToken DEF Claim
<1>2. batch \subseteq turns \ handled /\ batch \subseteq Ids
  BY BatchKnown
<1>3. /\ cursor' \in cursor..last /\ \A n \in batch : n <= cursor'
  BY Raised DEF Claim
<1>4. [token |-> k, live |-> TRUE] \in [token : Token \cup {NoToken}, live : BOOLEAN]
  BY <1>1
<1>5. lease' \in [Ids -> [token : Token \cup {NoToken}, live : BOOLEAN]]
  BY <1>4, Stamped DEF IInv, TypeOK
<1>6. TypeOK'
  <2>1. phase' \in [Pass -> Phases] /\ todo' \in [Pass -> SUBSET Ids]
    BY <1>2 DEF Claim, IInv, TypeOK, Phases
  <2>2. token' \in [Pass -> Token \cup {NoToken}]
    BY <1>1 DEF Claim, IInv, TypeOK
  <2>3. \A q \in Pass : phase'[q] \in Holding <=> token'[q] # NoToken
    BY <1>1 DEF Claim, IInv, TypeOK, Holding
  <2>4. \A q \in Pass : todo'[q] # {} => phase'[q] \in Holding
    BY DEF Claim, IInv, TypeOK, Holding
  <2>5. cursor' \in 0..last'
    BY <1>3 DEF Claim, IInv, TypeOK
  <2> QED
    BY <1>5, <2>1, <2>2, <2>3, <2>4, <2>5 DEF Claim, IInv, TypeOK
<1>7. LeasesKnown'
  <2> SUFFICES ASSUME NEW n \in Ids, Leased(n)' PROVE n \in (turns \cup Quarantined) \ handled /\ n <= cursor' /\ lease'[n].token # NoToken
    BY DEF LeasesKnown, Claim
  <2>1. CASE n \in batch
    <3>1. lease'[n].token = k
      BY <2>1, Stamped
    <3> QED
      BY <2>1, <3>1, <1>1, <1>2, <1>3
  <2>2. CASE n \notin batch
    <3>1. Leased(n)
      BY <2>2, Stamped DEF Leased
    <3>2. n \in (turns \cup Quarantined) \ handled /\ n <= cursor /\ n \in Nat /\ lease[n].token # NoToken
      BY <3>1 DEF IInv, LeasesKnown, Ids
    <3>3. lease'[n] = lease[n]
      BY <2>2, Stamped
    <3> QED
      BY <3>2, <3>3, <1>3 DEF IInv, TypeOK
  <2> QED
    BY <2>1, <2>2
<1>8. HandledPassed' /\ ExtractedOnce' /\ ExtractedHandled'
  BY <1>3 DEF Claim, IInv, TypeOK, HandledPassed, ExtractedOnce, ExtractedHandled
<1>9. Listed'
  BY DEF Claim, IInv, TypeOK, Listed
<1> QED
  BY <1>6, <1>7, <1>8, <1>9 DEF IInv

(* Whoever owns a turn's lease may write its facts: it is known, not handled.   *)
LEMMA OwnedTurn ==
  ASSUME IInv, NEW p \in Pass, NEW n \in todo[p], Owns(p, n)
  PROVE  /\ n \in Ids /\ Leased(n) /\ n \in (turns \cup Quarantined) \ handled
         /\ n <= cursor /\ n \in 1..last /\ extracted[n] = 0
<1>1. n \in Ids /\ token[p] # NoToken
  BY DEF IInv, TypeOK
<1>2. Leased(n)
  BY <1>1 DEF Owns, Leased, NoLease
<1>3. n \in (turns \cup Quarantined) \ handled /\ n <= cursor
  BY <1>1, <1>2 DEF IInv, LeasesKnown
<1>4. n \in 1..last
  BY <1>1, <1>3 DEF IInv, TypeOK, Ids
<1>5. extracted[n] = 0
  BY <1>1, <1>3 DEF IInv, ExtractedHandled
<1> QED
  BY <1>1, <1>2, <1>3, <1>4, <1>5

(* One turn fewer, or the end of the pass.                                      *)
LEMMA CrossTyped ==
  ASSUME IInv, NEW p \in Pass, phase[p] \in Holding, NEW n \in First(p),
         NEW how \in {"clean", "failed"}, Cross(p, n, how)
  PROVE  /\ phase' \in [Pass -> Phases] /\ todo' \in [Pass -> SUBSET Ids]
         /\ token' \in [Pass -> Token \cup {NoToken}]
         /\ \A q \in Pass : phase'[q] \in Holding <=> token'[q] # NoToken
         /\ \A q \in Pass : todo'[q] # {} => phase'[q] \in Holding
<1>1. CASE todo[p] = {n}
  BY <1>1 DEF Cross, End, Drop, IInv, TypeOK, Phases, Holding
<1>2. CASE todo[p] # {n}
  BY <1>2 DEF Cross, IInv, TypeOK
<1> QED
  BY <1>1, <1>2

LEMMA SettleInv ==
  ASSUME IInv, NEW p \in Pass, phase[p] = "calling", NEW n \in First(p), Settle(p, n),
         \/ UNCHANGED extracted
         \/ extracted' = IF Owns(p, n) THEN [extracted EXCEPT ![n] = @ + 1] ELSE extracted
  PROVE  IInv'
<1>1. n \in todo[p] /\ n \in Ids
  BY DEF First, IInv, TypeOK
<1>2. /\ phase' \in [Pass -> Phases] /\ todo' \in [Pass -> SUBSET Ids]
      /\ token' \in [Pass -> Token \cup {NoToken}]
      /\ \A q \in Pass : phase'[q] \in Holding <=> token'[q] # NoToken
      /\ \A q \in Pass : todo'[q] # {} => phase'[q] \in Holding
  BY CrossTyped DEF Settle, Holding
<1>3. Listed'
  BY DEF Settle, Cross, End, Drop, IInv, TypeOK, Listed, Holding
<1>4. CASE ~Owns(p, n)
  BY <1>2, <1>3, <1>4 DEF Settle, IInv, TypeOK, ExtractedOnce, LeasesKnown, HandledPassed,
         ExtractedHandled, Leased
<1>5. CASE Owns(p, n)
  <2>1. Leased(n) /\ n \notin handled /\ n <= cursor /\ n \in 1..last /\ extracted[n] = 0
    BY <1>1, <1>5, OwnedTurn
  <2>2. lease' = [lease EXCEPT ![n] = NoLease] /\ handled' = handled \cup {n}
    BY <1>5 DEF Settle
  <2>3. lease' \in [Ids -> [token : Token \cup {NoToken}, live : BOOLEAN]]
    <3>1. NoLease \in [token : Token \cup {NoToken}, live : BOOLEAN]
      BY DEF NoLease
    <3> QED
      BY <2>2, <3>1 DEF IInv, TypeOK
  <2>4. extracted' \in [Ids -> Nat] /\ ExtractedOnce' /\ ExtractedHandled'
    BY <1>1, <2>1, <2>2 DEF IInv, TypeOK, ExtractedOnce, ExtractedHandled
  <2>5. TypeOK'
    <3>1. UNCHANGED <<last, turns, createdAt, cursor, request, seen, heeded, events>>
      BY DEF Settle
    <3>2. handled' \subseteq 1..last
      BY <2>1, <2>2 DEF IInv, TypeOK
    <3> QED
      BY <1>2, <2>3, <2>4, <3>1, <3>2 DEF IInv, TypeOK
  <2>6. LeasesKnown' /\ HandledPassed'
    BY <1>1, <2>1, <2>2 DEF Settle, IInv, TypeOK, LeasesKnown, HandledPassed, Leased
  <2> QED
    BY <1>3, <2>4, <2>5, <2>6 DEF IInv
<1> QED
  BY <1>4, <1>5

(* An expiry, or a release, changes no lease but its time.                      *)
LEMMA ExpiredInv ==
  ASSUME IInv, NEW gone \in SUBSET Ids,
         lease' = [n \in Ids |-> IF n \in gone THEN Stale(n) ELSE lease[n]],
         \A n \in gone : Leased(n)
  PROVE  /\ lease' \in [Ids -> [token : Token \cup {NoToken}, live : BOOLEAN]]
         /\ \A n \in Ids : Leased(n) <=> Leased(n)'
         /\ \A n \in Ids : lease'[n].token = lease[n].token
<1>1. \A n \in Ids : lease[n] \in [token : Token \cup {NoToken}, live : BOOLEAN]
  BY DEF IInv, TypeOK
<1>2. \A n \in Ids : lease'[n] \in [token : Token \cup {NoToken}, live : BOOLEAN]
  BY <1>1 DEF Stale
<1>3. \A n \in gone : lease'[n].token = lease[n].token /\ lease[n].token # NoToken
  BY DEF Stale, IInv, LeasesKnown
<1>4. \A n \in gone : Leased(n)'
  BY <1>3 DEF Leased, NoLease
<1> QED
  BY <1>1, <1>2, <1>3, <1>4 DEF Leased

LEMMA StoreFailsInv == ASSUME IInv, NEW p \in Pass, StoreFails(p) PROVE IInv'
  BY DEF IInv, StoreFails, End, Drop, Event, TypeOK, ExtractedOnce, LeasesKnown, HandledPassed,
         ExtractedHandled, Listed, Leased, NoLease, Ids, Phases, Holding, rows, history

LEMMA CrashInv == ASSUME IInv, NEW p \in Pass, Crash(p) PROVE IInv'
  BY DEF IInv, Crash, Drop, Event, TypeOK, ExtractedOnce, LeasesKnown, HandledPassed,
         ExtractedHandled, Listed, Leased, NoLease, Ids, Phases, Holding, rows, history

LEMMA ExpireLeases ==
  ASSUME IInv, Expire
  PROVE  /\ lease' \in [Ids -> [token : Token \cup {NoToken}, live : BOOLEAN]]
         /\ \A n \in Ids : Leased(n) <=> Leased(n)'
         /\ \A n \in Ids : lease'[n].token = lease[n].token
<1>1. PICK k : /\ k \in {lease[n].token : n \in {i \in Ids : lease[i].live}}
               /\ lease' = [n \in Ids |->
                    IF lease[n].token = k THEN Stale(n) ELSE lease[n]]
  BY DEF Expire
<1> DEFINE gone == {n \in Ids : lease[n].token = k /\ Leased(n)}
<1>2. lease' = [n \in Ids |-> IF n \in gone THEN Stale(n) ELSE lease[n]]
  <2>1. \A n \in Ids : ~Leased(n) => Stale(n) = lease[n]
    <3> SUFFICES ASSUME NEW n \in Ids, lease[n] = NoLease PROVE Stale(n) = NoLease
      BY DEF Leased
    <3>1. lease[n].token = NoToken
      BY DEF NoLease
    <3> QED
      BY <3>1 DEF Stale, NoLease
  <2>2. \A n \in Ids :
          (IF lease[n].token = k THEN Stale(n) ELSE lease[n])
          = IF n \in gone THEN Stale(n) ELSE lease[n]
    BY <2>1
  <2> QED
    BY <1>1, <2>2, Zenon
<1> HIDE DEF gone
<1>3. gone \in SUBSET Ids /\ \A n \in gone : Leased(n)
  BY DEF gone
<1> QED
  BY <1>2, <1>3, ExpiredInv

LEMMA ExpireInv == ASSUME IInv, Expire PROVE IInv'
<1>3. /\ lease' \in [Ids -> [token : Token \cup {NoToken}, live : BOOLEAN]]
      /\ \A n \in Ids : Leased(n) <=> Leased(n)'
      /\ \A n \in Ids : lease'[n].token = lease[n].token
  BY ExpireLeases
<1>4. UNCHANGED <<last, turns, createdAt, cursor, request, passes, history, events>>
  BY DEF Expire
<1> QED
  BY <1>3, <1>4 DEF IInv, TypeOK, LeasesKnown, HandledPassed, ExtractedOnce, ExtractedHandled,
                    Listed, passes, history

LEMMA ReleaseLeases ==
  ASSUME IInv, NEW p \in Pass, NEW n \in First(p),
         lease' = IF Owns(p, n) THEN [lease EXCEPT ![n] = Stale(n)] ELSE lease
  PROVE  /\ lease' \in [Ids -> [token : Token \cup {NoToken}, live : BOOLEAN]]
         /\ \A i \in Ids : Leased(i) <=> Leased(i)'
<1> DEFINE gone == IF Owns(p, n) THEN {n} ELSE {}
<1>1. n \in todo[p] /\ n \in Ids /\ lease \in [Ids -> [token : Token \cup {NoToken}, live : BOOLEAN]]
  BY DEF First, IInv, TypeOK
<1>2. gone \in SUBSET Ids /\ \A i \in gone : Leased(i)
  BY <1>1, OwnedTurn
<1>3. lease' = [i \in Ids |-> IF i \in gone THEN Stale(i) ELSE lease[i]]
  BY <1>1
<1> HIDE DEF gone
<1> QED
  BY <1>2, <1>3, ExpiredInv

LEMMA ReleaseInv == ASSUME IInv, NEW p \in Pass, Release(p) PROVE IInv'
<1>1. PICK n \in First(p) :
        /\ lease' = IF Owns(p, n) THEN [lease EXCEPT ![n] = Stale(n)] ELSE lease
        /\ Cross(p, n, "failed")
  BY DEF Release
<1>2. lease' \in [Ids -> [token : Token \cup {NoToken}, live : BOOLEAN]] /\ \A i \in Ids : Leased(i) <=> Leased(i)'
  BY <1>1, ReleaseLeases
<1>3. UNCHANGED <<last, turns, createdAt, cursor, request, seen, history, events>> /\ phase[p] = "releasing"
  BY DEF Release
<1>4. /\ phase' \in [Pass -> Phases] /\ todo' \in [Pass -> SUBSET Ids]
      /\ token' \in [Pass -> Token \cup {NoToken}]
      /\ \A q \in Pass : phase'[q] \in Holding <=> token'[q] # NoToken
      /\ \A q \in Pass : todo'[q] # {} => phase'[q] \in Holding
  BY <1>1, <1>3, CrossTyped DEF Holding
<1>5. TypeOK'
  BY <1>2, <1>3, <1>4 DEF IInv, TypeOK, history
<1>6. Listed'
  BY <1>1, <1>3 DEF Cross, End, Drop, IInv, TypeOK, Listed, Holding, history
<1>7. LeasesKnown'
  <2> SUFFICES ASSUME NEW i \in Ids, Leased(i)'
               PROVE  i \in (turns \cup Quarantined) \ handled /\ i <= cursor /\ lease'[i].token # NoToken
    BY <1>3 DEF LeasesKnown, history
  <2>1. Leased(i)
    BY <1>2
  <2>2. lease'[i].token = lease[i].token
    BY <1>1 DEF Stale, IInv, TypeOK
  <2> QED
    BY <2>1, <2>2 DEF IInv, LeasesKnown
<1> QED
  BY <1>3, <1>5, <1>6, <1>7 DEF IInv, HandledPassed, ExtractedOnce, ExtractedHandled, history

LEMMA HarnessFailsInv == ASSUME IInv, NEW p \in Pass, HarnessFails(p) PROVE IInv'
  BY DEF IInv, HarnessFails, Event, TypeOK, ExtractedOnce, LeasesKnown, HandledPassed,
         ExtractedHandled, Listed, Leased, NoLease, Ids, Phases, Holding, rows, history

LEMMA StepInv == IInv /\ [Next]_vars => IInv'
<1> SUFFICES ASSUME IInv, [Next]_vars PROVE IInv'
  OBVIOUS
<1>1. CASE Append
  BY <1>1, AppendInv
<1>2. CASE Request
  BY <1>2, RequestInv
<1>3. CASE deleteConversation
  BY <1>3, DeleteInv
<1>4. CASE List
  BY <1>4, ListInv
<1>5. CASE Serve
  BY <1>5, ServeInv
<1>6. CASE Expire
  BY <1>6, ExpireInv
<1>9. CASE purgeQuarantined
  BY <1>9, PurgeInv
<1>7. ASSUME NEW p \in Pass,
             Converse(p) \/ Run(p) \/ HarnessFails(p) \/ StoreFails(p) \/ Crash(p)
      PROVE  IInv'
  <2>1. CASE Converse(p)
    BY <2>1, ConverseInv
  <2>2. CASE ClaimNothing(p)
    BY <2>2, ClaimNothingInv
  <2>3. CASE Claim(p)
    BY <2>3, ClaimInv
  <2>4. CASE Extract(p)
    BY <2>4, SettleInv DEF Extract
  <2>5. CASE Skip(p)
    BY <2>5, SettleInv DEF Skip
  <2>6. CASE HarnessFails(p)
    BY <2>6, HarnessFailsInv
  <2>9. CASE Release(p)
    BY <2>9, ReleaseInv
  <2>7. CASE StoreFails(p)
    BY <2>7, StoreFailsInv
  <2>8. CASE Crash(p)
    BY <2>8, CrashInv
  <2> QED
    BY <1>7, <2>1, <2>2, <2>3, <2>4, <2>5, <2>6, <2>7, <2>8, <2>9 DEF Run
<1>8. CASE UNCHANGED vars
  BY <1>8 DEF vars, rows, passes, history, IInv, TypeOK, LeasesKnown, HandledPassed,
              ExtractedOnce, ExtractedHandled, Listed, Leased
<1> QED
  BY <1>1, <1>2, <1>3, <1>4, <1>5, <1>6, <1>7, <1>8, <1>9 DEF Next

(* The invariant holds in every reachable state.                                *)
THEOREM Invariance == Spec => []IInv
  BY InitInv, StepInv, PTL DEF Spec

(* The facts of a turn are written at most once, however many passes claim it,  *)
(* lose their lease while the model answers, fail or die.                       *)
THEOREM FactsOnce == Spec => []ExtractedOnce
<1>1. IInv => ExtractedOnce
  BY DEF IInv
<1> QED
  BY Invariance, <1>1, PTL

LEMMA StepWrites ==
  IInv /\ [Next]_vars => [\A n \in Ids : extracted'[n] # extracted[n] => n \in turns]_vars
<1> SUFFICES ASSUME IInv, Next, NEW n \in Ids, extracted'[n] # extracted[n]
             PROVE  n \in turns
  BY DEF vars
<1>1. PICK p \in Pass : Extract(p)
  BY DEF Next, Run, Append, Converse, Request, purgeQuarantined, deleteConversation, Release, List, Serve, Expire,
         ClaimNothing, Claim, Skip, HarnessFails, StoreFails, Crash, history
<1>2. PICK m \in First(p) \ Quarantined : extracted' = IF Owns(p, m) THEN [extracted EXCEPT ![m] = @ + 1] ELSE extracted
  BY <1>1 DEF Extract
<1>3. m = n /\ Owns(p, m)
  BY <1>2 DEF IInv, TypeOK
<1> QED
  BY <1>1, <1>2, <1>3, OwnedTurn DEF Extract, First

(* A pass never writes facts of a turn that was deleted under it.               *)
THEOREM DeletedForGood == Spec => NothingFromDeleted
  BY Invariance, StepWrites, PTL DEF Spec, NothingFromDeleted

LEMMA StepClears == IInv /\ [Next]_vars => [request # 0 /\ request' = 0 => heeded]_vars
<1> SUFFICES ASSUME IInv, Next, request # 0, request' = 0 PROVE heeded
  BY DEF vars
<1>1. request' = request \/ request' = request + 1 \/ Serve
  BY DEF Next, Run, Append, Converse, Request, purgeQuarantined, deleteConversation, List, Expire, Release, rows,
         ClaimNothing, Claim, Extract, Skip, Settle, HarnessFails, StoreFails, Crash
<1>2. Serve
  BY <1>1 DEF IInv, TypeOK
<1> QED
  BY <1>2 DEF Serve, clearFactExtractionRequest, IInv, TypeOK, Listed

(* No request is dropped that no claim has heeded.                              *)
THEOREM RequestsHeeded == Spec => RequestHeeded
  BY Invariance, StepClears, PTL DEF Spec, RequestHeeded
-----------------------------------------------------------------------------
(* Nothing is lost behind the cursor, except where ids and creation times differ. *)

(* What comes before an evicted turn in the table, and was not overtaken by it,  *)
(* has been evicted, too.                                                        *)
LEMMA OlderEvicted ==
  ASSUME IInv, NEW m \in Evicted, NEW n \in turns \ Overtaken, n < m
  PROVE  n \in Evicted
<1>1. turns \subseteq Nat /\ m \in turns
  BY DEF IInv, TypeOK, Evicted
<1>2. IsFiniteSet(turns)
  <2>1. IsFiniteSet(1..last)
    BY FS_Interval DEF IInv, TypeOK
  <2> QED
    BY <2>1, FS_Subset DEF IInv, TypeOK
<1>3. Newer(m) \subseteq Newer(n)
  <2>1. n \in Ids /\ m \in Ids /\ Ids \subseteq Nat /\ turns \subseteq Ids /\ createdAt \in [Ids -> Nat]
    BY <1>1 DEF IInv, TypeOK, Ids
  <2>2. createdAt[m] \in Nat \ {0}
    BY <1>1, <2>1 DEF IInv, TypeOK
  <2>3. createdAt[n] <= createdAt[m]
    BY <2>1, <2>2 DEF Overtaken
  <2>4. ASSUME NEW k \in Newer(m) PROVE k \in Newer(n)
    <3>1. k \in turns /\ k \in Ids /\ createdAt[k] \in Nat /\ createdAt[n] \in Nat
      BY <2>1 DEF Newer
    <3>2. createdAt[k] > createdAt[m] \/ (createdAt[k] = createdAt[m] /\ k > m)
      BY DEF Newer
    <3>3. createdAt[k] > createdAt[n] \/ (createdAt[k] = createdAt[n] /\ k > n)
      BY <2>1, <2>2, <2>3, <3>1, <3>2
    <3> QED BY <3>1, <3>3 DEF Newer
  <2> QED BY <2>4
<1>4. IsFiniteSet(Newer(n)) /\ IsFiniteSet(Newer(m))
  BY <1>2, FS_Subset DEF Newer
<1>5. Cardinality(Newer(m)) <= Cardinality(Newer(n))
  BY <1>3, <1>4, FS_Subset
<1>6. Cardinality(Newer(m)) \in Nat /\ Cardinality(Newer(n)) \in Nat
  BY <1>4, FS_CardinalityType
<1>7. Cardinality(Newer(m)) >= windowSize
  BY DEF Evicted
<1> QED
  BY <1>5, <1>6, <1>7 DEF Evicted

(* A batch takes claimable turns from the oldest on.                            *)
LEMMA OlderInBatch ==
  ASSUME IInv, NEW m \in batch, NEW n \in Claimable, n < m
  PROVE  n \in batch
<1> DEFINE Before(i) == {k \in Claimable : k < i}
<1>1. last \in Int /\ m \in Claimable /\ Claimable \subseteq 1..last
  <2>1. turns \subseteq 1..last /\ last \in 0..MaxTurns
    BY DEF IInv, TypeOK
  <2>2. m \in Claimable /\ Claimable \subseteq turns
    BY DEF batch, Claimable, Evicted
  <2> QED
    BY <2>1, <2>2
<1>2. IsFiniteSet(Claimable)
  <2>1. IsFiniteSet(1..last)
    BY <1>1, FS_Interval
  <2> QED
    BY <1>1, <2>1, FS_Subset
<1>3. Before(n) \subseteq Before(m)
  <2> SUFFICES ASSUME NEW k \in Claimable, k < n PROVE k < m
    OBVIOUS
  <2>1. k \in Int /\ m \in Int /\ n \in Int
    BY <1>1
  <2> QED
    BY <2>1
<1>4. IsFiniteSet(Before(n)) /\ IsFiniteSet(Before(m))
  BY <1>2, FS_Subset
<1>5. Cardinality(Before(n)) <= Cardinality(Before(m))
  BY <1>3, <1>4, FS_Subset
<1>6. Cardinality(Before(n)) \in Nat /\ Cardinality(Before(m)) \in Nat
  BY <1>4, FS_CardinalityType
<1>7. Cardinality(Before(m)) < maxExtractPerTurn
  BY DEF batch
<1>8. Cardinality(Before(n)) < maxExtractPerTurn
  BY <1>5, <1>6, <1>7
<1> QED
  BY <1>8 DEF batch

LEMMA ClaimPasses ==
  ASSUME IInv, NothingPassedOver, NEW p \in Pass, Claim(p)
  PROVE  NothingPassedOver'
<1> SUFFICES ASSUME NEW n \in turns \ Overtaken, n <= cursor', n \notin handled PROVE Leased(n)'
  BY DEF NothingPassedOver, Claim, Overtaken
<1>1. n \in Ids /\ n \in Nat /\ cursor \in Nat
  BY DEF IInv, TypeOK, Ids
<1>2. CASE n \in batch
  <2>1. randomUUID # NoToken
    BY FreshToken DEF Claim
  <2>2. lease'[n].token = randomUUID
    BY <1>1, <1>2, Stamped
  <2> QED
    BY <2>1, <2>2 DEF Leased, NoLease
<1>3. CASE n \notin batch
  <2>1. n <= cursor
    <3> SUFFICES ASSUME n > cursor PROVE FALSE
      BY <1>1
    <3>1. cursor' \in batch /\ n < cursor'
      BY <1>1, <1>3, Raised DEF Claim, IInv, TypeOK
    <3>2. n \in Evicted
      BY <3>1, OlderEvicted DEF batch, Claimable
    <3>3. ~Leased(n)
      BY <1>1 DEF IInv, LeasesKnown
    <3>4. n \in Claimable
      BY <3>2, <3>3 DEF Claimable, mayClaim, Leased, NoLease
    <3> QED
      BY <1>3, <3>1, <3>4, OlderInBatch
  <2>2. Leased(n)
    BY <2>1 DEF NothingPassedOver
  <2> QED
    BY <1>1, <1>3, <2>2, Stamped DEF Leased
<1> QED
  BY <1>2, <1>3

LEMMA StepPasses == IInv /\ NothingPassedOver /\ [Next]_vars => NothingPassedOver'
<1> SUFFICES ASSUME IInv, NothingPassedOver, [Next]_vars PROVE NothingPassedOver'
  OBVIOUS
<1>1. CASE Append \/ \E p \in Pass : Converse(p)
  <2>1. PICK size \in {1, 2} : append(size)
    BY <1>1 DEF Append, Converse
  <2>2. UNCHANGED history
    BY <1>1 DEF Append, Converse
  <2>3. /\ UNCHANGED <<cursor, lease>> /\ turns' \subseteq 1..last' /\ last' \in last..MaxTurns
        /\ \A n \in turns' \ turns : n > last
        /\ \A n \in Ids : n <= last => createdAt'[n] = createdAt[n]
    BY <2>1, Appended
  <2>4. Overtaken \subseteq Overtaken'
    <3>1. \A n \in Ids : createdAt[n] # 0 => n <= last
      BY DEF IInv, TypeOK
    <3>2. \A n \in Ids : n \in Nat /\ createdAt[n] \in Nat
      BY DEF IInv, TypeOK, Ids
    <3> QED BY <2>3, <3>1, <3>2 DEF Overtaken
  <2> SUFFICES ASSUME NEW n \in turns' \ Overtaken', n <= cursor, n \notin handled PROVE Leased(n)
    BY <2>2, <2>3 DEF history, NothingPassedOver, Leased
  <2>5. n \in turns
    BY <2>3 DEF IInv, TypeOK
  <2> QED
    BY <2>4, <2>5 DEF NothingPassedOver
<1>2. CASE deleteConversation \/ purgeQuarantined
  BY <1>2 DEF deleteConversation, purgeQuarantined, NothingPassedOver, Overtaken, Leased, history
<1>3. CASE Expire
  <2>1. \A n \in Ids : Leased(n) <=> Leased(n)'
    BY <1>3, ExpireLeases
  <2> QED
    BY <1>3, <2>1 DEF Expire, NothingPassedOver, Overtaken, IInv, TypeOK, Ids, history
<1>4. ASSUME NEW p \in Pass, Claim(p) PROVE NothingPassedOver'
  BY <1>4, ClaimPasses
<1>5. ASSUME NEW p \in Pass, NEW n \in First(p), Settle(p, n) PROVE NothingPassedOver'
  <2> SUFFICES ASSUME NEW i \in turns \ Overtaken, i <= cursor, i \notin handled' PROVE Leased(i)'
    BY <1>5 DEF Settle, NothingPassedOver, Overtaken
  <2>1. Leased(i) /\ i \in Ids
    BY <1>5 DEF Settle, NothingPassedOver, IInv, TypeOK, Ids
  <2>2. lease'[i] = lease[i]
    BY <1>5, <2>1 DEF Settle, IInv, TypeOK
  <2> QED
    BY <2>1, <2>2 DEF Leased
<1>6. ASSUME NEW p \in Pass, Release(p) PROVE NothingPassedOver'
  <2>1. \A n \in Ids : Leased(n) <=> Leased(n)'
    BY <1>6, ReleaseLeases DEF Release
  <2>2. UNCHANGED <<turns, createdAt, cursor, handled>>
    BY <1>6 DEF Release, history
  <2>3. turns \subseteq Ids
    BY DEF IInv, TypeOK, Ids
  <2> QED
    BY <2>1, <2>2, <2>3 DEF NothingPassedOver, Overtaken
<1>7. CASE UNCHANGED <<turns, createdAt, cursor, lease, handled>>
  BY <1>7 DEF NothingPassedOver, Overtaken, Leased
<1>8. ASSUME NEW p \in Pass, ClaimNothing(p) \/ HarnessFails(p) \/ StoreFails(p) \/ Crash(p)
      PROVE  UNCHANGED <<turns, createdAt, cursor, lease, handled>>
  BY <1>8 DEF ClaimNothing, HarnessFails, StoreFails, Crash, rows, history
<1>9. ASSUME Request \/ List \/ Serve \/ UNCHANGED vars
      PROVE  UNCHANGED <<turns, createdAt, cursor, lease, handled>>
  BY <1>9 DEF Request, List, Serve, vars, rows, history
<1> QED
  BY <1>1, <1>2, <1>3, <1>4, <1>5, <1>6, <1>7, <1>8, <1>9 DEF Next, Run, Extract, Skip

(* A turn that the cursor has passed is handled or can be found by its lease:   *)
(* no crash or failure loses it, nor two passes at once.  Only turns that were  *)
(* overtaken, in the order of creation, by one behind them may be lost.         *)
THEOREM NoneLost == Spec => []NothingPassedOver
<1>1. Init => NothingPassedOver
  BY DEF Init, NothingPassedOver
<1> QED
  BY Invariance, StepPasses, <1>1, PTL DEF Spec
-----------------------------------------------------------------------------
(* What EvictedHandled rests on, apart from fairness. *)

OutOfWindow == Evicted \ (handled \cup Overtaken)
Findable == \A n \in OutOfWindow : mayClaim(n) \/ lease[n].live

(* Whatever has left the window can be claimed or is leased to somebody for the *)
(* time being: no failure takes a turn out of the reach of later passes.        *)
THEOREM NeverOutOfReach == Spec => []Findable
<1>1. IInv /\ NothingPassedOver => Findable
  <2> SUFFICES ASSUME IInv, NothingPassedOver, NEW n \in OutOfWindow
               PROVE  mayClaim(n) \/ lease[n].live
    BY DEF Findable
  <2>1. n \in turns \ Overtaken /\ n \notin handled
    BY DEF OutOfWindow, Evicted
  <2>2. n \in Nat /\ cursor \in Nat
    BY <2>1 DEF IInv, TypeOK
  <2>3. n > cursor \/ Leased(n)
    BY <2>1, <2>2 DEF NothingPassedOver
  <2> QED BY <2>3 DEF mayClaim
<1> QED
  BY Invariance, NoneLost, <1>1, PTL

LEMMA Least == ASSUME NEW S \in SUBSET Nat, S # {} PROVE \E n \in S : \A k \in S : n <= k
<1> DEFINE R == OpToRel(<, Nat)
<1>1. IsWellFoundedOn(R, Nat)
  BY NatLessThanWellFounded
<1>2. \A a, b \in Nat : a < b => <<a, b>> \in R
  BY DEF OpToRel
<1> HIDE DEF R
<1>3. PICK n \in S : \A k \in S : <<k, n>> \notin R
  BY <1>1, WFMin
<1>4. ASSUME NEW k \in S PROVE n <= k
  <2>1. k \in Nat /\ n \in Nat /\ ~(k < n)
    BY <1>2, <1>3
  <2> QED BY <2>1
<1> QED BY <1>4

LEMMA SomeFirst == ASSUME NEW p \in Pass, todo[p] \in SUBSET Nat, todo[p] # {} PROVE First(p) # {}
  BY Least DEF First

(* Where something can be claimed, the batch holds the oldest of it.            *)
LEMMA BatchHasOldest ==
  ASSUME IInv, NEW n \in Claimable, \A k \in Claimable : n <= k
  PROVE  n \in batch
<1>1. turns \subseteq Nat
  BY DEF IInv, TypeOK
<1>2. Claimable \subseteq Nat
  BY <1>1 DEF Claimable, Evicted
<1>3. {k \in Claimable : k < n} = {}
  <2> SUFFICES ASSUME NEW k \in Claimable, k < n PROVE FALSE
    OBVIOUS
  <2> QED BY <1>2
<1>4. Cardinality({k \in Claimable : k < n}) = 0
  BY <1>3, FS_EmptySet
<1> QED BY <1>4 DEF batch

LEMMA BatchFound == ASSUME IInv, Claimable # {} PROVE batch # {}
<1>1. turns \subseteq Nat
  BY DEF IInv, TypeOK
<1>2. Claimable \in SUBSET Nat
  BY <1>1 DEF Claimable, Evicted
<1> QED BY <1>2, Least, BatchHasOldest

(* A pass that works has turns to work on, of which Extract, Skip or Release    *)
(* takes the first.                                                             *)
WorkLeft == \A p \in Pass : phase[p] \in Holding => todo[p] # {}

(* What a pass does brings it to its end: it starts on a batch, works off a     *)
(* turn, or is over.                                                            *)
Shorter(p) ==
  \/ phase[p] = "called" /\ phase'[p] # "called"
  \/ phase[p] \in Holding /\ phase'[p] = phase[p] /\ \E n \in First(p) : todo'[p] = todo[p] \ {n}
  \/ phase[p] \in Holding /\ phase'[p] \notin {"called"} \cup Holding
Shortens == \A p \in Pass : Run(p) => Shorter(p)

LEMMA CrossForward ==
  ASSUME IInv, NEW p \in Pass, NEW n \in First(p), phase[p] \in Holding,
         NEW how \in {"clean", "failed"}, Cross(p, n, how)
  PROVE  /\ Shorter(p)
         /\ \A q \in Pass : phase'[q] \in Holding => phase[q] \in Holding
         /\ \A q \in Pass : phase'[q] \in Holding /\ todo[q] # {} => todo'[q] # {}
<1>1. todo \in [Pass -> SUBSET Ids] /\ phase \in [Pass -> Phases]
  BY DEF IInv, TypeOK
<1>2. CASE todo[p] = {n}
  BY <1>1, <1>2 DEF Cross, End, Drop, Shorter, Holding
<1>3. CASE todo[p] # {n}
  BY <1>1, <1>3 DEF Cross, Shorter, First
<1> QED BY <1>2, <1>3

LEMMA RunForward ==
  ASSUME IInv, NEW p \in Pass, Run(p)
  PROVE  /\ Shorter(p)
         /\ \A q \in Pass : phase'[q] \in Holding /\ (phase[q] \in Holding => todo[q] # {}) => todo'[q] # {}
<1>1. todo \in [Pass -> SUBSET Ids] /\ phase \in [Pass -> Phases]
  BY DEF IInv, TypeOK
<1>2. CASE ClaimNothing(p)
  BY <1>1, <1>2 DEF ClaimNothing, End, Shorter, Holding
<1>3. CASE Claim(p)
  <2>1. batch # {}
    BY <1>3, BatchFound DEF Claim
  <2> QED BY <1>1, <1>3, <2>1 DEF Claim, Shorter
<1>4. CASE Extract(p) \/ Skip(p) \/ Release(p)
  <2>1. PICK n \in First(p), how \in {"clean", "failed"} : Cross(p, n, how)
    BY <1>4 DEF Extract, Skip, Release, Settle
  <2>2. phase[p] \in Holding
    BY <1>4 DEF Extract, Skip, Release, Holding
  <2> QED BY <2>1, <2>2, CrossForward
<1> QED BY <1>2, <1>3, <1>4 DEF Run

LEMMA StepWork == IInv /\ WorkLeft /\ [Next]_vars => WorkLeft'
<1> SUFFICES ASSUME IInv, WorkLeft, [Next]_vars, NEW q \in Pass, phase'[q] \in Holding PROVE todo'[q] # {}
  BY DEF WorkLeft
<1>1. todo \in [Pass -> SUBSET Ids] /\ phase \in [Pass -> Phases]
  BY DEF IInv, TypeOK
<1>2. ASSUME NEW p \in Pass, Run(p) PROVE todo'[q] # {}
  BY <1>2, RunForward DEF WorkLeft
<1>3. ASSUME NEW p \in Pass, HarnessFails(p) \/ StoreFails(p) \/ Crash(p) \/ Converse(p) PROVE todo'[q] # {}
  BY <1>1, <1>3 DEF WorkLeft, HarnessFails, StoreFails, Crash, Converse, End, Drop, Holding
<1>4. CASE List \/ Serve
  BY <1>1, <1>4 DEF WorkLeft, List, Serve, Holding
<1>5. CASE Append \/ Request \/ purgeQuarantined \/ deleteConversation \/ Expire \/ UNCHANGED vars
  BY <1>5 DEF WorkLeft, Append, Request, purgeQuarantined, deleteConversation, Expire, passes, vars
<1> QED BY <1>2, <1>3, <1>4, <1>5 DEF Next

(* No pass is ever left with nothing to do and a claim in its hands, whatever   *)
(* happens to its leases: it can always deal with the oldest of its turns.      *)
THEOREM PassesGoOn == Spec => [](\A p \in Pass : phase[p] \in Holding => First(p) # {})
<1>1. Init => WorkLeft
  BY DEF Init, WorkLeft, Holding
<1>2. IInv /\ WorkLeft => \A p \in Pass : phase[p] \in Holding => First(p) # {}
  <2> SUFFICES ASSUME IInv, WorkLeft, NEW p \in Pass, phase[p] \in Holding PROVE First(p) # {}
    OBVIOUS
  <2>1. todo[p] \in SUBSET Ids /\ Ids \subseteq Nat
    BY DEF IInv, TypeOK, Ids
  <2>2. todo[p] \in SUBSET Nat /\ todo[p] # {}
    BY <2>1 DEF WorkLeft
  <2> QED BY <2>2, SomeFirst
<1> QED
  BY Invariance, StepWork, <1>1, <1>2, PTL DEF Spec

(* Every step of a pass brings it nearer to its end.                            *)
THEOREM PassesEnd == Spec => [][Shortens]_vars
<1>1. IInv /\ [Next]_vars => [Shortens]_vars
  BY RunForward DEF Shortens
<1> QED
  BY Invariance, <1>1, PTL DEF Spec
=============================================================================
