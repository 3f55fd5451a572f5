------------------------ MODULE ConversationQueueProofs ------------------------
(* What ConversationQueue promises of every number of messages: the count of    *)
(* /stop is exact, and chain and epochs together implement the mailbox.         *)
EXTENDS ConversationQueue, FiniteSetTheorems, TLAPS

USE QueueAssumption

Unsettled == At("queued") \cup At("running") \cup At("ended")
Heads == {m \in Msg : place[m] \in {"running", "ended"}}
Foremost(m, r) == \A k \in Unsettled : r[m] <= r[k]

(* r numbers the messages in the order in which they came.  What is not settled *)
(* forms a chain in this order: its last is the tail, each queued message hangs *)
(* on the one before it, and only the first can be at work or ready for it.     *)
Chained(r) ==
  /\ \A m, n \in Unsettled : r[m] = r[n] => m = n
  /\ tail # None => tail \in Unsettled
  /\ \A m \in Unsettled : tail # None /\ r[m] <= r[tail]
  /\ \A m \in Heads : Foremost(m, r)
  /\ \A m \in At("queued") :
       /\ prev[m] \notin At("new")
       /\ prev[m] \notin Unsettled => Foremost(m, r)
       /\ prev[m] \in Unsettled =>
            /\ r[prev[m]] < r[m]
            /\ \A k \in Unsettled : r[k] <= r[prev[m]] \/ r[m] <= r[k]
Ordered(r) == \A m \in Waiting : ahead[m] = {k \in Waiting : r[k] < r[m]}

(* The chain, and what the slot says of it: no callback has a ticket of a later *)
(* epoch, so that the next epoch is new to all of them.                         *)
Slot ==
  /\ \A m \in At("queued") : ticket[m] <= epoch
  /\ \A m \in Msg : ahead[m] \subseteq Waiting
  /\ IsFiniteSet(Waiting)
QInv == TypeOK /\ CountExact /\ Slot /\ \E r \in [Msg -> Int] : Chained(r) /\ Ordered(r)

(* Nothing is chained in the beginning.                                         *)
LEMMA InitInv == Init => QInv
<1> SUFFICES ASSUME Init PROVE QInv
  OBVIOUS
<1>1. TypeOK
  BY DEF Init, TypeOK, Places
<1>2. Waiting = {} /\ Unsettled = {} /\ Heads = {}
  BY DEF Init, Waiting, Unsettled, Heads, At
<1>3. CountExact /\ Slot
  BY <1>2, FS_EmptySet DEF CountExact, Slot, Init, At
<1>4. [m \in Msg |-> 0] \in [Msg -> Int] /\ Chained([m \in Msg |-> 0]) /\ Ordered([m \in Msg |-> 0])
  BY <1>2 DEF Chained, Ordered, Init, At
<1> QED
  BY <1>1, <1>3, <1>4 DEF QInv

(* A message is chained behind the tail.                                        *)
LEMMA EnqueueChain ==
  ASSUME QInv, NEW m \in Msg, NEW e \in Nat, enqueue(m, e),
         NEW r \in [Msg -> Int], Chained(r)
  PROVE  \E s \in [Msg -> Int] :
           /\ \A n \in Msg \ {m} : s[n] = r[n]
           /\ \A n \in Unsettled : s[n] < s[m]
           /\ Chained(s)'
<1> DEFINE top == IF tail = None THEN 0 ELSE r[tail] + 1
<1>1. TypeOK /\ place[m] = "new" /\ tail' = m /\ m # None
  BY DEF QInv, enqueue
<1>2. /\ \A n \in Msg : place'[n] = IF n = m THEN "queued" ELSE place[n]
      /\ \A n \in Msg : prev'[n] = IF n = m THEN tail ELSE prev[n]
  BY DEF QInv, enqueue, Move, TypeOK
<1>3. /\ Unsettled' = Unsettled \cup {m} /\ Heads' = Heads /\ At("queued")' = At("queued") \cup {m}
      /\ At("new")' = At("new") \ {m} /\ m \notin Unsettled /\ m \in At("new")
      /\ Unsettled \subseteq Msg /\ Heads \subseteq Unsettled /\ At("queued") \subseteq Unsettled
  BY <1>1, <1>2 DEF Unsettled, Heads, At
<1>4. PICK s \in [Msg -> Int] : s[m] = top /\ \A n \in Msg \ {m} : s[n] = r[n]
  <2>1. tail # None => tail \in Msg
    BY <1>1 DEF TypeOK
  <2>2. top \in Int
    BY <2>1
  <2>3. [r EXCEPT ![m] = top] \in [Msg -> Int]
    BY <2>2
  <2> QED
    BY <2>3
<1>5. \A n \in Unsettled : s[n] = r[n] /\ s[n] < s[m]
  <2> SUFFICES ASSUME NEW n \in Unsettled PROVE s[n] = r[n] /\ s[n] < s[m]
    OBVIOUS
  <2>1. tail # None /\ r[n] <= r[tail] /\ tail \in Msg
    BY <1>3 DEF Chained
  <2>2. s[m] = r[tail] + 1 /\ s[n] = r[n]
    BY <1>3, <1>4, <2>1
  <2> QED
    BY <1>3, <2>1, <2>2
<1>6. \A i, n \in Unsettled' : s[i] = s[n] => i = n
  BY <1>3, <1>4, <1>5 DEF Chained
<1>7. tail' \in Unsettled' /\ \A n \in Unsettled' : tail' # None /\ s[n] <= s[tail']
  BY <1>1, <1>3, <1>4, <1>5
<1>8. ASSUME NEW n \in Unsettled, Foremost(n, r) PROVE Foremost(n, s)'
  BY <1>3, <1>4, <1>5, <1>8 DEF Foremost
<1>9. \A n \in Heads' : Foremost(n, s)'
  BY <1>3, <1>8 DEF Chained
<1>10. ASSUME NEW n \in At("queued")'
       PROVE  /\ prev'[n] \notin At("new")'
              /\ prev'[n] \notin Unsettled' => Foremost(n, s)'
              /\ prev'[n] \in Unsettled' =>
                     /\ s[prev'[n]] < s[n]
                     /\ \A k \in Unsettled' : s[k] <= s[prev'[n]] \/ s[n] <= s[k]
  <2>1. CASE n = m
    <3>1. prev'[m] = tail
      BY <1>2
    <3>2. CASE tail = None
      <4>1. Unsettled = {}
        BY <3>2 DEF Chained
      <4> QED
        BY <2>1, <3>1, <3>2, <4>1, <1>3, <1>4 DEF Foremost, At
    <3>3. CASE tail # None
      <4>1. tail \in Unsettled
        BY <3>3 DEF Chained
      <4>2. \A k \in Unsettled : s[k] <= s[tail]
        BY <1>5, <4>1 DEF Chained
      <4>3. tail \notin At("new")
        BY <4>1 DEF Unsettled, At
      <4> QED
        BY <2>1, <3>1, <4>1, <4>2, <4>3, <1>3, <1>4, <1>5
    <3> QED
      BY <3>2, <3>3
  <2>2. CASE n # m
    <3>1. n \in At("queued") /\ prev'[n] = prev[n] /\ prev[n] \notin At("new") /\ prev[n] # m
      BY <1>2, <1>3, <2>2 DEF Chained
    <3>2. prev'[n] \notin Unsettled' => Foremost(n, s)'
      BY <1>3, <3>1, <1>8 DEF Chained
    <3>3. ASSUME prev[n] \in Unsettled
          PROVE  s[prev[n]] < s[n] /\ \A k \in Unsettled' : s[k] <= s[prev[n]] \/ s[n] <= s[k]
      <4>1. s[prev[n]] < s[n]
        BY <1>3, <1>5, <3>1, <3>3 DEF Chained
      <4>2. \A k \in Unsettled : s[k] <= s[prev[n]] \/ s[n] <= s[k]
        BY <1>3, <1>5, <3>1, <3>3 DEF Chained
      <4>3. s[n] <= s[m]
        BY <1>3, <1>4, <1>5, <3>1
      <4> QED
        BY <1>3, <4>1, <4>2, <4>3
    <3> QED
      BY <1>3, <3>1, <3>2, <3>3
  <2> QED
    BY <2>1, <2>2
<1>11. Chained(s)'
  BY <1>6, <1>7, <1>9, <1>10 DEF Chained
<1> QED
  BY <1>4, <1>5, <1>11

(* A message whose turn has come is the first of the chain.                     *)
LEMMA ReadyFirst ==
  ASSUME TypeOK, NEW m \in Msg, place[m] = "queued", Ready(m),
         NEW r \in [Msg -> Int], Chained(r)
  PROVE  Foremost(m, r)
<1>1. m \in At("queued") /\ prev[m] \notin Unsettled
  BY DEF At, Unsettled, Ready
<1> QED
  BY <1>1 DEF Chained

(* Its callback changes nothing in the chain.                                   *)
LEMMA ClaimChain ==
  ASSUME QInv, NEW m \in Msg, claim(m), NEW r \in [Msg -> Int], Chained(r)
  PROVE  Chained(r)' /\ Foremost(m, r) /\ Unsettled' = Unsettled /\ m \in Unsettled
<1>1. TypeOK /\ place[m] = "queued" /\ Foremost(m, r) /\ tail' = tail
  BY ReadyFirst DEF QInv, claim
<1>2. /\ \A n \in Msg \ {m} : place'[n] = place[n] /\ prev'[n] = prev[n]
      /\ place'[m] \in {"running", "ended"}
  BY DEF QInv, claim, Move, TypeOK
<1>3. /\ Unsettled' = Unsettled /\ Heads' = Heads \cup {m} /\ At("queued")' = At("queued") \ {m}
      /\ At("new")' = At("new") /\ m \in Unsettled /\ Unsettled \subseteq Msg
  BY <1>1, <1>2 DEF Unsettled, Heads, At
<1>4. \A n \in Unsettled : Foremost(n, r)' <=> Foremost(n, r)
  BY <1>3 DEF Foremost
<1>5. \A n \in At("queued")' : n \in At("queued") /\ n \in Unsettled /\ prev'[n] = prev[n]
  BY <1>2, <1>3 DEF At, Unsettled
<1>6. \A n \in Heads' : n \in Unsettled /\ Foremost(n, r)
  BY <1>1, <1>3 DEF Chained, Heads, Unsettled, At
<1>7. Chained(r)'
  BY <1>1, <1>3, <1>4, <1>5, <1>6 DEF Chained
<1> QED
  BY <1>1, <1>3, <1>7

(* What settles was the first of the chain; now the next one is.                *)
LEMMA SettleChain ==
  ASSUME QInv, NEW m \in Msg, Settle(m), NEW r \in [Msg -> Int], Chained(r)
  PROVE  /\ Chained(r)' /\ At("queued")' = At("queued") /\ At("running")' = At("running")
         /\ tail = m => At("queued") = {} /\ At("running") = {}
<1>1. TypeOK /\ place[m] = "ended" /\ m \in Heads /\ Foremost(m, r) /\ prev' = prev
  BY DEF QInv, Settle, Heads, Chained
<1>2. \A n \in Msg : place'[n] = IF n = m THEN "settled" ELSE place[n]
  BY DEF QInv, Settle, Move, TypeOK
<1>3. /\ Unsettled' = Unsettled \ {m} /\ Heads' = Heads \ {m} /\ At("queued")' = At("queued")
      /\ At("running")' = At("running") /\ At("new")' = At("new")
      /\ m \in Unsettled /\ Unsettled \subseteq Msg /\ m \notin At("queued")
      /\ m \notin At("running") /\ At("queued") \subseteq Unsettled /\ At("running") \subseteq Unsettled
      /\ Heads \subseteq Unsettled
  BY <1>1, <1>2 DEF Unsettled, Heads, At
<1>4. tail' = IF tail = m THEN None ELSE tail
  BY DEF Settle, Forget
<1>5. tail = m => Unsettled = {m}
  BY <1>1, <1>3 DEF Chained, Foremost
<1>6. \A n \in Unsettled' : tail' # None /\ r[n] <= r[tail']
  BY <1>3, <1>4, <1>5 DEF Chained
<1>7. tail' # None => tail' \in Unsettled'
  BY <1>3, <1>4 DEF Chained
<1>8. \A n \in Unsettled : Foremost(n, r) => Foremost(n, r)'
  BY <1>3 DEF Foremost
<1>9. ASSUME NEW n \in At("queued")
      PROVE  /\ prev[n] \notin At("new")'
             /\ prev[n] \notin Unsettled' => Foremost(n, r)'
             /\ prev[n] \in Unsettled' =>
                  /\ r[prev[n]] < r[n]
                  /\ \A k \in Unsettled' : r[k] <= r[prev[n]] \/ r[n] <= r[k]
  <2>1. CASE prev[n] # m
    BY <1>3, <1>8, <2>1 DEF Chained
  <2>2. CASE prev[n] = m
    <3>1. \A k \in Unsettled : r[k] <= r[m] \/ r[n] <= r[k]
      BY <1>3, <2>2 DEF Chained
    <3>2. \A k \in Unsettled' : r[k] > r[m]
      BY <1>1, <1>3 DEF Chained, Foremost
    <3>3. Foremost(n, r)'
      BY <1>3, <3>1, <3>2 DEF Foremost
    <3> QED
      BY <1>3, <2>2, <3>3 DEF Chained
  <2> QED
    BY <2>1, <2>2
<1>10. \A n \in Heads' : Foremost(n, r)'
  BY <1>3, <1>8 DEF Chained
<1>11. \A i, n \in Unsettled' : r[i] = r[n] => i = n
  BY <1>3 DEF Chained
<1>12. Chained(r)'
  BY <1>1, <1>3, <1>6, <1>7, <1>9, <1>10, <1>11 DEF Chained
<1>13. tail = m => At("queued") = {} /\ At("running") = {}
  BY <1>3, <1>5
<1> QED
  BY <1>3, <1>12, <1>13
-----------------------------------------------------------------------------
(* The invariant, one action after the other. *)

LEMMA EnqueueType ==
  ASSUME TypeOK, NEW m \in Msg, NEW e \in Nat, enqueue(m, e)
  PROVE  /\ tail' \in Msg \cup {None} /\ place' \in [Msg -> Places]
         /\ prev' \in [Msg -> Msg \cup {None}] /\ ticket' \in [Msg -> Nat] /\ thrown' \subseteq Msg
         /\ At("queued")' = At("queued") \cup {m} /\ m \notin At("queued")
         /\ \A n \in Msg : ticket'[n] = IF n = m THEN e ELSE ticket[n]
  BY DEF TypeOK, enqueue, Move, At, Places

LEMMA EnqueueInv == ASSUME QInv, NEW m \in Msg, Enqueue(m) PROVE QInv'
<1> DEFINE Q == At("queued")
<1>1. TypeOK /\ CountExact /\ Slot /\ epoch \in Nat /\ pending \in Nat
  BY DEF QInv, TypeOK
<1>2. PICK r \in [Msg -> Int] : Chained(r) /\ Ordered(r)
  BY DEF QInv
<1>3. PICK s \in [Msg -> Int] :
         /\ \A n \in Msg \ {m} : s[n] = r[n]
         /\ \A n \in Unsettled : s[n] < s[m]
         /\ Chained(s)'
  BY <1>1, <1>2, EnqueueChain DEF Enqueue
<1>4. Waiting' = Waiting \cup {m} /\ m \notin Waiting /\ Waiting \subseteq Unsettled /\ Waiting \subseteq Msg
  BY <1>1, EnqueueType DEF Enqueue, Waiting, Unsettled, At
<1>5. IsFiniteSet(Waiting') /\ Cardinality(Waiting') = Cardinality(Waiting) + 1
  BY <1>1, <1>4, FS_AddElement DEF Slot
<1>6. ahead' \in [Msg -> SUBSET Msg] /\ \A n \in Msg : ahead'[n] = IF n = m THEN Waiting ELSE ahead[n]
  BY <1>1, <1>4 DEF Enqueue, TypeOK
<1>7. TypeOK'
  BY <1>1, <1>6, EnqueueType DEF Enqueue, TypeOK
<1>8. CountExact'
  BY <1>1, <1>5 DEF Enqueue, CountExact
<1>9. Slot'
  <2>1. \A n \in At("queued")' : ticket'[n] <= epoch'
    BY <1>1, EnqueueType DEF Enqueue, Slot, At
  <2>2. \A n \in Msg : ahead'[n] \subseteq Waiting'
    BY <1>1, <1>4, <1>6 DEF Slot
  <2> QED
    BY <1>5, <2>1, <2>2 DEF Slot
<1>10. Ordered(s)'
  <2> SUFFICES ASSUME NEW n \in Waiting' PROVE ahead'[n] = {k \in Waiting' : s[k] < s[n]}
    BY DEF Ordered
  <2>1. CASE n = m
    <3>1. ahead'[n] = Waiting
      BY <1>6, <2>1
    <3>2. \A k \in Waiting : s[k] < s[m]
      BY <1>3, <1>4
    <3>3. ~(s[m] < s[m])
      BY <1>3
    <3> QED
      BY <1>4, <2>1, <3>1, <3>2, <3>3
  <2>2. CASE n # m
    <3>1. n \in Waiting /\ ahead'[n] = {k \in Waiting : r[k] < r[n]}
      BY <1>2, <1>4, <1>6, <2>2 DEF Ordered
    <3>2. \A k \in Waiting : s[k] = r[k]
      BY <1>3, <1>4
    <3>3. s[n] < s[m]
      BY <1>3, <1>4, <3>1
    <3>4. ~(s[m] < s[n])
      BY <1>3, <1>4, <3>1, <3>3
    <3> QED
      BY <1>4, <3>1, <3>2, <3>4
  <2> QED
    BY <2>1, <2>2
<1> QED
  BY <1>3, <1>7, <1>8, <1>9, <1>10 DEF QInv

LEMMA InterruptInv == ASSUME QInv, NEW m \in Msg, Interrupt(m) PROVE QInv'
<1>1. TypeOK /\ Slot /\ epoch \in Nat
  BY DEF QInv, TypeOK
<1>2. PICK r \in [Msg -> Int] : Chained(r)
  BY DEF QInv
<1>3. PICK s \in [Msg -> Int] : Chained(s)'
  BY <1>1, <1>2, EnqueueChain DEF Interrupt
<1>4. Waiting' = {m} /\ epoch' = epoch + 1 /\ \A n \in At("queued") : ticket[n] < epoch'
  BY <1>1, EnqueueType DEF Interrupt, Waiting, Slot, At, TypeOK
<1>5. ahead' \in [Msg -> SUBSET Msg] /\ \A n \in Msg : ahead'[n] = {}
  BY DEF Interrupt, NobodyAhead
<1>6. TypeOK'
  BY <1>1, <1>5, EnqueueType DEF Interrupt, TypeOK
<1>7. IsFiniteSet({m}) /\ Cardinality({m}) = 1
  BY FS_Singleton
<1>8. CountExact'
  BY <1>4, <1>7 DEF Interrupt, CountExact
<1>9. Slot'
  <2>1. \A n \in At("queued")' : ticket'[n] <= epoch'
    BY <1>1, <1>4, EnqueueType DEF Interrupt, At, TypeOK
  <2> QED
    BY <1>4, <1>5, <1>7, <2>1 DEF Slot
<1>10. Ordered(s)'
  <2>1. ~(s[m] < s[m])
    OBVIOUS
  <2> QED
    BY <1>4, <1>5, <2>1 DEF Ordered
<1> QED
  BY <1>3, <1>6, <1>8, <1>9, <1>10 DEF QInv

LEMMA FlushInv == ASSUME QInv, flush PROVE QInv'
<1>1. TypeOK /\ Slot /\ epoch \in Nat /\ epoch' = epoch + 1 /\ UNCHANGED <<tail, place, prev, ticket, thrown>>
  BY DEF QInv, TypeOK, flush
<1>2. PICK r \in [Msg -> Int] : Chained(r)
  BY DEF QInv
<1>3. At("queued")' = At("queued") /\ \A n \in At("queued") : ticket[n] < epoch'
  BY <1>1 DEF Slot, At, TypeOK
<1>4. Waiting' = {}
  BY <1>1, <1>3 DEF Waiting, At, TypeOK
<1>5. Chained(r)'
  BY <1>1, <1>2 DEF Chained, Unsettled, Heads, Foremost, At
<1>6. ahead' \in [Msg -> SUBSET Msg] /\ \A n \in Msg : ahead'[n] = {}
  BY DEF flush, NobodyAhead
<1>7. TypeOK'
  BY <1>1, <1>6 DEF flush, TypeOK
<1>8. CountExact' /\ Slot' /\ Ordered(r)'
  BY <1>1, <1>3, <1>4, <1>6, FS_EmptySet DEF flush, CountExact, Slot, Ordered, At, TypeOK
<1> QED
  BY <1>5, <1>7, <1>8 DEF QInv

(* A callback takes its message out of what waits, or has nothing to take.      *)
LEMMA ClaimWaiting ==
  ASSUME QInv, NEW m \in Msg, claim(m)
  PROVE  /\ Waiting' = Waiting \ {m} /\ (m \in Waiting <=> ticket[m] = epoch)
         /\ At("queued")' = At("queued") \ {m} /\ m \in At("queued")
         /\ \A n \in Msg : ahead'[n] = ahead[n] \ {m}
         /\ \A n \in Msg : ticket'[n] = IF n = m THEN 0 ELSE ticket[n]
         /\ TypeOK' /\ epoch' = epoch
<1>1. TypeOK
  BY DEF QInv
<1>2. /\ \A n \in Msg : place'[n] = IF n = m THEN IF ticket[m] = epoch THEN "running" ELSE "ended" ELSE place[n]
      /\ \A n \in Msg : ticket'[n] = IF n = m THEN 0 ELSE ticket[n]
      /\ place[m] = "queued" /\ epoch' = epoch
  BY <1>1 DEF claim, Move, TypeOK
<1>3. At("queued")' = At("queued") \ {m} /\ m \in At("queued")
  BY <1>2 DEF At
<1>4. Waiting' = Waiting \ {m} /\ (m \in Waiting <=> ticket[m] = epoch)
  BY <1>2, <1>3 DEF Waiting, At
<1>5. ahead' \in [Msg -> SUBSET Msg] /\ \A n \in Msg : ahead'[n] = ahead[n] \ {m}
  BY <1>1 DEF claim, TypeOK
<1>6. pending' \in Nat
  BY <1>1 DEF claim, Count, TypeOK
<1>7. TypeOK'
  BY <1>1, <1>5, <1>6 DEF claim, Move, TypeOK, Places
<1> QED
  BY <1>2, <1>3, <1>4, <1>5, <1>7

LEMMA ClaimInv == ASSUME QInv, NEW m \in Msg, claim(m) PROVE QInv'
<1>1. TypeOK /\ Slot /\ CountExact /\ epoch \in Nat /\ pending \in Nat
  BY DEF QInv, TypeOK
<1>2. PICK r \in [Msg -> Int] : Chained(r) /\ Ordered(r)
  BY DEF QInv
<1>3. Chained(r)' /\ Foremost(m, r) /\ m \in Unsettled
  BY <1>2, ClaimChain
<1>4. Waiting \subseteq Unsettled /\ Unsettled \subseteq Msg
  BY DEF Waiting, Unsettled, At
<1>5. IsFiniteSet(Waiting') /\ CountExact'
  <2>1. CASE m \in Waiting
    <3>1. Cardinality(Waiting) \in Nat /\ Cardinality(Waiting) # 0
      BY <1>1, <2>1, FS_CardinalityType, FS_EmptySet DEF Slot
    <3>2. IsFiniteSet(Waiting') /\ Cardinality(Waiting') = Cardinality(Waiting) - 1
      BY <1>1, <2>1, ClaimWaiting, FS_RemoveElement DEF Slot
    <3>3. pending' = pending - 1
      <4>1. ticket[m] = epoch
        BY <2>1, ClaimWaiting
      <4>2. pending > 0
        BY <1>1, <3>1 DEF CountExact
      <4> QED
        BY <4>1, <4>2 DEF claim, Count
    <3> QED
      BY <1>1, <3>2, <3>3 DEF CountExact
  <2>2. CASE m \notin Waiting
    <3>1. Waiting' = Waiting /\ pending' = pending
      BY <2>2, ClaimWaiting DEF claim, Count
    <3> QED
      BY <1>1, <3>1 DEF CountExact, Slot
  <2> QED
    BY <2>1, <2>2
<1>6. Slot'
  <2>1. \A n \in At("queued")' : ticket'[n] <= epoch'
    BY <1>1, ClaimWaiting DEF Slot, At
  <2>2. \A n \in Msg : ahead'[n] \subseteq Waiting'
    BY <1>1, ClaimWaiting DEF Slot
  <2> QED
    BY <1>5, <2>1, <2>2 DEF Slot
<1>7. Ordered(r)'
  BY <1>2, <1>4, ClaimWaiting DEF Ordered
<1> QED
  BY <1>3, <1>5, <1>6, <1>7, ClaimWaiting DEF QInv

LEMMA FinishInv == ASSUME QInv, NEW m \in Msg, Finish(m) PROVE QInv'
<1>1. TypeOK /\ Slot /\ CountExact /\ UNCHANGED <<slot, tail, prev, ticket, ahead>> /\ place[m] = "running"
  BY DEF QInv, Finish
<1>2. PICK r \in [Msg -> Int] : Chained(r) /\ Ordered(r)
  BY DEF QInv
<1>3. \A n \in Msg : place'[n] = IF n = m THEN "ended" ELSE place[n]
  BY <1>1 DEF Finish, Move, TypeOK
<1>4. At("queued")' = At("queued") /\ At("new")' = At("new") /\ Unsettled' = Unsettled /\ Heads' = Heads
  BY <1>1, <1>3 DEF At, Unsettled, Heads
<1>5. Waiting' = Waiting
  BY <1>1, <1>4 DEF Waiting, slot
<1>6. Chained(r)' /\ Ordered(r)'
  BY <1>1, <1>2, <1>4, <1>5 DEF Chained, Ordered, Foremost
<1>7. TypeOK'
  <2>1. thrown' \subseteq Msg
    BY <1>1 DEF Finish, TypeOK
  <2>2. place' \in [Msg -> Places]
    BY <1>1 DEF Finish, Move, TypeOK, Places
  <2> QED
    BY <1>1, <2>1, <2>2 DEF TypeOK, slot
<1>8. Slot' /\ CountExact'
  BY <1>1, <1>4, <1>5 DEF Slot, CountExact, slot
<1> QED
  BY <1>6, <1>7, <1>8 DEF QInv

(* The slot is forgotten only when nobody holds a ticket any more.              *)
LEMMA SettleWaiting ==
  ASSUME QInv, NEW m \in Msg, Settle(m)
  PROVE  /\ Waiting' = Waiting /\ pending' = pending
         /\ \/ epoch' = epoch
            \/ epoch' = 0 /\ At("queued") = {} /\ At("running") = {}
         /\ UNCHANGED <<prev, ticket, thrown, ahead>>
         /\ At("queued")' = At("queued") /\ At("running")' = At("running")
<1>1. PICK r \in [Msg -> Int] : Chained(r)
  BY DEF QInv
<1>2. /\ At("queued")' = At("queued") /\ At("running")' = At("running")
      /\ tail = m => At("queued") = {} /\ At("running") = {}
  BY <1>1, SettleChain
<1> QED
  BY <1>2 DEF Settle, Forget, slot, Waiting

LEMMA SettleInv == ASSUME QInv, NEW m \in Msg, Settle(m) PROVE QInv'
<1>1. TypeOK /\ Slot /\ CountExact /\ epoch \in Nat
  BY DEF QInv, TypeOK
<1>2. PICK r \in [Msg -> Int] : Chained(r) /\ Ordered(r)
  BY DEF QInv
<1>3. Chained(r)'
  BY <1>2, SettleChain
<1>4. Ordered(r)'
  BY <1>2, SettleWaiting DEF Ordered
<1>5. Slot' /\ CountExact'
  BY <1>1, SettleWaiting DEF Slot, CountExact
<1>6. TypeOK'
  <2>1. tail' \in Msg \cup {None}
    BY <1>1 DEF Settle, Forget, TypeOK
  <2>2. place' \in [Msg -> Places]
    BY <1>1 DEF Settle, Move, TypeOK, Places
  <2> QED
    BY <1>1, <2>1, <2>2, SettleWaiting DEF TypeOK
<1> QED
  BY <1>3, <1>4, <1>5, <1>6 DEF QInv

LEMMA StepInv == QInv /\ [Next]_queue => QInv'
<1> SUFFICES ASSUME QInv, [Next]_queue PROVE QInv'
  OBVIOUS
<1>1. CASE flush
  BY <1>1, FlushInv
<1>2. ASSUME NEW m \in Msg, Step(m) PROVE QInv'
  BY <1>2, EnqueueInv, InterruptInv, ClaimInv, FinishInv, SettleInv DEF Step
<1>3. CASE UNCHANGED queue
  BY <1>3 DEF queue, slot, QInv, TypeOK, CountExact, Slot, Chained, Ordered, Foremost, Unsettled,
              Heads, Waiting, At
<1> QED
  BY <1>1, <1>2, <1>3 DEF Next

(* The chain and the slot are in order in every reachable state.                *)
THEOREM QueueInvariance == Spec => []QInv
  BY InitInv, StepInv, PTL DEF Spec

(* /stop drops exactly as many messages as it says.                             *)
THEOREM QueueCountExact == Spec => []CountExact
<1>1. QInv => CountExact
  BY DEF QInv
<1> QED
  BY QueueInvariance, <1>1, PTL
-----------------------------------------------------------------------------
(* The queue implements the mailbox. *)

(* The chain lets one message be at work at a time.                             *)
LEMMA OneRunning ==
  ASSUME QInv
  PROVE  \A m, n \in Msg : place[m] = "running" /\ place[n] = "running" => m = n
<1>1. PICK r \in [Msg -> Int] : Chained(r)
  BY DEF QInv
<1> QED
  BY <1>1 DEF Chained, Foremost, Heads, Unsettled, At

LEMMA RunningIs ==
  ASSUME QInv
  PROVE  /\ \A m \in Msg : place[m] = "running" <=> Running = m
         /\ Running = None <=> At("running") = {}
<1>1. CASE At("running") = {}
  BY <1>1 DEF Running, At
<1>2. CASE At("running") # {}
  <2>1. PICK m \in Msg : place[m] = "running"
    BY <1>2 DEF At
  <2>2. Running \in Msg /\ place[Running] = "running"
    BY <1>2, <2>1 DEF Running
  <2> QED
    BY <1>2, <2>2, OneRunning
<1> QED
  BY <1>1, <1>2

(* What is running is told by the set At("running").                            *)
LEMMA SameRunning ==
  ASSUME QInv, QInv', At("running")' = At("running")
  PROVE  Running' = Running
<1>1. CASE At("running") = {}
  BY <1>1, RunningIs DEF Running
<1>2. CASE At("running") # {}
  <2>1. PICK m \in Msg : m \in At("running")
    BY <1>2 DEF At
  <2>2. place[m] = "running" /\ place'[m] = "running"
    BY <2>1 DEF At
  <2>3. Running = m
    BY <2>2, RunningIs
  <2>4. Running' = m
    <3>1. At("running")' # {} /\ \A n \in Msg : place'[n] = "running" => n = m
      <4>1. \A n \in Msg : place[n] = "running" => n = m
        BY <2>2, OneRunning
      <4> QED
        BY <2>1, <4>1 DEF At
    <3> QED
      BY <2>2, <3>1 DEF Running
  <2> QED
    BY <2>3, <2>4
<1> QED
  BY <1>1, <1>2
Over == At("ended") \cup At("settled") \cup Superseded

LEMMA EnqueuePuts == ASSUME QInv, QInv', NEW m \in Msg, Enqueue(m) PROVE Box!Put(m)
<1>1. TypeOK /\ place[m] = "new" /\ m # None
  BY DEF QInv, Enqueue, enqueue
<1>2. \A n \in Msg : place'[n] = IF n = m THEN "queued" ELSE place[n]
  BY <1>1 DEF Enqueue, enqueue, Move, TypeOK
<1>3. \A n \in Msg : ticket'[n] = IF n = m THEN epoch ELSE ticket[n]
  BY <1>1 DEF Enqueue, enqueue, TypeOK
<1>4. /\ At("running")' = At("running") /\ At("ended")' = At("ended") /\ At("settled")' = At("settled")
      /\ At("queued")' = At("queued") \cup {m} /\ m \notin At("queued")
  BY <1>1, <1>2 DEF At
<1>5. Waiting' = Waiting \cup {m} /\ Superseded' = Superseded
  BY <1>1, <1>3, <1>4 DEF Waiting, Superseded, Enqueue, At
<1>6. m \notin Waiting \cup Over \cup {Running}
  BY <1>1, RunningIs DEF Waiting, Over, Superseded, At
<1>7. Running' = Running
  BY <1>4, SameRunning
<1>8. Over' = Over
  BY <1>4, <1>5 DEF Over
<1> QED
  BY <1>5, <1>6, <1>7, <1>8 DEF Box!Put, Box!Fresh, Over, Enqueue

LEMMA InterruptReplaces == ASSUME QInv, QInv', NEW m \in Msg, Interrupt(m) PROVE Box!Replace(m)
<1>1. TypeOK /\ Slot /\ place[m] = "new" /\ m # None /\ epoch' = epoch + 1 /\ epoch \in Nat
  BY DEF QInv, Interrupt, enqueue, TypeOK
<1>2. \A n \in Msg : place'[n] = IF n = m THEN "queued" ELSE place[n]
  BY <1>1 DEF Interrupt, enqueue, Move, TypeOK
<1>3. \A n \in Msg : ticket'[n] = IF n = m THEN epoch' ELSE ticket[n]
  BY <1>1 DEF Interrupt, enqueue, TypeOK
<1>4. /\ At("running")' = At("running") /\ At("ended")' = At("ended") /\ At("settled")' = At("settled")
      /\ At("queued")' = At("queued") \cup {m} /\ m \notin At("queued")
  BY <1>1, <1>2 DEF At
<1>5. \A n \in At("queued") : ticket[n] \in Nat /\ ticket[n] <= epoch
  BY <1>1 DEF Slot, At, TypeOK
<1>6. \A n \in At("queued") : n # m /\ n \in Msg /\ ticket'[n] # epoch'
  BY <1>1, <1>3, <1>4, <1>5 DEF At
<1>7. ticket'[m] = epoch'
  BY <1>3
<1>8. Waiting' = {m} /\ Superseded' = At("queued")
  BY <1>4, <1>6, <1>7 DEF Waiting, Superseded
<1>9. At("queued") = Waiting \cup Superseded
  BY DEF Waiting, Superseded
<1>10. m \notin Waiting \cup Over \cup {Running}
  BY <1>1, RunningIs DEF Waiting, Over, Superseded, At
<1>11. Running' = Running
  BY <1>4, SameRunning
<1>12. Over' = Over \cup Waiting
  BY <1>4, <1>8, <1>9 DEF Over
<1> QED
  BY <1>8, <1>10, <1>11, <1>12 DEF Box!Replace, Box!Fresh, Over, Interrupt, NobodyAhead

LEMMA FlushEmpties == ASSUME QInv, QInv', flush PROVE Box!Empty
<1>1. TypeOK /\ Slot /\ epoch' = epoch + 1 /\ epoch \in Nat /\ place' = place /\ ticket' = ticket
  BY DEF QInv, flush, TypeOK
<1>2. /\ At("running")' = At("running") /\ At("ended")' = At("ended") /\ At("settled")' = At("settled")
      /\ At("queued")' = At("queued")
  BY <1>1 DEF At
<1>3. \A n \in At("queued") : ticket[n] \in Nat /\ ticket[n] <= epoch
  BY <1>1 DEF Slot, At, TypeOK
<1>4. \A n \in At("queued") : ticket'[n] # epoch'
  BY <1>1, <1>3
<1>5. Waiting' = {} /\ Superseded' = At("queued")
  BY <1>2, <1>4 DEF Waiting, Superseded
<1>6. At("queued") = Waiting \cup Superseded
  BY DEF Waiting, Superseded
<1>7. Over' = Over \cup Waiting
  BY <1>2, <1>5, <1>6 DEF Over
<1>8. Running' = Running
  BY <1>2, SameRunning
<1> QED
  BY <1>5, <1>7, <1>8 DEF Box!Empty, Over, flush, NobodyAhead

(* A callback takes its message if nobody gave it up, and nothing otherwise.    *)
LEMMA ClaimTakes ==
  ASSUME QInv, QInv', NEW m \in Msg, claim(m)
  PROVE  Box!Take(m) \/ UNCHANGED <<Waiting, ahead, Running, Over>>
<1>1. TypeOK /\ Slot /\ place[m] = "queued" /\ m # None /\ epoch' = epoch
  BY DEF QInv, claim
<1>2. \A n \in Msg : place'[n] = IF n = m THEN IF ticket[m] = epoch THEN "running" ELSE "ended" ELSE place[n]
  BY <1>1 DEF claim, Move, TypeOK
<1>3. \A n \in Msg : ticket'[n] = IF n = m THEN 0 ELSE ticket[n]
  BY <1>1 DEF claim, TypeOK
<1>4. ahead' = [n \in Msg |-> ahead[n] \ {m}]
  BY DEF claim
<1>5. PICK r \in [Msg -> Int] : Chained(r) /\ Ordered(r)
  BY DEF QInv
<1>6. CASE ticket[m] = epoch
  <2>1. /\ At("running")' = At("running") \cup {m} /\ At("ended")' = At("ended")
        /\ At("settled")' = At("settled") /\ At("queued")' = At("queued") \ {m} /\ m \in At("queued")
    BY <1>1, <1>2, <1>6 DEF At
  <2>2. Waiting' = Waiting \ {m} /\ m \in Waiting /\ Superseded' = Superseded
    BY <1>1, <1>3, <1>6, <2>1 DEF Waiting, Superseded, At
  <2>3. Foremost(m, r) /\ m \in Unsettled
    BY <1>5, ClaimChain
  <2>4. Running = None
    <3>1. ASSUME NEW n \in Msg, place[n] = "running" PROVE FALSE
      <4>1. n \in Unsettled /\ Foremost(n, r) /\ n # m
        BY <1>1, <1>5, <3>1 DEF Chained, Heads, Unsettled, At
      <4>2. r[n] <= r[m] /\ r[m] <= r[n]
        BY <2>3, <4>1 DEF Foremost
      <4> QED
        BY <1>5, <2>3, <4>1, <4>2 DEF Chained
    <3> QED
      BY <3>1, RunningIs DEF At
  <2>5. Running' = m
    <3>1. At("running") = {}
      BY <2>4, RunningIs
    <3>2. \A n \in Msg : place'[n] = "running" <=> n = m
      BY <1>1, <1>2, <1>6, <3>1 DEF At
    <3> QED
      BY <2>1, <3>2 DEF Running
  <2>6. ahead[m] = {}
    <3>1. \A k \in Waiting : k \in Unsettled /\ r[m] <= r[k] /\ k \in Msg
      BY <2>3 DEF Foremost, Waiting, Unsettled, At
    <3>2. ahead[m] = {k \in Waiting : r[k] < r[m]}
      BY <1>5, <2>2 DEF Ordered
    <3> QED
      BY <3>1, <3>2
  <2>7. Over' = Over
    BY <2>1, <2>2 DEF Over
  <2> QED
    BY <1>4, <2>2, <2>4, <2>5, <2>6, <2>7 DEF Box!Take, Over
<1>7. CASE ticket[m] # epoch
  <2>1. /\ At("running")' = At("running") /\ At("ended")' = At("ended") \cup {m}
        /\ At("settled")' = At("settled") /\ At("queued")' = At("queued") \ {m} /\ m \in At("queued")
    BY <1>1, <1>2, <1>7 DEF At
  <2>2. Waiting' = Waiting /\ m \notin Waiting /\ Superseded' = Superseded \ {m} /\ m \in Superseded
    BY <1>1, <1>3, <1>7, <2>1 DEF Waiting, Superseded, At
  <2>3. ahead' = ahead
    <3>1. \A n \in Msg : ahead[n] \ {m} = ahead[n]
      BY <1>1, <2>2 DEF Slot
    <3> QED
      BY <1>1, <1>4, <3>1 DEF TypeOK
  <2>4. Over' = Over
    BY <2>1, <2>2 DEF Over
  <2>5. Running' = Running
    BY <2>1, SameRunning
  <2> QED
    BY <2>2, <2>3, <2>4, <2>5
<1> QED
  BY <1>6, <1>7

LEMMA FinishIsDone == ASSUME QInv, QInv', NEW m \in Msg, Finish(m) PROVE Box!Done(m)
<1>1. TypeOK /\ UNCHANGED <<slot, tail, prev, ticket, ahead>> /\ place[m] = "running"
  BY DEF QInv, Finish
<1>2. \A n \in Msg : place'[n] = IF n = m THEN "ended" ELSE place[n]
  BY <1>1 DEF Finish, Move, TypeOK
<1>3. /\ At("running")' = At("running") \ {m} /\ At("ended")' = At("ended") \cup {m}
      /\ At("settled")' = At("settled") /\ At("queued")' = At("queued")
  BY <1>1, <1>2 DEF At
<1>4. Waiting' = Waiting /\ Superseded' = Superseded
  BY <1>1, <1>3 DEF Waiting, Superseded, slot
<1>5. Running = m /\ Running' = None
  <2>1. At("running")' = {}
    BY <1>1, <1>3, OneRunning DEF At
  <2> QED
    BY <1>1, <2>1, RunningIs DEF Running
<1>6. Over' = Over \cup {m}
  BY <1>3, <1>4 DEF Over
<1> QED
  BY <1>1, <1>4, <1>5, <1>6 DEF Box!Done, Over

LEMMA SettleStutters ==
  ASSUME QInv, QInv', NEW m \in Msg, Settle(m)
  PROVE  UNCHANGED <<Waiting, ahead, Running, Over>>
<1>1. TypeOK /\ place[m] = "ended"
  BY DEF QInv, Settle
<1>2. \A n \in Msg : place'[n] = IF n = m THEN "settled" ELSE place[n]
  BY <1>1 DEF Settle, Move, TypeOK
<1>3. At("ended")' \cup At("settled")' = At("ended") \cup At("settled")
  BY <1>1, <1>2 DEF At
<1>4. Superseded' = Superseded
  BY SettleWaiting DEF Superseded
<1>5. Over' = Over
  BY <1>3, <1>4 DEF Over
<1>6. Running' = Running
  BY SettleWaiting, SameRunning
<1> QED
  BY <1>5, <1>6, SettleWaiting

LEMMA StartsEmpty == Init => Box!Init
<1> SUFFICES ASSUME Init PROVE Box!Init
  OBVIOUS
<1>1. Waiting = {} /\ Over = {} /\ Running = None
  BY DEF Init, Waiting, Over, Superseded, Running, At
<1> QED
  BY <1>1 DEF Init, Box!Init, Over

LEMMA StepRefines == QInv /\ QInv' /\ [Next]_queue => [Box!Next]_Box!mailbox
<1> SUFFICES ASSUME QInv, QInv', [Next]_queue PROVE [Box!Next]_Box!mailbox
  OBVIOUS
<1>1. CASE flush
  BY <1>1, FlushEmpties DEF Box!Next
<1>2. ASSUME NEW m \in Msg, Step(m) PROVE [Box!Next]_Box!mailbox
  <2>1. CASE Enqueue(m)
    BY <2>1, EnqueuePuts DEF Box!Next
  <2>2. CASE Interrupt(m)
    BY <2>2, InterruptReplaces DEF Box!Next
  <2>3. CASE claim(m)
    BY <2>3, ClaimTakes DEF Box!Next, Box!mailbox, Over
  <2>4. CASE Finish(m)
    BY <2>4, FinishIsDone DEF Box!Next
  <2>5. CASE Settle(m)
    BY <2>5, SettleStutters DEF Box!mailbox, Over
  <2> QED
    BY <1>2, <2>1, <2>2, <2>3, <2>4, <2>5 DEF Step
<1>3. CASE UNCHANGED queue
  BY <1>3 DEF queue, slot, Box!mailbox, Waiting, Running, Superseded, At
<1> QED
  BY <1>1, <1>2, <1>3 DEF Next

(* The promise chain and its epochs promise what a mailbox does: one message at *)
(* a time, in order, and none that was given up.                                *)
THEOREM ImplementsMailbox == Spec => Implements
  BY QueueInvariance, StartsEmpty, StepRefines, PTL DEF Spec, Implements, Box!Spec
-----------------------------------------------------------------------------
(* Nobody waits on everybody: what a queue owes those who wait, apart from time. *)

Going(m) == place[m] \in {"running", "ended"} \/ (place[m] = "queued" /\ Ready(m))

(* Whoever is not the tail has somebody chained onto it, and the chain has a    *)
(* beginning at which it goes on.                                               *)
Linked == \A k \in Unsettled \ {tail} : \E n \in At("queued") : prev[n] = k
GoesOn == Unsettled # {} => \E m \in Msg : Going(m)

LEMMA EnqueueGoesOn ==
  ASSUME QInv, Linked, GoesOn, NEW m \in Msg, NEW e \in Nat, enqueue(m, e) PROVE Linked' /\ GoesOn'
<1>1. /\ \A n \in Msg : place'[n] = IF n = m THEN "queued" ELSE place[n]
      /\ \A n \in Msg : prev'[n] = IF n = m THEN tail ELSE prev[n]
      /\ place[m] = "new" /\ tail' = m
  BY DEF QInv, TypeOK, enqueue, Move
<1>2. /\ Unsettled' = Unsettled \cup {m} /\ At("queued")' = At("queued") \cup {m} /\ At("settled")' = At("settled")
      /\ m \notin At("queued") /\ m \notin Unsettled
  BY <1>1 DEF Unsettled, At
<1>3. Linked'
  <2> SUFFICES ASSUME NEW k \in Unsettled PROVE \E n \in At("queued")' : prev'[n] = k
    BY <1>1, <1>2 DEF Linked
  <2>1. CASE k = tail
    BY <1>1, <1>2, <2>1
  <2>2. CASE k # tail
    <3>1. PICK n \in At("queued") : prev[n] = k
      BY <2>2 DEF Linked
    <3>2. n \in At("queued")' /\ prev'[n] = k
      BY <1>1, <1>2, <3>1 DEF At
    <3> QED BY <3>2
  <2> QED BY <2>1, <2>2
<1>4. CASE Unsettled = {}
  <2>1. tail = None
    BY <1>4 DEF QInv, Chained
  <2>2. Going(m)'
    BY <1>1, <2>1 DEF Going, Ready
  <2> QED BY <1>3, <2>2 DEF GoesOn
<1>5. CASE Unsettled # {}
  <2>1. PICK f \in Msg : Going(f)
    BY <1>5 DEF GoesOn
  <2>2. Going(f)'
    BY <1>1, <1>2, <2>1 DEF Going, Ready
  <2> QED BY <1>3, <2>2 DEF GoesOn
<1> QED
  BY <1>4, <1>5

LEMMA ClaimGoesOn == ASSUME QInv, Linked, GoesOn, NEW m \in Msg, claim(m) PROVE Linked' /\ GoesOn'
<1>1. /\ \A n \in Msg : place'[n] = IF n = m THEN place'[m] ELSE place[n]
      /\ \A n \in Msg : prev'[n] = IF n = m THEN None ELSE prev[n]
      /\ place[m] = "queued" /\ place'[m] \in {"running", "ended"} /\ tail' = tail /\ Ready(m)
  BY DEF QInv, TypeOK, claim, Move
<1>2. /\ Unsettled' = Unsettled /\ At("queued")' = At("queued") \ {m}
  BY <1>1 DEF Unsettled, At
<1>3. prev[m] \notin Unsettled
  <2>1. \A n \in Unsettled : n \in Msg /\ place[n] # "settled"
    BY DEF Unsettled, At
  <2> QED BY <1>1, <2>1 DEF Ready, At
<1>4. Linked'
  <2> SUFFICES ASSUME NEW k \in Unsettled, k # tail PROVE \E n \in At("queued")' : prev'[n] = k
    BY <1>1, <1>2 DEF Linked
  <2>1. PICK n \in At("queued") : prev[n] = k
    BY DEF Linked
  <2>2. n # m /\ n \in Msg
    BY <1>3, <2>1 DEF At
  <2> QED BY <1>1, <1>2, <2>1, <2>2
<1>5. Going(m)'
  BY <1>1 DEF Going
<1> QED
  BY <1>4, <1>5 DEF GoesOn

LEMMA FinishGoesOn == ASSUME QInv, Linked, GoesOn, NEW m \in Msg, Finish(m) PROVE Linked' /\ GoesOn'
<1>1. /\ \A n \in Msg : place'[n] = IF n = m THEN "ended" ELSE place[n]
      /\ place[m] = "running" /\ UNCHANGED <<tail, prev>>
  BY DEF QInv, TypeOK, Finish, Move
<1>2. /\ Unsettled' = Unsettled /\ At("queued")' = At("queued")
  BY <1>1 DEF Unsettled, At
<1>3. Going(m)'
  BY <1>1 DEF Going
<1> QED
  BY <1>1, <1>2, <1>3 DEF Linked, GoesOn

LEMMA SettleGoesOn == ASSUME QInv, Linked, GoesOn, NEW m \in Msg, Settle(m) PROVE Linked' /\ GoesOn'
<1>1. /\ \A n \in Msg : place'[n] = IF n = m THEN "settled" ELSE place[n]
      /\ place[m] = "ended" /\ prev' = prev /\ tail' = IF tail = m THEN None ELSE tail
  BY DEF QInv, TypeOK, Settle, Move, Forget
<1>2. /\ Unsettled' = Unsettled \ {m} /\ At("queued")' = At("queued") /\ m \in Unsettled /\ m \in Heads
      /\ m \notin At("queued")
  BY <1>1 DEF Unsettled, At, Heads
<1>3. CASE tail = m
  <2>1. \A k \in Unsettled : k = m
    <3>1. PICK r \in [Msg -> Int] : Chained(r)
      BY DEF QInv
    <3> QED BY <1>2, <1>3, <3>1 DEF Chained, Foremost, Unsettled, At
  <2> QED BY <1>2, <2>1 DEF Linked, GoesOn
<1>4. CASE tail # m
  <2>1. Linked'
    BY <1>1, <1>2, <1>4 DEF Linked
  <2>2. PICK n \in At("queued") : prev[n] = m
    BY <1>2, <1>4 DEF Linked
  <2>3. Going(n)' /\ n \in Msg
    BY <1>1, <1>2, <2>2 DEF Going, Ready, At
  <2> QED BY <2>1, <2>3 DEF GoesOn
<1> QED
  BY <1>3, <1>4

LEMMA StepGoesOn == QInv /\ Linked /\ GoesOn /\ [Next]_queue => Linked' /\ GoesOn'
<1> SUFFICES ASSUME QInv, Linked, GoesOn, [Next]_queue PROVE Linked' /\ GoesOn'
  OBVIOUS
<1>1. CASE flush \/ UNCHANGED queue
  <2>1. UNCHANGED <<place, prev, tail>>
    BY <1>1 DEF flush, queue
  <2> QED BY <2>1 DEF Linked, GoesOn, Going, Ready, Unsettled, At
<1>2. ASSUME NEW m \in Msg, Enqueue(m) \/ Interrupt(m) PROVE Linked' /\ GoesOn'
  <2>1. epoch \in Nat
    BY DEF QInv, TypeOK
  <2> QED BY <1>2, <2>1, EnqueueGoesOn DEF Enqueue, Interrupt
<1> QED
  BY <1>1, <1>2, ClaimGoesOn, FinishGoesOn, SettleGoesOn DEF Next, Step

(* The queue is never wedged, whoever throws or was superseded: as long as a    *)
(* message is not settled, a handler is at work, one has ended, or there is one *)
(* whose predecessor is settled.                                                *)
THEOREM NeverWedged == Spec => []GoesOn
<1>1. Init => Linked /\ GoesOn
  BY DEF Init, Linked, GoesOn, Unsettled, At
<1> QED
  BY <1>1, QueueInvariance, StepGoesOn, PTL DEF Spec
=============================================================================
