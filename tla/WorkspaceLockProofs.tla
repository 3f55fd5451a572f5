-------------------------- MODULE WorkspaceLockProofs --------------------------
(* Proofs about WorkspaceLock, for every set of turns and processes and every  *)
(* choice of the times that satisfies TurnsEnd (and, for the last theorem,     *)
(* Memory).                                                                    *)
EXTENDS WorkspaceLock, TLAPS

(* No healthy turn outlives what the registry and the lock believe in. *)
TurnsEnd == Longest <= MaxLifetime /\ Longest <= MaxAge

(* The registry forgets a turn only when no claim of it is young any more, and *)
(* a dead process is never taken for a live one.                               *)
Memory == HasProbe /\ Longest + MaxAge <= Retention

-----------------------------------------------------------------------------
(* A claim that is good is found good by whoever took its clock before.        *)

LEMMA GoodHeld ==
  ASSUME TurnsEnd, TypeOK, RunningYoung, Good(lock),
         NEW n \in 0..MaxNow, n <= now
  PROVE  isHeld(lock, n)
<1> USE TimesAssumption, AgeAssumption, CallersAssumption, NoClaimAssumption
<1>1. lock \in Claims /\ withinMaxAge(lock, n)
  BY DEF TypeOK, RegistryTypeOK, Good, Parsed, Claims, withinMaxAge
<1>2. CASE lock.turn = Hand
  BY <1>1, <1>2 DEF isHeld, Good
<1>3. CASE lock.turn \in Turn /\ run[lock.turn] = "running"
  <2>1. ~NoFile(lock.turn) => isRunning(lock.turn, n)
    BY <1>3 DEF TypeOK, RegistryTypeOK, RunningYoung, isRunning, isSameProcess, NoFile, TurnsEnd
  <2> QED
    BY <2>1, <1>1 DEF isHeld, Good, turnOver, recent
<1> QED
  BY <1>1, <1>2, <1>3 DEF Good, Claims

(* What a turn was told makes its claim good. *)
LEMMA ToldGood ==
  ASSUME TurnsEnd, IInv, NEW t \in told
  PROVE  Good(lock) /\ lock.turn = t /\ t # Hand
<1> USE TimesAssumption, AgeAssumption, CallersAssumption, NoClaimAssumption
<1>1. Parsed(lock) /\ lock.turn = t /\ t # Hand /\ run[t] = "running" /\ t \in Turn
  BY DEF IInv, ClaimStands, ToldRun, TypeOK
<1>2. stamp[t] <= lock.at /\ now - stamp[t] <= Longest
  BY <1>1 DEF IInv, ClaimTimely, During, RunningYoung
<1>3. lock.at \in Nat /\ now \in Nat /\ stamp[t] \in Nat
  BY <1>1 DEF IInv, TypeOK, RegistryTypeOK, Parsed, Claims
<1>4. now - lock.at <= MaxAge
  BY <1>2, <1>3 DEF TurnsEnd
<1> QED
  BY <1>1, <1>4 DEF Good, withinMaxAge

(* Reading the registry does not make a running turn's file disappear. *)
LEMMA ReadKeeps ==
  ASSUME TurnsEnd, RegistryTypeOK, RunningYoung, NEW n \in 0..MaxNow, n <= now,
         readRegistry(n)
  PROVE  /\ RegistryTypeOK' /\ RunningYoung'
         /\ \A t \in Turn : entry'[t] \in {entry[t], "deleted"}
<1> USE TimesAssumption
<1>1. ASSUME NEW t \in Turn, run[t] = "running", entry[t] = "open"
      PROVE  isRunning(t, n)
  BY <1>1 DEF RegistryTypeOK, RunningYoung, isRunning, isSameProcess, TurnsEnd
<1>2. \A t \in Turn : run[t] = "running" => entry'[t] = entry[t]
  BY <1>1 DEF readRegistry, isExpired, RegistryTypeOK, RunningYoung, NoFile
<1>3. RegistryTypeOK'
  BY DEF readRegistry, RegistryTypeOK, Entries
<1>4. \A t \in Turn : entry'[t] \in {entry[t], "deleted"}
  BY DEF readRegistry
<1> QED
  BY <1>2, <1>3, <1>4 DEF RunningYoung, readRegistry

(* So does judging a claim, which may read the registry. *)
LEMMA ConsultKeeps ==
  ASSUME TurnsEnd, RegistryTypeOK, RunningYoung, NEW l, NEW n \in 0..MaxNow, n <= now,
         Consult(l, n)
  PROVE  /\ RegistryTypeOK' /\ RunningYoung'
         /\ now' = now /\ run' = run /\ stamp' = stamp
         /\ \A t \in Turn : entry'[t] \in {entry[t], "deleted"}
<1>1. CASE readRegistry(n)
  BY <1>1, ReadKeeps DEF readRegistry
<1>2. CASE UNCHANGED registry
  BY <1>2 DEF registry, RegistryTypeOK, RunningYoung
<1> QED
  BY <1>1, <1>2 DEF Consult
-----------------------------------------------------------------------------
(* Every step keeps the invariant: the commands, one action each ... *)
LEMMA StartKeeps ==
  ASSUME TurnsEnd, IInv, NEW p \in Proc, Start(p)
  PROVE  IInv'
<1> USE TimesAssumption, AgeAssumption, CallersAssumption, NoClaimAssumption
<1> USE DEF IInv
<1>1. /\ RegistryTypeOK' /\ RunningYoung'
      /\ now' = now /\ run' = run /\ stamp' = stamp
      /\ \A t \in Turn : entry'[t] \in {entry[t], "deleted"}
  BY DEF TypeOK, Start, registry, RegistryTypeOK, RunningYoung
<1>d. \A t \in Turn, n \in Int : During(t, n) => During(t, n)'
  BY <1>1 DEF During
<1>2. lock' = lock /\ (Good(lock)' <=> Good(lock))
  BY <1>1 DEF Start, Good, Parsed, withinMaxAge
<1>3. TypeOK'
  BY <1>1 DEF Start, Goto, TypeOK, RegistryTypeOK, PC, Calls, Ops, Guarded, NoCall, Claims
<1>4. OneInside'
  BY DEF Start, Goto, OneInside, TypeOK
<1>5. CallsTimely'
  <2> PICK op \in Ops, t \in Turn \cup {Hand} :
         /\ t \in Turn => run[t] = "running"
         /\ call' = [call EXCEPT ![p] =
                       [op |-> op, turn |-> t,
                        at |-> IF op \in {"acquire", "look"} THEN now ELSE 0]]
    BY DEF Start
  <2>1. \A q \in Proc : q # p => call'[q] = call[q]
    BY DEF TypeOK
  <2>2. /\ call'[p].op = op /\ call'[p].turn = t
        /\ call'[p].at = IF op = "acquire" \/ op = "look" THEN now ELSE 0
    BY DEF TypeOK
  <2>3. now \in Nat
    BY DEF TypeOK, RegistryTypeOK
  <2>4. call'[p].at <= now
    BY <2>2, <2>3
  <2>5. op = "acquire" /\ t # Hand => During(t, call'[p].at)
    BY <2>2, <2>3 DEF RunningYoung, During
  <2>6. call' \in [Proc -> Calls]
    BY <1>3 DEF TypeOK
  <2>7. \A q \in Proc : call'[q].at \in Int /\ call'[q].turn \in Turn \cup {Hand}
    BY <2>6 DEF Calls
  <2>8. ASSUME NEW q \in Proc, call'[q].op = "acquire", call'[q].turn # Hand
        PROVE  During(call'[q].turn, call'[q].at)
    BY <2>1, <2>2, <2>5, <2>8 DEF CallsTimely
  <2>9. ASSUME NEW q \in Proc, (call[q].op = "acquire" /\ call[q].turn # Hand)'
        PROVE  During(call[q].turn, call[q].at)'
    <3>1. PICK u \in Turn, n \in Int : u = call'[q].turn /\ n = call'[q].at
      BY <2>7, <2>9
    <3>2. During(u, n)'
      BY <1>d, <2>8, <2>9, <3>1
    <3> QED
      BY <3>1, <3>2 DEF During
  <2> QED
    BY <1>1, <2>1, <2>4, <2>9 DEF CallsTimely
<1>6. ClaimTimely'
  BY <1>1, <1>d, <1>2 DEF ClaimTimely, Parsed, TypeOK, Claims
<1>7. ToldRun'
  BY <1>1 DEF Start, ToldRun
<1>8. Found'
  BY <1>1, <1>2 DEF Start, Goto, Found, Mine, Parsed, OneInside, TypeOK, RegistryTypeOK, PC, Calls, Ops, Guarded, NoCall, Claims
<1>9. ClaimStands'
  BY <1>1, <1>2 DEF Start, ClaimStands, Parsed
<1> QED
  BY <1>1, <1>3, <1>4, <1>5, <1>6, <1>7, <1>8, <1>9

LEMMA PeekKeeps ==
  ASSUME TurnsEnd, IInv, NEW p \in Proc, Peek(p)
  PROVE  IInv'
<1> USE TimesAssumption, AgeAssumption, CallersAssumption, NoClaimAssumption
<1> USE DEF IInv
<1>1. /\ RegistryTypeOK' /\ RunningYoung'
      /\ now' = now /\ run' = run /\ stamp' = stamp
      /\ \A t \in Turn : entry'[t] \in {entry[t], "deleted"}
  BY DEF TypeOK, Peek, registry, RegistryTypeOK, RunningYoung
<1>d. \A t \in Turn, n \in Int : During(t, n) => During(t, n)'
  BY <1>1 DEF During
<1>2. lock' = lock /\ (Good(lock)' <=> Good(lock))
  BY <1>1 DEF Peek, Good, Parsed, withinMaxAge
<1>3. TypeOK'
  <2>1. CASE Read(p, "judge") /\ UNCHANGED inside
    BY <1>1, <1>2, <2>1 DEF Peek, Read, Goto, TypeOK, PC, Guarded
  <2>2. CASE End(p)
    BY <1>1, <2>2 DEF Peek, End, Goto, TypeOK, RegistryTypeOK, PC, Calls, Ops, Guarded, NoCall, Claims
  <2> QED
    BY <2>1, <2>2 DEF Peek
<1>4. OneInside'
  BY DEF Peek, Read, End, Goto, OneInside, TypeOK
<1>5. CallsTimely'
  <2>1. \A q \in Proc : call'[q] \in {call[q], NoCall}
    BY DEF Peek, Read, End, Goto, TypeOK
  <2>2. now \in Nat
    BY DEF TypeOK, RegistryTypeOK
  <2> QED
    BY <1>1, <1>d, <2>1, <2>2 DEF CallsTimely, NoCall, TypeOK, Calls
<1>6. ClaimTimely'
  BY <1>1, <1>d, <1>2 DEF ClaimTimely, Parsed, TypeOK, Claims
<1>7. ToldRun'
  BY <1>1 DEF Peek, ToldRun
<1>8. Found'
  BY <1>1, <1>2 DEF Peek, Read, End, Goto, Found, Mine, Parsed, OneInside, TypeOK, RegistryTypeOK, PC, Calls, Ops, Guarded, NoCall, Claims
<1>9. ClaimStands'
  BY <1>1, <1>2 DEF Peek, ClaimStands, Parsed
<1> QED
  BY <1>1, <1>3, <1>4, <1>5, <1>6, <1>7, <1>8, <1>9

LEMMA JudgeKeeps ==
  ASSUME TurnsEnd, IInv, NEW p \in Proc, Judge(p)
  PROVE  IInv'
<1> USE TimesAssumption, AgeAssumption, CallersAssumption, NoClaimAssumption
<1> USE DEF IInv
<1>1. /\ RegistryTypeOK' /\ RunningYoung'
      /\ now' = now /\ run' = run /\ stamp' = stamp
      /\ \A t \in Turn : entry'[t] \in {entry[t], "deleted"}
  <2>1. call[p].at \in 0..MaxNow /\ call[p].at <= now
    BY DEF TypeOK, Calls, CallsTimely
  <2>2. Consult(seen[p], call[p].at)
    BY DEF Judge
  <2> QED
    BY <2>1, <2>2, ConsultKeeps DEF TypeOK
<1>d. \A t \in Turn, n \in Int : During(t, n) => During(t, n)'
  BY <1>1 DEF During
<1>2. lock' = lock /\ (Good(lock)' <=> Good(lock))
  BY <1>1 DEF Judge, Good, Parsed, withinMaxAge
<1>3. TypeOK'
  <2>1. CASE End(p)
    BY <1>1, <1>2, <2>1 DEF Judge, End, Goto, TypeOK, RegistryTypeOK, PC, Calls, Ops, Guarded, NoCall, Claims
  <2>2. CASE Carry(p, "queue")
    BY <1>1, <1>2, <2>2 DEF Judge, Carry, Goto, TypeOK, RegistryTypeOK, PC, Calls, Ops, Guarded, NoCall, Claims
  <2> QED
    BY <2>1, <2>2 DEF Judge
<1>4. OneInside'
  BY DEF Judge, End, Carry, Goto, OneInside, TypeOK
<1>5. CallsTimely'
  <2>1. \A q \in Proc : call'[q] \in {call[q], NoCall}
    BY DEF Judge, End, Carry, Goto, TypeOK
  <2>2. now \in Nat
    BY DEF TypeOK, RegistryTypeOK
  <2> QED
    BY <1>1, <1>d, <2>1, <2>2 DEF CallsTimely, NoCall, TypeOK, Calls
<1>6. ClaimTimely'
  BY <1>1, <1>d, <1>2 DEF ClaimTimely, Parsed, TypeOK, Claims
<1>7. ToldRun'
  BY <1>1 DEF Judge, ToldRun
<1>8. Found'
  BY <1>1, <1>2 DEF Judge, End, Carry, Goto, Found, Mine, Parsed, OneInside, TypeOK, RegistryTypeOK, PC, Calls, Ops, Guarded, NoCall, Claims
<1>9. ClaimStands'
  BY <1>1, <1>2 DEF Judge, ClaimStands, Parsed
<1> QED
  BY <1>1, <1>3, <1>4, <1>5, <1>6, <1>7, <1>8, <1>9

LEMMA EnterKeeps ==
  ASSUME TurnsEnd, IInv, NEW p \in Proc, Enter(p)
  PROVE  IInv'
<1> USE TimesAssumption, AgeAssumption, CallersAssumption, NoClaimAssumption
<1> USE DEF IInv
<1>1. /\ RegistryTypeOK' /\ RunningYoung'
      /\ now' = now /\ run' = run /\ stamp' = stamp
      /\ \A t \in Turn : entry'[t] \in {entry[t], "deleted"}
  BY DEF TypeOK, Enter, registry, RegistryTypeOK, RunningYoung
<1>d. \A t \in Turn, n \in Int : During(t, n) => During(t, n)'
  BY <1>1 DEF During
<1>2. lock' = lock /\ (Good(lock)' <=> Good(lock))
  BY <1>1 DEF Enter, Good, Parsed, withinMaxAge
<1>3. TypeOK'
  BY <1>1 DEF Enter, Guard!Enter, Carry, Goto, TypeOK, RegistryTypeOK, PC, Calls, Ops, Guarded, NoCall, Claims
<1>4. OneInside'
  BY DEF Enter, Guard!Enter, Carry, Goto, OneInside, TypeOK
<1>5. CallsTimely'
  <2>1. \A q \in Proc : call'[q] \in {call[q], NoCall}
    BY DEF Enter, Guard!Enter, Carry, Goto, TypeOK
  <2>2. now \in Nat
    BY DEF TypeOK, RegistryTypeOK
  <2> QED
    BY <1>1, <1>d, <2>1, <2>2 DEF CallsTimely, NoCall, TypeOK, Calls
<1>6. ClaimTimely'
  BY <1>1, <1>d, <1>2 DEF ClaimTimely, Parsed, TypeOK, Claims
<1>7. ToldRun'
  BY <1>1 DEF Enter, ToldRun
<1>8. Found'
  BY <1>1, <1>2 DEF Enter, Guard!Enter, Carry, Goto, Found, Mine, Parsed, OneInside, TypeOK, RegistryTypeOK, PC, Calls, Ops, Guarded, NoCall, Claims
<1>9. ClaimStands'
  BY <1>1, <1>2 DEF Enter, ClaimStands, Parsed
<1> QED
  BY <1>1, <1>3, <1>4, <1>5, <1>6, <1>7, <1>8, <1>9

LEMMA NoGuardKeeps ==
  ASSUME TurnsEnd, IInv, NEW p \in Proc, NoGuard(p)
  PROVE  IInv'
<1> USE TimesAssumption, AgeAssumption, CallersAssumption, NoClaimAssumption
<1> USE DEF IInv
<1>1. /\ RegistryTypeOK' /\ RunningYoung'
      /\ now' = now /\ run' = run /\ stamp' = stamp
      /\ \A t \in Turn : entry'[t] \in {entry[t], "deleted"}
  BY DEF TypeOK, NoGuard, registry, RegistryTypeOK, RunningYoung
<1>d. \A t \in Turn, n \in Int : During(t, n) => During(t, n)'
  BY <1>1 DEF During
<1>2. lock' = lock /\ (Good(lock)' <=> Good(lock))
  BY <1>1 DEF NoGuard, Good, Parsed, withinMaxAge
<1>3. TypeOK'
  BY <1>1 DEF NoGuard, End, Goto, TypeOK, RegistryTypeOK, PC, Calls, Ops, Guarded, NoCall, Claims
<1>4. OneInside'
  BY DEF NoGuard, End, Goto, OneInside, TypeOK
<1>5. CallsTimely'
  <2>1. \A q \in Proc : call'[q] \in {call[q], NoCall}
    BY DEF NoGuard, End, Goto, TypeOK
  <2>2. now \in Nat
    BY DEF TypeOK, RegistryTypeOK
  <2> QED
    BY <1>1, <1>d, <2>1, <2>2 DEF CallsTimely, NoCall, TypeOK, Calls
<1>6. ClaimTimely'
  BY <1>1, <1>d, <1>2 DEF ClaimTimely, Parsed, TypeOK, Claims
<1>7. ToldRun'
  BY <1>1 DEF NoGuard, ToldRun
<1>8. Found'
  BY <1>1, <1>2 DEF NoGuard, End, Goto, Found, Mine, Parsed, OneInside, TypeOK, RegistryTypeOK, PC, Calls, Ops, Guarded, NoCall, Claims
<1>9. ClaimStands'
  BY <1>1, <1>2 DEF NoGuard, ClaimStands, Parsed
<1> QED
  BY <1>1, <1>3, <1>4, <1>5, <1>6, <1>7, <1>8, <1>9

LEMMA ReadToAcquireKeeps ==
  ASSUME TurnsEnd, IInv, NEW p \in Proc, ReadToAcquire(p)
  PROVE  IInv'
<1> USE TimesAssumption, AgeAssumption, CallersAssumption, NoClaimAssumption
<1> USE DEF IInv
<1>1. /\ RegistryTypeOK' /\ RunningYoung'
      /\ now' = now /\ run' = run /\ stamp' = stamp
      /\ \A t \in Turn : entry'[t] \in {entry[t], "deleted"}
  BY DEF TypeOK, ReadToAcquire, registry, RegistryTypeOK, RunningYoung
<1>d. \A t \in Turn, n \in Int : During(t, n) => During(t, n)'
  BY <1>1 DEF During
<1>2. lock' = lock /\ (Good(lock)' <=> Good(lock))
  BY <1>1 DEF ReadToAcquire, Good, Parsed, withinMaxAge
<1>3. TypeOK'
  BY <1>1 DEF ReadToAcquire, Read, Goto, TypeOK, RegistryTypeOK, PC, Calls, Ops, Guarded, NoCall, Claims
<1>4. OneInside'
  BY DEF ReadToAcquire, Read, Goto, OneInside, TypeOK
<1>5. CallsTimely'
  <2>1. \A q \in Proc : call'[q] \in {call[q], NoCall}
    BY DEF ReadToAcquire, Read, Goto, TypeOK
  <2>2. now \in Nat
    BY DEF TypeOK, RegistryTypeOK
  <2> QED
    BY <1>1, <1>d, <2>1, <2>2 DEF CallsTimely, NoCall, TypeOK, Calls
<1>6. ClaimTimely'
  BY <1>1, <1>d, <1>2 DEF ClaimTimely, Parsed, TypeOK, Claims
<1>7. ToldRun'
  BY <1>1 DEF ReadToAcquire, ToldRun
<1>8. Found'
  <2>1. \A q \in Proc : q # p => pc'[q] = pc[q] /\ seen'[q] = seen[q] /\ call'[q] = call[q]
    BY DEF ReadToAcquire, Read, Goto, TypeOK
  <2>2. Good(lock) => Parsed(lock)
    BY DEF Good
  <2>3. /\ pc'[p] = IF Parsed(lock) THEN "weigh" ELSE "write"
        /\ seen'[p] = lock /\ call'[p].op = "acquire"
    BY DEF ReadToAcquire, Read, Goto, TypeOK
  <2>4. pc'[p] = "weigh" => Parsed(lock)'
    BY <1>2, <2>3 DEF Parsed
  <2> QED
    BY <1>1, <1>2, <2>1, <2>2, <2>3, <2>4 DEF Found, Mine, Parsed
<1>9. ClaimStands'
  BY <1>1, <1>2 DEF ReadToAcquire, ClaimStands, Parsed
<1> QED
  BY <1>1, <1>3, <1>4, <1>5, <1>6, <1>7, <1>8, <1>9

LEMMA WeighToAcquireKeeps ==
  ASSUME TurnsEnd, IInv, NEW p \in Proc, WeighToAcquire(p)
  PROVE  IInv'
<1> USE TimesAssumption, AgeAssumption, CallersAssumption, NoClaimAssumption
<1> USE DEF IInv
<1>1. /\ RegistryTypeOK' /\ RunningYoung'
      /\ now' = now /\ run' = run /\ stamp' = stamp
      /\ \A t \in Turn : entry'[t] \in {entry[t], "deleted"}
  <2>1. call[p].at \in 0..MaxNow /\ call[p].at <= now
    BY DEF TypeOK, Calls, CallsTimely
  <2>2. Consult(seen[p], call[p].at)
    BY DEF WeighToAcquire
  <2> QED
    BY <2>1, <2>2, ConsultKeeps DEF TypeOK
<1>d. \A t \in Turn, n \in Int : During(t, n) => During(t, n)'
  BY <1>1 DEF During
<1>2. lock' = lock /\ (Good(lock)' <=> Good(lock))
  BY <1>1 DEF WeighToAcquire, Good, Parsed, withinMaxAge
<1>3. TypeOK'
  <2>1. CASE Return(p)
    BY <1>1, <2>1 DEF WeighToAcquire, Return, Leave, End, Goto, TypeOK, RegistryTypeOK, PC, Calls, Ops, Guarded, NoCall, Claims
  <2>2. CASE Stay(p, "write")
    BY <1>1, <2>2 DEF WeighToAcquire, Stay, Carry, Goto, TypeOK, RegistryTypeOK, PC, Calls, Ops, Guarded, NoCall, Claims
  <2> QED
    BY <2>1, <2>2 DEF WeighToAcquire
<1>4. OneInside'
  BY DEF WeighToAcquire, Return, Leave, End, Stay, Carry, Goto, OneInside, TypeOK
<1>5. CallsTimely'
  <2>1. \A q \in Proc : call'[q] \in {call[q], NoCall}
    BY DEF WeighToAcquire, Return, Leave, End, Stay, Carry, Goto, TypeOK
  <2>2. now \in Nat
    BY DEF TypeOK, RegistryTypeOK
  <2> QED
    BY <1>1, <1>d, <2>1, <2>2 DEF CallsTimely, NoCall, TypeOK, Calls
<1>6. ClaimTimely'
  BY <1>1, <1>d, <1>2 DEF ClaimTimely, Parsed, TypeOK, Claims
<1>7. ToldRun'
  BY <1>1 DEF WeighToAcquire, ToldRun
<1>8. Found'
  <2>1. \A q \in Proc : q # p => pc'[q] = pc[q] /\ seen'[q] = seen[q] /\ call'[q] = call[q]
    BY DEF WeighToAcquire, Return, End, Stay, Carry, Goto, TypeOK
  <2>2. seen[p] = lock /\ call[p].at \in 0..MaxNow /\ call[p].at <= now
    BY DEF WeighToAcquire, Found, CallsTimely, TypeOK, Calls
  <2>3. Good(lock) => isHeld(lock, call[p].at)
    BY <2>2, GoodHeld
  <2>4. CASE Return(p)
    <3>1. pc'[p] = "idle"
      BY <2>4 DEF Return, End, Goto, TypeOK
    <3> QED
      BY <1>1, <1>2, <2>1, <3>1 DEF Found, Mine, Parsed
  <2>5. CASE Stay(p, "write") /\ (isHeld(lock, call[p].at) => Mine(p))
    <3>1. pc'[p] = "write" /\ call' = call
      BY <2>5 DEF Stay, Carry, Goto, TypeOK
    <3> QED
      BY <1>1, <1>2, <2>1, <2>2, <2>3, <2>5, <3>1 DEF WeighToAcquire, Found, Mine, Parsed
  <2> QED
    BY <2>2, <2>4, <2>5 DEF WeighToAcquire, Mine
<1>9. ClaimStands'
  BY <1>1, <1>2 DEF WeighToAcquire, ClaimStands, Parsed
<1> QED
  BY <1>1, <1>3, <1>4, <1>5, <1>6, <1>7, <1>8, <1>9

LEMMA WriteKeeps ==
  ASSUME TurnsEnd, IInv, NEW p \in Proc, Write(p)
  PROVE  IInv'
<1> USE TimesAssumption, AgeAssumption, CallersAssumption, NoClaimAssumption
<1> USE DEF IInv
<1>1. /\ RegistryTypeOK' /\ RunningYoung'
      /\ now' = now /\ run' = run /\ stamp' = stamp
      /\ \A t \in Turn : entry'[t] \in {entry[t], "deleted"}
  BY DEF TypeOK, Write, registry, RegistryTypeOK, RunningYoung
<1>d. \A t \in Turn, n \in Int : During(t, n) => During(t, n)'
  BY <1>1 DEF During
<1>3. TypeOK'
  BY <1>1 DEF Write, Return, Leave, End, Goto, TypeOK, RegistryTypeOK, PC, Calls, Ops, Guarded, NoCall, Claims
<1>4. OneInside'
  BY DEF Write, Return, Leave, End, Goto, OneInside, TypeOK
<1>5. CallsTimely'
  <2>1. \A q \in Proc : call'[q] \in {call[q], NoCall}
    BY DEF Write, Return, Leave, End, Goto, TypeOK
  <2>2. now \in Nat
    BY DEF TypeOK, RegistryTypeOK
  <2> QED
    BY <1>1, <1>d, <2>1, <2>2 DEF CallsTimely, NoCall, TypeOK, Calls
<1>6. ClaimTimely'
  <2>1. call[p].op = "acquire" /\ call[p] \in Calls
    BY DEF Write, Found, TypeOK
  <2>2. lock' = [turn |-> call[p].turn, at |-> call[p].at]
    BY DEF Write
  <2>3. call[p].turn # Hand => During(call[p].turn, call[p].at)
    BY <2>1 DEF CallsTimely
  <2>4. lock'.at <= now'
    BY <1>1, <2>2 DEF CallsTimely
  <2>5. ASSUME (lock.turn # Hand)'
        PROVE  During(lock.turn, lock.at)'
    <3>1. PICK u \in Turn, n \in Int : u = lock'.turn /\ n = lock'.at /\ During(u, n)
      BY <2>1, <2>2, <2>3, <2>5 DEF Calls
    <3>2. During(u, n)'
      BY <1>d, <3>1
    <3> QED
      BY <3>1, <3>2 DEF During
  <2> QED
    BY <2>4, <2>5 DEF ClaimTimely
<1>7. ToldRun'
  BY <1>1 DEF Write, ToldRun
<1>8. Found'
  BY <1>1 DEF Write, Return, Leave, End, Goto, Found, Mine, Parsed, OneInside, TypeOK, RegistryTypeOK, PC, Calls, Ops, Guarded, NoCall, Claims
<1>9. ClaimStands'
  <2>1. call[p].op = "acquire" /\ call[p] \in Calls /\ (Good(lock) => Mine(p))
    BY DEF Write, Found, TypeOK
  <2>2. \A t \in told : t = call[p].turn
    BY <2>1, ToldGood DEF Mine
  <2>3. lock' = [turn |-> call[p].turn, at |-> call[p].at]
    BY DEF Write
  <2>4. lock' \in Claims
    BY <2>1, <2>3 DEF Calls, Claims
  <2> QED
    BY <2>2, <2>3, <2>4 DEF Write, ClaimStands, Parsed
<1> QED
  BY <1>1, <1>3, <1>4, <1>5, <1>6, <1>7, <1>8, <1>9

LEMMA ReadToReleaseKeeps ==
  ASSUME TurnsEnd, IInv, NEW p \in Proc, ReadToRelease(p)
  PROVE  IInv'
<1> USE TimesAssumption, AgeAssumption, CallersAssumption, NoClaimAssumption
<1> USE DEF IInv
<1>1. /\ RegistryTypeOK' /\ RunningYoung'
      /\ now' = now /\ run' = run /\ stamp' = stamp
      /\ \A t \in Turn : entry'[t] \in {entry[t], "deleted"}
  BY DEF TypeOK, ReadToRelease, registry, RegistryTypeOK, RunningYoung
<1>d. \A t \in Turn, n \in Int : During(t, n) => During(t, n)'
  BY <1>1 DEF During
<1>2. lock' = lock /\ (Good(lock)' <=> Good(lock))
  BY <1>1 DEF ReadToRelease, Good, Parsed, withinMaxAge
<1>3. TypeOK'
  <2>1. CASE Return(p)
    BY <1>1, <2>1 DEF ReadToRelease, Return, Leave, End, Goto, TypeOK, RegistryTypeOK, PC, Calls, Ops, Guarded, NoCall, Claims
  <2>2. CASE Stay(p, "unlink")
    BY <1>1, <2>2 DEF ReadToRelease, Stay, Carry, Goto, TypeOK, RegistryTypeOK, PC, Calls, Ops, Guarded, NoCall, Claims
  <2> QED
    BY <2>1, <2>2 DEF ReadToRelease
<1>4. OneInside'
  BY DEF ReadToRelease, Owner, Return, Leave, End, Stay, Carry, Goto, OneInside, TypeOK
<1>5. CallsTimely'
  <2>1. \A q \in Proc : call'[q] \in {call[q], NoCall}
    BY DEF ReadToRelease, Owner, Return, Leave, End, Stay, Carry, Goto, TypeOK
  <2>2. now \in Nat
    BY DEF TypeOK, RegistryTypeOK
  <2> QED
    BY <1>1, <1>d, <2>1, <2>2 DEF CallsTimely, NoCall, TypeOK, Calls
<1>6. ClaimTimely'
  BY <1>1, <1>d, <1>2 DEF ClaimTimely, Parsed, TypeOK, Claims
<1>7. ToldRun'
  BY <1>1 DEF ReadToRelease, ToldRun
<1>8. Found'
  BY <1>1, <1>2 DEF ReadToRelease, Owner, Return, Leave, End, Stay, Carry, Goto, Found, Mine, Parsed, OneInside, TypeOK, RegistryTypeOK, PC, Calls, Ops, Guarded, NoCall, Claims
<1>9. ClaimStands'
  BY <1>1, <1>2 DEF ReadToRelease, ClaimStands, Parsed
<1> QED
  BY <1>1, <1>3, <1>4, <1>5, <1>6, <1>7, <1>8, <1>9

LEMMA ReadToPruneKeeps ==
  ASSUME TurnsEnd, IInv, NEW p \in Proc, ReadToPrune(p)
  PROVE  IInv'
<1> USE TimesAssumption, AgeAssumption, CallersAssumption, NoClaimAssumption
<1> USE DEF IInv
<1>1. /\ RegistryTypeOK' /\ RunningYoung'
      /\ now' = now /\ run' = run /\ stamp' = stamp
      /\ \A t \in Turn : entry'[t] \in {entry[t], "deleted"}
  BY DEF TypeOK, ReadToPrune, registry, RegistryTypeOK, RunningYoung
<1>d. \A t \in Turn, n \in Int : During(t, n) => During(t, n)'
  BY <1>1 DEF During
<1>2. lock' = lock /\ (Good(lock)' <=> Good(lock))
  BY <1>1 DEF ReadToPrune, Good, Parsed, withinMaxAge
<1>3. TypeOK'
  <2>1. CASE Return(p)
    BY <1>1, <2>1 DEF ReadToPrune, Return, Leave, End, Goto, TypeOK, RegistryTypeOK, PC, Calls, Ops, Guarded, NoCall, Claims
  <2>2. CASE Stay(p, "weigh")
    BY <1>1, <2>2 DEF ReadToPrune, Stay, Carry, Goto, TypeOK, RegistryTypeOK, PC, Calls, Ops, Guarded, NoCall, Claims
  <2> QED
    BY <2>1, <2>2 DEF ReadToPrune
<1>4. OneInside'
  BY DEF ReadToPrune, Return, Leave, End, Stay, Carry, Goto, OneInside, TypeOK
<1>5. CallsTimely'
  <2>1. \A q \in Proc : call'[q] \in {call[q], NoCall}
    BY DEF ReadToPrune, Return, Leave, End, Stay, Carry, Goto, TypeOK
  <2>2. now \in Nat
    BY DEF TypeOK, RegistryTypeOK
  <2> QED
    BY <1>1, <1>d, <2>1, <2>2 DEF CallsTimely, NoCall, TypeOK, Calls
<1>6. ClaimTimely'
  BY <1>1, <1>d, <1>2 DEF ClaimTimely, Parsed, TypeOK, Claims
<1>7. ToldRun'
  BY <1>1 DEF ReadToPrune, ToldRun
<1>8. Found'
  BY <1>1, <1>2 DEF ReadToPrune, Return, Leave, End, Stay, Carry, Goto, Found, Mine, Parsed, OneInside, TypeOK, RegistryTypeOK, PC, Calls, Ops, Guarded, NoCall, Claims
<1>9. ClaimStands'
  BY <1>1, <1>2 DEF ReadToPrune, ClaimStands, Parsed
<1> QED
  BY <1>1, <1>3, <1>4, <1>5, <1>6, <1>7, <1>8, <1>9

LEMMA WeighToPruneKeeps ==
  ASSUME TurnsEnd, IInv, NEW p \in Proc, WeighToPrune(p)
  PROVE  IInv'
<1> USE TimesAssumption, AgeAssumption, CallersAssumption, NoClaimAssumption
<1> USE DEF IInv
<1>1. /\ RegistryTypeOK' /\ RunningYoung'
      /\ now' = now /\ run' = run /\ stamp' = stamp
      /\ \A t \in Turn : entry'[t] \in {entry[t], "deleted"}
  <2>1. call[p].at \in 0..MaxNow /\ call[p].at <= now
    BY DEF TypeOK, Calls, CallsTimely
  <2>2. Consult(seen[p], call[p].at)
    BY DEF WeighToPrune
  <2> QED
    BY <2>1, <2>2, ConsultKeeps DEF TypeOK
<1>d. \A t \in Turn, n \in Int : During(t, n) => During(t, n)'
  BY <1>1 DEF During
<1>2. lock' = lock /\ (Good(lock)' <=> Good(lock))
  BY <1>1 DEF WeighToPrune, Good, Parsed, withinMaxAge
<1>3. TypeOK'
  <2>1. CASE Return(p)
    BY <1>1, <2>1 DEF WeighToPrune, Return, Leave, End, Goto, TypeOK, RegistryTypeOK, PC, Calls, Ops, Guarded, NoCall, Claims
  <2>2. CASE Stay(p, "unlink")
    BY <1>1, <2>2 DEF WeighToPrune, Stay, Carry, Goto, TypeOK, RegistryTypeOK, PC, Calls, Ops, Guarded, NoCall, Claims
  <2> QED
    BY <2>1, <2>2 DEF WeighToPrune
<1>4. OneInside'
  BY DEF WeighToPrune, Return, Leave, End, Stay, Carry, Goto, OneInside, TypeOK
<1>5. CallsTimely'
  <2>1. \A q \in Proc : call'[q] \in {call[q], NoCall}
    BY DEF WeighToPrune, Return, Leave, End, Stay, Carry, Goto, TypeOK
  <2>2. now \in Nat
    BY DEF TypeOK, RegistryTypeOK
  <2> QED
    BY <1>1, <1>d, <2>1, <2>2 DEF CallsTimely, NoCall, TypeOK, Calls
<1>6. ClaimTimely'
  BY <1>1, <1>d, <1>2 DEF ClaimTimely, Parsed, TypeOK, Claims
<1>7. ToldRun'
  BY <1>1 DEF WeighToPrune, ToldRun
<1>8. Found'
  <2>1. \A q \in Proc : q # p => pc'[q] = pc[q] /\ seen'[q] = seen[q] /\ call'[q] = call[q]
    BY DEF WeighToPrune, Return, End, Stay, Carry, Goto, TypeOK
  <2>2. seen[p] = lock /\ call[p].at \in 0..MaxNow /\ call[p].at <= now
    BY DEF WeighToPrune, Found, CallsTimely, TypeOK, Calls
  <2>3. Good(lock) => isHeld(lock, call[p].at)
    BY <2>2, GoodHeld
  <2>4. CASE Return(p)
    <3>1. pc'[p] = "idle"
      BY <2>4 DEF Return, End, Goto, TypeOK
    <3> QED
      BY <1>1, <1>2, <2>1, <3>1 DEF Found, Mine, Parsed
  <2>5. CASE Stay(p, "unlink") /\ ~isHeld(lock, call[p].at)
    <3>1. pc'[p] = "unlink" /\ call' = call
      BY <2>5 DEF Stay, Carry, Goto, TypeOK
    <3> QED
      BY <1>1, <1>2, <2>1, <2>2, <2>3, <2>5, <3>1 DEF WeighToPrune, Found, Mine, Parsed
  <2> QED
    BY <2>2, <2>4, <2>5 DEF WeighToPrune, Mine
<1>9. ClaimStands'
  BY <1>1, <1>2 DEF WeighToPrune, ClaimStands, Parsed
<1> QED
  BY <1>1, <1>3, <1>4, <1>5, <1>6, <1>7, <1>8, <1>9

LEMMA UnlinkKeeps ==
  ASSUME TurnsEnd, IInv, NEW p \in Proc, Unlink(p)
  PROVE  IInv'
<1> USE TimesAssumption, AgeAssumption, CallersAssumption, NoClaimAssumption
<1> USE DEF IInv
<1>1. /\ RegistryTypeOK' /\ RunningYoung'
      /\ now' = now /\ run' = run /\ stamp' = stamp
      /\ \A t \in Turn : entry'[t] \in {entry[t], "deleted"}
  BY DEF TypeOK, Unlink, registry, RegistryTypeOK, RunningYoung
<1>d. \A t \in Turn, n \in Int : During(t, n) => During(t, n)'
  BY <1>1 DEF During
<1>3. TypeOK'
  BY <1>1 DEF Unlink, Return, Leave, End, Goto, TypeOK, RegistryTypeOK, PC, Calls, Ops, Guarded, NoCall, Claims
<1>4. OneInside'
  BY DEF Unlink, Return, Leave, End, Goto, OneInside, TypeOK
<1>5. CallsTimely'
  <2>1. \A q \in Proc : call'[q] \in {call[q], NoCall}
    BY DEF Unlink, Return, Leave, End, Goto, TypeOK
  <2>2. now \in Nat
    BY DEF TypeOK, RegistryTypeOK
  <2> QED
    BY <1>1, <1>d, <2>1, <2>2 DEF CallsTimely, NoCall, TypeOK, Calls
<1>6. ClaimTimely'
  BY <1>1, <1>d DEF Unlink, Return, Leave, End, Goto, ClaimTimely, Parsed, TypeOK, Claims
<1>7. ToldRun'
  BY <1>1 DEF Unlink, ToldRun
<1>8. Found'
  BY <1>1 DEF Unlink, Return, Leave, End, Goto, Found, Mine, Parsed, OneInside, TypeOK, RegistryTypeOK, PC, Calls, Ops, Guarded, NoCall, Claims
<1>9. ClaimStands'
  <2>1. call[p].op \in {"release", "force", "look"} /\ pc[p] = "unlink"
    BY DEF Unlink, Found, TypeOK, Calls, Ops
  <2>2. CASE call[p].op = "release"
    BY <2>1, <2>2, ToldGood DEF Unlink, Found, ClaimStands
  <2>3. CASE call[p].op = "force"
    BY <2>3 DEF Unlink, ClaimStands
  <2>4. CASE call[p].op = "look"
    BY <2>1, <2>4, ToldGood DEF Unlink, Found, ClaimStands
  <2> QED
    BY <2>1, <2>2, <2>3, <2>4
<1> QED
  BY <1>1, <1>3, <1>4, <1>5, <1>6, <1>7, <1>8, <1>9

LEMMA ChangeFailsKeeps ==
  ASSUME TurnsEnd, IInv, NEW p \in Proc, ChangeFails(p)
  PROVE  IInv'
<1> USE TimesAssumption, AgeAssumption, CallersAssumption, NoClaimAssumption
<1> USE DEF IInv
<1>1. /\ RegistryTypeOK' /\ RunningYoung'
      /\ now' = now /\ run' = run /\ stamp' = stamp
      /\ \A t \in Turn : entry'[t] \in {entry[t], "deleted"}
  BY DEF TypeOK, ChangeFails, registry, RegistryTypeOK, RunningYoung
<1>d. \A t \in Turn, n \in Int : During(t, n) => During(t, n)'
  BY <1>1 DEF During
<1>2. lock' = lock /\ (Good(lock)' <=> Good(lock))
  BY <1>1 DEF ChangeFails, Good, Parsed, withinMaxAge
<1>3. TypeOK'
  BY <1>1 DEF ChangeFails, Return, Leave, End, Goto, TypeOK, RegistryTypeOK, PC, Calls, Ops, Guarded, NoCall, Claims
<1>4. OneInside'
  BY DEF ChangeFails, Return, Leave, End, Goto, OneInside, TypeOK
<1>5. CallsTimely'
  <2>1. \A q \in Proc : call'[q] \in {call[q], NoCall}
    BY DEF ChangeFails, Return, Leave, End, Goto, TypeOK
  <2>2. now \in Nat
    BY DEF TypeOK, RegistryTypeOK
  <2> QED
    BY <1>1, <1>d, <2>1, <2>2 DEF CallsTimely, NoCall, TypeOK, Calls
<1>6. ClaimTimely'
  BY <1>1, <1>d, <1>2 DEF ClaimTimely, Parsed, TypeOK, Claims
<1>7. ToldRun'
  BY <1>1 DEF ChangeFails, ToldRun
<1>8. Found'
  BY <1>1, <1>2 DEF ChangeFails, Return, Leave, End, Goto, Found, Mine, Parsed, OneInside, TypeOK, RegistryTypeOK, PC, Calls, Ops, Guarded, NoCall, Claims
<1>9. ClaimStands'
  BY <1>1, <1>2 DEF ChangeFails, ClaimStands, Parsed
<1> QED
  BY <1>1, <1>3, <1>4, <1>5, <1>6, <1>7, <1>8, <1>9

LEMMA DieKeeps ==
  ASSUME TurnsEnd, IInv, NEW p \in Proc, Die(p)
  PROVE  IInv'
<1> USE TimesAssumption, AgeAssumption, CallersAssumption, NoClaimAssumption
<1> USE DEF IInv
<1>1. /\ RegistryTypeOK' /\ RunningYoung'
      /\ now' = now /\ run' = run /\ stamp' = stamp
      /\ \A t \in Turn : entry'[t] \in {entry[t], "deleted"}
  BY DEF TypeOK, Die, registry, RegistryTypeOK, RunningYoung
<1>d. \A t \in Turn, n \in Int : During(t, n) => During(t, n)'
  BY <1>1 DEF During
<1>2. lock' = lock /\ (Good(lock)' <=> Good(lock))
  BY <1>1 DEF Die, Good, Parsed, withinMaxAge
<1>3. TypeOK'
  BY <1>1 DEF Die, Return, Leave, End, Goto, TypeOK, RegistryTypeOK, PC, Calls, Ops, Guarded, NoCall, Claims
<1>4. OneInside'
  BY DEF Die, Return, Leave, End, Goto, OneInside, TypeOK
<1>5. CallsTimely'
  <2>1. \A q \in Proc : call'[q] \in {call[q], NoCall}
    BY DEF Die, Return, Leave, End, Goto, TypeOK
  <2>2. now \in Nat
    BY DEF TypeOK, RegistryTypeOK
  <2> QED
    BY <1>1, <1>d, <2>1, <2>2 DEF CallsTimely, NoCall, TypeOK, Calls
<1>6. ClaimTimely'
  BY <1>1, <1>d, <1>2 DEF ClaimTimely, Parsed, TypeOK, Claims
<1>7. ToldRun'
  BY <1>1 DEF Die, ToldRun
<1>8. Found'
  BY <1>1, <1>2 DEF Die, Return, Leave, End, Goto, Found, Mine, Parsed, OneInside, TypeOK, RegistryTypeOK, PC, Calls, Ops, Guarded, NoCall, Claims
<1>9. ClaimStands'
  BY <1>1, <1>2 DEF Die, ClaimStands, Parsed
<1> QED
  BY <1>1, <1>3, <1>4, <1>5, <1>6, <1>7, <1>8, <1>9

(* ... and the registry and the turns. *)
LEMMA TurnsKeep ==
  ASSUME TurnsEnd, IInv, Turns
  PROVE  IInv'
<1> USE TimesAssumption, AgeAssumption, CallersAssumption, NoClaimAssumption
<1> USE DEF IInv
<1>1. lock' = lock /\ inside' = inside /\ pc' = pc /\ call' = call /\ seen' = seen
  BY DEF Turns
<1> DEFINE Ages ==
      /\ RegistryTypeOK' /\ RunningYoung' /\ now <= now'
      /\ \A t \in Turn, n \in Int : n <= now /\ During(t, n) => During(t, n)'
      /\ \A t \in Turn : run[t] # "new" /\ run'[t] = "running" => run[t] = "running"
<1>2. Ages
  <2> USE DEF TypeOK, RegistryTypeOK, Runs, Entries, RunningYoung, During
  <2>1. ASSUME NEW t \in Turn, registerTurn(t)
        PROVE  Ages
    BY <2>1 DEF registerTurn, Becomes, File
  <2>2. ASSUME NEW t \in Turn, release(t)
        PROVE  Ages
    BY <2>2 DEF release, Becomes, File
  <2>3. ASSUME NEW t \in Turn, Leak(t)
        PROVE  Ages
    BY <2>3 DEF Leak, Becomes
  <2>4. ASSUME NEW t \in Turn, Kill(t)
        PROVE  Ages
    BY <2>4 DEF Kill, Becomes
  <2>5. ASSUME NEW t \in Turn, Reuse(t)
        PROVE  Ages
    BY <2>5 DEF Reuse, Becomes
  <2>6. CASE Sibling
    BY <2>6, ReadKeeps DEF Sibling, readRegistry
  <2>7. CASE Tick
    BY <2>7 DEF Tick
  <2> QED
    BY <2>1, <2>2, <2>3, <2>4, <2>5, <2>6, <2>7 DEF Turns, RegistryNext
<1>3. now \in Nat /\ now' \in Nat
  BY <1>2 DEF TypeOK, RegistryTypeOK
<1>4. Good(lock)' => Good(lock)
  <2>1. SUFFICES ASSUME Good(lock)'
                 PROVE  Good(lock)
    OBVIOUS
  <2>2. Parsed(lock) /\ lock \in Claims
    BY <1>1, <2>1 DEF Good, Parsed, TypeOK
  <2>3. withinMaxAge(lock, now)
    BY <1>1, <1>2, <1>3, <2>1, <2>2 DEF Good, withinMaxAge, Claims
  <2>4. lock.turn = Hand \/ run[lock.turn] = "running"
    BY <1>1, <1>2, <2>1, <2>2 DEF Good, ClaimTimely, During, Claims
  <2> QED
    BY <2>2, <2>3, <2>4 DEF Good
<1>5. TypeOK'
  BY <1>1, <1>2 DEF Turns, TypeOK
<1>6. OneInside'
  BY <1>1 DEF OneInside
<1>7. CallsTimely'
  <2> SUFFICES ASSUME NEW p \in Proc
               PROVE  /\ call[p].at <= now'
                      /\ call[p].op = "acquire" /\ call[p].turn # Hand
                           => During(call[p].turn, call[p].at)'
    BY <1>1 DEF CallsTimely
  <2>1. call[p].at \in Nat /\ call[p].at <= now /\ call[p].turn \in Turn \cup {Hand}
    BY DEF CallsTimely, TypeOK, Calls
  <2>2. call[p].at <= now'
    BY <1>2, <1>3, <2>1
  <2>3. ASSUME call[p].op = "acquire", call[p].turn # Hand
        PROVE  During(call[p].turn, call[p].at)'
    <3>1. PICK u \in Turn, n \in Int : u = call[p].turn /\ n = call[p].at
      BY <2>1, <2>3
    <3>2. During(u, n)'
      BY <1>2, <2>1, <2>3, <3>1 DEF CallsTimely
    <3> QED
      BY <1>1, <3>1, <3>2 DEF During
  <2> QED
    BY <2>2, <2>3
<1>8. ClaimTimely'
  <2>1. CASE ~Parsed(lock)
    BY <1>1, <2>1 DEF ClaimTimely, Parsed
  <2>2. CASE Parsed(lock)
    <3>1. /\ lock.at \in Nat /\ lock.at <= now
          /\ lock.turn # Hand => lock.turn \in Turn /\ During(lock.turn, lock.at)
      BY <2>2 DEF ClaimTimely, TypeOK, Parsed, Claims
    <3>2. lock.at <= now'
      BY <1>2, <1>3, <3>1
    <3>3. ASSUME lock.turn # Hand
          PROVE  During(lock.turn, lock.at)'
      <4>1. PICK u \in Turn, n \in Int : u = lock.turn /\ n = lock.at
        BY <3>1, <3>3
      <4>2. During(u, n)'
        BY <1>2, <3>1, <3>3, <4>1
      <4> QED
        BY <1>1, <4>1, <4>2 DEF During
    <3> QED
      BY <1>1, <3>2, <3>3 DEF ClaimTimely
  <2> QED
    BY <2>1, <2>2
<1>9. ToldRun' /\ told' \subseteq told
  BY DEF Turns, ToldRun
<1>10. Found'
  BY <1>1, <1>4 DEF Found, Mine, Parsed
<1>11. ClaimStands'
  BY <1>1, <1>9 DEF ClaimStands, Parsed
<1> QED
  BY <1>2, <1>5, <1>6, <1>7, <1>8, <1>9, <1>10, <1>11

(* The invariant holds at first. *)
LEMMA InitHolds == Init => IInv
<1> USE TimesAssumption, AgeAssumption, CallersAssumption, NoClaimAssumption
<1> SUFFICES ASSUME Init
             PROVE  IInv
  OBVIOUS
<1>1. TypeOK
  BY DEF Init, RegistryInit, TypeOK, RegistryTypeOK, Runs, Entries, PC, Calls, Ops, Guarded, NoCall
<1>2. OneInside /\ RunningYoung /\ ToldRun /\ ClaimStands
  BY DEF Init, RegistryInit, OneInside, RunningYoung, ToldRun, ClaimStands
<1>3. CallsTimely
  BY DEF Init, RegistryInit, CallsTimely, NoCall
<1>4. ~Parsed(lock)
  BY DEF Init, Parsed
<1>5. ClaimTimely /\ Found
  BY <1>4 DEF Init, ClaimTimely, Found
<1> QED
  BY <1>1, <1>2, <1>3, <1>5 DEF IInv

(* Every step keeps it. *)
LEMMA StepKeeps ==
  ASSUME TurnsEnd, IInv, [Next]_vars
  PROVE  IInv'
<1>1. ASSUME NEW p \in Proc, Command(p)
      PROVE  IInv'
  BY <1>1, StartKeeps, PeekKeeps, JudgeKeeps, EnterKeeps, NoGuardKeeps, ReadToAcquireKeeps, WeighToAcquireKeeps,
     WriteKeeps, ReadToReleaseKeeps, ReadToPruneKeeps, WeighToPruneKeeps, UnlinkKeeps, ChangeFailsKeeps, DieKeeps DEF Command
<1>2. CASE Turns
  BY <1>2, TurnsKeep
<1>3. CASE UNCHANGED vars
  <2> USE DEF vars, registry, IInv
  <2>1. TypeOK' /\ OneInside' /\ RunningYoung'
    BY <1>3 DEF TypeOK, RegistryTypeOK, OneInside, RunningYoung
  <2>2. CallsTimely' /\ ClaimTimely' /\ ToldRun' /\ ClaimStands'
    BY <1>3 DEF CallsTimely, ClaimTimely, During, Parsed, ToldRun, ClaimStands
  <2>3. Found'
    BY <1>3 DEF Found, Mine, Good, Parsed, withinMaxAge
  <2> QED
    BY <2>1, <2>2, <2>3
<1> QED
  BY <1>1, <1>2, <1>3 DEF Next

(* The inductive invariant of the lock holds in every reachable state. *)
THEOREM Invariance == ASSUME TurnsEnd PROVE Spec => []IInv
<1>1. Init => IInv
  BY InitHolds
<1>2. TurnsEnd /\ IInv /\ [Next]_vars => IInv'
  BY StepKeeps
<1> QED
  BY <1>1, <1>2, PTL DEF Spec

(* Type correctness; in particular every way out of the section releases the *)
(* guard (the finally blocks of acquire, release and prune).                  *)
THEOREM TypeCorrectness == ASSUME TurnsEnd PROVE Spec => []TypeOK
<1>1. IInv => TypeOK
  BY DEF IInv
<1> QED
  BY <1>1, Invariance, PTL

(* While a turn that was told "locked" runs, the lock file names it: no prune, *)
(* release or acquire of anybody else ever takes its claim away.               *)
THEOREM ClaimsStand == ASSUME TurnsEnd PROVE Spec => []ClaimStands
<1>1. IInv => ClaimStands
  BY DEF IInv
<1> QED
  BY <1>1, Invariance, PTL

(* Two turns that both believe they may write are one turn. *)
THEOREM OneWriter ==
  ASSUME TurnsEnd
  PROVE  Spec => [](\A t, u \in told : t = u)
<1>1. IInv => \A t, u \in told : t = u
  BY DEF IInv, ClaimStands
<1> QED
  BY <1>1, Invariance, PTL

(* A good claim is changed only by a release or by its own turn. *)
THEOREM ClaimsKept == ASSUME TurnsEnd PROVE Spec => ClaimKept
<1> DEFINE ByRight ==
      \E p \in Proc :
        \/ pc[p] = "unlink" /\ call[p].op \in {"release", "force"}
        \/ pc[p] = "write" /\ call[p].turn # Hand /\ call[p].turn = lock.turn
<1>1. ASSUME IInv, [Next]_vars, Good(lock), lock' # lock
      PROVE  ByRight
  <2>1. PICK p \in Proc : Write(p) \/ Unlink(p)
    <3>1. CASE Turns
      BY <1>1, <3>1 DEF Turns
    <3>2. CASE UNCHANGED vars
      BY <1>1, <3>2 DEF vars
    <3>3. CASE \E p \in Proc : Command(p)
      BY <1>1, <3>3 DEF Command, Start, Peek, Judge, Enter, NoGuard, ReadToAcquire, WeighToAcquire, ReadToRelease, ReadToPrune, WeighToPrune, ChangeFails, Die
    <3> QED
      BY <1>1, <3>1, <3>2, <3>3 DEF Next
  <2>2. CASE Write(p)
    BY <1>1, <2>2 DEF Write, IInv, Found, Mine
  <2>3. CASE Unlink(p)
    <3>1. call[p].op \in Ops
      BY <1>1 DEF IInv, TypeOK, Calls
    <3> QED
      BY <1>1, <2>3, <3>1 DEF Unlink, IInv, Found, Ops
  <2> QED
    BY <2>1, <2>2, <2>3
<1>2. IInv /\ [Next]_vars => [Good(lock) /\ lock' # lock => ByRight]_vars
  BY <1>1
<1> QED
  BY <1>2, Invariance, PTL DEF Spec, ClaimKept
-----------------------------------------------------------------------------
(* The registry remembers that a turn is over for as long as a claim that the *)
(* turn made at n could pass by its age.                                      *)
LEMMA OverStays ==
  ASSUME Memory, IInv, NEW t \in Turn, NEW n \in Int, During(t, n), t \in recent(now),
         RegistryNext \/ (\E m \in 0..MaxNow : m <= now /\ readRegistry(m))
  PROVE  (t \in recent(now))' \/ now' - n > MaxAge
<1> USE TimesAssumption, AgeAssumption
<1> USE DEF IInv, TypeOK, RegistryTypeOK, Runs, Entries, recent, NoFile, isRunning,
        isExpired, isSameProcess, During, Memory
<1>1. ASSUME NEW m \in 0..MaxNow, m <= now, readRegistry(m)
      PROVE  (t \in recent(now))'
  <2>1. ~isExpired(t, m)
    BY <1>1
  <2>2. entry'[t] = entry[t] /\ now' = now /\ run' = run /\ stamp' = stamp
    BY <2>1, <1>1 DEF readRegistry
  <2> QED
    BY <2>2
<1>2. CASE Sibling
  BY <1>1, <1>2 DEF Sibling
<1>3. ASSUME NEW u \in Turn, registerTurn(u)
      PROVE  (t \in recent(now))'
  BY <1>3 DEF registerTurn, Becomes, File
<1>4. ASSUME NEW u \in Turn, release(u)
      PROVE  (t \in recent(now))'
  BY <1>4 DEF release, Becomes, File
<1>5. ASSUME NEW u \in Turn, Leak(u) \/ Kill(u) \/ Reuse(u)
      PROVE  (t \in recent(now))'
  BY <1>5 DEF Leak, Kill, Reuse, Becomes
<1>6. CASE Tick
  BY <1>6 DEF Tick
<1> QED
  BY <1>1, <1>2, <1>3, <1>4, <1>5, <1>6 DEF RegistryNext

(* A workspace that reads as free reads as free until it is claimed again. *)
THEOREM FreeForGood == ASSUME TurnsEnd, Memory PROVE Spec => FreeStaysFree
<1> USE TimesAssumption, AgeAssumption, CallersAssumption, NoClaimAssumption
<1>1. ASSUME IInv, IInv', [Next]_vars, Parsed(lock), lock' = lock, ~isHeld(lock, now)
      PROVE  ~isHeld(lock, now)'
  <2>1. /\ lock.turn \in Turn \cup {Hand} /\ lock.at \in Nat /\ now \in Nat /\ now' \in Nat
        /\ lock.turn # Hand => During(lock.turn, lock.at)
    BY <1>1 DEF IInv, TypeOK, RegistryTypeOK, Parsed, Claims, ClaimTimely
  <2>2. \/ UNCHANGED registry
        \/ RegistryNext
        \/ \E m \in 0..MaxNow : m <= now /\ readRegistry(m)
    <3>1. ASSUME NEW p \in Proc, Consult(seen[p], call[p].at)
          PROVE  <2>2!1 \/ <2>2!3
      BY <1>1, <3>1 DEF Consult, IInv, CallsTimely, TypeOK, Calls
    <3>2. ASSUME NEW p \in Proc, Command(p)
          PROVE  UNCHANGED registry \/ Consult(seen[p], call[p].at)
      BY <3>2 DEF Command, Start, Peek, Judge, Enter, NoGuard, ReadToAcquire, WeighToAcquire, Write, ReadToRelease, ReadToPrune, WeighToPrune, Unlink, ChangeFails, Die
    <3> QED
      BY <1>1, <3>1, <3>2 DEF Next, Turns, vars
  <2>3. now <= now'
    BY <2>1, <2>2 DEF registry, RegistryNext, registerTurn, release, Leak, Kill, Reuse,
                      Sibling, readRegistry, Tick
  <2>4. CASE ~withinMaxAge(lock, now)
    BY <1>1, <2>1, <2>3, <2>4 DEF isHeld, withinMaxAge
  <2>5. CASE lock.turn \in Turn /\ lock.turn \in recent(now)
    <3>1. CASE UNCHANGED registry
      BY <1>1, <2>5, <3>1, CallersAssumption
         DEF registry, isHeld, turnOver, recent, NoFile, isRunning, isExpired, isSameProcess
    <3>2. CASE (lock.turn \in recent(now))' \/ now' - lock.at > MaxAge
      BY <1>1, <2>1, <2>5, <3>2 DEF isHeld, turnOver, withinMaxAge
    <3>3. PICK t \in Turn, n \in Int :
            t = lock.turn /\ n = lock.at /\ During(t, n) /\ t \in recent(now)
      BY <2>1, <2>5
    <3>4. ASSUME RegistryNext \/ (\E m \in 0..MaxNow : m <= now /\ readRegistry(m))
          PROVE  (t \in recent(now))' \/ now' - n > MaxAge
      BY <1>1, <3>3, <3>4, OverStays
    <3> QED
      BY <1>1, <2>2, <3>1, <3>2, <3>3, <3>4
  <2> QED
    BY <1>1, <2>1, <2>4, <2>5 DEF isHeld, turnOver
<1>2. IInv /\ IInv' /\ [Next]_vars
        => [Parsed(lock) /\ lock' = lock /\ ~isHeld(lock, now) => ~isHeld(lock, now)']_vars
  BY <1>1
<1> QED
  BY <1>2, Invariance, PTL DEF Spec, FreeStaysFree
================================================================================
