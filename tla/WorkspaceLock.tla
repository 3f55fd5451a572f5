---------------------------- MODULE WorkspaceLock ----------------------------
(* src/lib/workspaceLock.ts above takeGuard: who may write in one working copy. *)
(* Turns claim it, give it up and look at it through short-lived processes.     *)
(* Changes happen inside the critical section of the lock file (Section, which  *)
(* WorkspaceGuard implements); looking does not.  A step is one file read or    *)
(* one file change.                                                             *)
EXTENDS TurnRegistry

CONSTANTS
  Proc,          \* processes that run a workspace command
  Hand,          \* a caller without a turn id
  Free,          \* there is no lock file
  Junk,          \* a lock file that does not parse
  MaxAge         \* MAX_LOCK_AGE_MS

ASSUME AgeAssumption == MaxAge \in Nat
ASSUME CallersAssumption == Hand \notin Turn

Claims == [turn : Turn \cup {Hand}, at : 0..MaxNow]
ASSUME NoClaimAssumption == {Free, Junk} \cap Claims = {} /\ Free # Junk

VARIABLES
  lock,          \* the lock file
  inside,        \* the processes inside the critical section
  pc,            \* where each process is
  call,          \* what it was asked for, by whom, and the clock it took first
  seen,          \* the lock file as it last read it
  told           \* history: turns that were told "locked" and not "unlocked"

vars == <<registry, lock, inside, pc, call, seen, told>>

Guard == INSTANCE Section

Ops == {"acquire", "release", "force", "look"}
Calls == [op : Ops, turn : Turn \cup {Hand}, at : 0..MaxNow]
PC == {"idle", "peek", "judge", "queue", "read", "weigh", "write", "unlink"}
Guarded == {"read", "weigh", "write", "unlink"}

NoCall == [op |-> "look", turn |-> Hand, at |-> 0]

Goto(p, l) == pc' = [pc EXCEPT ![p] = l]
End(p) ==
  /\ Goto(p, "idle")
  /\ call' = [call EXCEPT ![p] = NoCall]
  /\ seen' = [seen EXCEPT ![p] = Free]
Carry(p, l) == Goto(p, l) /\ UNCHANGED <<call, seen>>
Read(p, l) ==
  /\ seen' = [seen EXCEPT ![p] = lock]
  /\ Goto(p, l)
  /\ UNCHANGED call

Leave(p) == inside' = inside \ {p}

(* The call returns, or goes on inside the section. *)
Return(p) == End(p) /\ Leave(p)
Stay(p, l) == Carry(p, l) /\ UNCHANGED inside
-----------------------------------------------------------------------------
(* Is the claim l good at time n?  A registry that cannot answer counts as yes. *)

Parsed(l) == l \notin {Free, Junk}
withinMaxAge(l, n) == n - l.at <= MaxAge
turnOver(t, n) == t \in recent(n)

isHeld(l, n) ==
  /\ Parsed(l)
  /\ withinMaxAge(l, n)
  /\ l.turn = Hand \/ ~turnOver(l.turn, n)

(* The registry is read only for a claim that is young enough and has a turn. *)
Consult(l, n) ==
  IF Parsed(l) /\ withinMaxAge(l, n) /\ l.turn # Hand
    THEN readRegistry(n)
    ELSE UNCHANGED registry
-----------------------------------------------------------------------------
(* A command starts, inside a running turn or by hand; only a person forces. *)
(* acquireWorkspace and the queries take their clock first.                  *)
Start(p) ==
  /\ pc[p] = "idle"
  /\ \E op \in Ops, t \in Turn \cup {Hand} :
       /\ t \in Turn => run[t] = "running"
       /\ op \in {"force", "look"} => t = Hand
       /\ call' = [call EXCEPT ![p] =
                     [op |-> op, turn |-> t,
                      at |-> IF op \in {"acquire", "look"} THEN now ELSE 0]]
       /\ Goto(p, IF op = "look" THEN "peek" ELSE "queue")
  /\ UNCHANGED <<registry, lock, inside, seen, told>>

(* workspaceHolder, listWorkspaceLocks: read the file without the guard.  Only *)
(* the list goes on with a file that does not parse.                           *)
Peek(p) ==
  /\ pc[p] = "peek"
  /\ \/ lock # Free /\ Read(p, "judge")
     \/ ~Parsed(lock) /\ End(p)
  /\ UNCHANGED <<registry, lock, inside, told>>

(* A claim that is not held is to be pruned. *)
Judge(p) ==
  /\ pc[p] = "judge"
  /\ Consult(seen[p], call[p].at)
  /\ IF isHeld(seen[p], call[p].at) THEN End(p) ELSE Carry(p, "queue")
  /\ UNCHANGED <<lock, inside, told>>

Enter(p) ==
  /\ pc[p] = "queue"
  /\ Guard!Enter(p)
  /\ Carry(p, "read")
  /\ UNCHANGED <<registry, lock, told>>

(* Plausible bug (it was one): what cannot get the guard goes on without it. *)
GoOn(p) ==
  /\ pc[p] = "queue"
  /\ Carry(p, "read")
  /\ UNCHANGED <<registry, lock, inside, told>>

(* takeGuard is contended or fails: nothing is changed.  (An acquire whose guard *)
(* failed lets the turn work, and says that its claim is not recorded.)          *)
NoGuard(p) ==
  /\ pc[p] = "queue"
  /\ End(p)
  /\ UNCHANGED <<registry, lock, inside, told>>

ReadToAcquire(p) ==
  /\ pc[p] = "read" /\ call[p].op = "acquire"
  /\ Read(p, IF Parsed(lock) THEN "weigh" ELSE "write")
  /\ UNCHANGED <<registry, lock, inside, told>>

(* Held by somebody else: refused.  Stale or the turn's own: taken. *)
WeighToAcquire(p) ==
  /\ pc[p] = "weigh" /\ call[p].op = "acquire"
  /\ Consult(seen[p], call[p].at)
  /\ LET mine == call[p].turn # Hand /\ seen[p].turn = call[p].turn
     IN IF isHeld(seen[p], call[p].at) /\ ~mine THEN Return(p) ELSE Stay(p, "write")
  /\ UNCHANGED <<lock, told>>

Write(p) ==
  /\ pc[p] = "write"
  /\ lock' = [turn |-> call[p].turn, at |-> call[p].at]
  /\ told' = told \cup {t \in Turn : t = call[p].turn /\ run[t] = "running"}
  /\ Return(p)
  /\ UNCHANGED registry

(* Plausible bug: a plain shell may release whatever a turn has claimed. *)
OwnerOrShell(p) == call[p].op = "force" \/ Hand \in {lock.turn, call[p].turn}
                     \/ lock.turn = call[p].turn

(* A turn's claim is released by that turn or by force, a hand's by anybody. *)
Owner(p) == call[p].op = "force" \/ lock.turn \in {Hand, call[p].turn}

ReadToRelease(p) ==
  /\ pc[p] = "read" /\ call[p].op \in {"release", "force"}
  /\ IF Parsed(lock) /\ Owner(p) THEN Stay(p, "unlink") ELSE Return(p)
  /\ told' = IF Parsed(lock) THEN told ELSE told \ {call[p].turn}
  /\ UNCHANGED <<registry, lock>>

(* Plausible bug: whatever claim is there now is taken for the one judged. *)
PruneUnread(p) ==
  /\ pc[p] = "read" /\ call[p].op = "look"
  /\ Stay(p, "unlink")
  /\ UNCHANGED <<registry, lock, told>>

(* pruneLockFile: only the very bytes that were judged ... *)
ReadToPrune(p) ==
  /\ pc[p] = "read" /\ call[p].op = "look"
  /\ IF lock = seen[p] THEN Stay(p, "weigh") ELSE Return(p)
  /\ UNCHANGED <<registry, lock, told>>

(* ... and judged again, by the same clock. *)
WeighToPrune(p) ==
  /\ pc[p] = "weigh" /\ call[p].op = "look"
  /\ Consult(seen[p], call[p].at)
  /\ IF isHeld(seen[p], call[p].at) THEN Return(p) ELSE Stay(p, "unlink")
  /\ UNCHANGED <<lock, told>>

(* unlink is by path name: whatever is there goes.  A person who forces takes *)
(* the claim away from whoever has it.                                        *)
Unlink(p) ==
  /\ pc[p] = "unlink"
  /\ lock' = Free
  /\ told' = CASE call[p].op = "release" -> told \ {call[p].turn}
               [] call[p].op = "force" -> {}
               [] OTHER -> told
  /\ Return(p)
  /\ UNCHANGED registry

(* The write (fail open, "not claimed") or the unlink fails. *)
ChangeFails(p) ==
  /\ pc[p] \in {"write", "unlink"}
  /\ Return(p)
  /\ UNCHANGED <<registry, lock, told>>

(* The process dies; the guard frees itself (WorkspaceGuard!CrashHeals). *)
Die(p) ==
  /\ pc[p] # "idle"
  /\ Return(p)
  /\ UNCHANGED <<registry, lock, told>>
-----------------------------------------------------------------------------
Init ==
  /\ RegistryInit
  /\ lock \in {Free, Junk}
  /\ inside = {}
  /\ pc = [p \in Proc |-> "idle"]
  /\ call = [p \in Proc |-> NoCall]
  /\ seen = [p \in Proc |-> Free]
  /\ told = {}

Command(p) ==
  \/ Start(p) \/ Peek(p) \/ Judge(p) \/ Enter(p) \/ NoGuard(p)
  \/ ReadToAcquire(p) \/ WeighToAcquire(p) \/ Write(p)
  \/ ReadToRelease(p) \/ ReadToPrune(p) \/ WeighToPrune(p) \/ Unlink(p)
  \/ ChangeFails(p) \/ Die(p)

Turns ==
  /\ RegistryNext
  /\ told' = {t \in told : run'[t] = "running"}
  /\ UNCHANGED <<lock, inside, pc, call, seen>>

Next == (\E p \in Proc : Command(p)) \/ Turns

Spec == Init /\ [][Next]_vars
-----------------------------------------------------------------------------
(* Properties. *)

(* inside says who is in the section: every way out of it releases the guard.  *)
TypeOK ==
  /\ RegistryTypeOK
  /\ lock \in Claims \cup {Free, Junk}
  /\ inside = {p \in Proc : pc[p] \in Guarded}
  /\ pc \in [Proc -> PC]
  /\ call \in [Proc -> Calls]
  /\ seen \in [Proc -> Claims \cup {Free, Junk}]
  /\ told \subseteq Turn

(* A turn that was told "locked", and was not told "unlocked" nor had its claim *)
(* forced away, is what the lock file says for as long as it runs: nothing that *)
(* reads, prunes, releases or acquires meanwhile deletes or replaces its claim. *)
(* So no two running turns both believe they may write ("another live turn      *)
(* holds it", src/cli/workspace.ts:59).                                         *)
ClaimStands ==
  \A t \in told : Parsed(lock) /\ lock.turn = t

(* A claim that is still good, by hand or of a running turn, is changed only by *)
(* a release, or renewed by its own turn: never by a look at it and never by an *)
(* acquire of somebody else.                                                    *)
Good(l) ==
  Parsed(l) /\ withinMaxAge(l, now) /\ (l.turn = Hand \/ run[l.turn] = "running")

ClaimKept ==
  [][Good(lock) /\ lock' # lock =>
       \E p \in Proc :
         \/ pc[p] = "unlink" /\ call[p].op \in {"release", "force"}
         \/ pc[p] = "write" /\ call[p].turn # Hand /\ call[p].turn = lock.turn]_vars

(* A workspace that reads as free does not read as held again unless somebody   *)
(* claims it: the registry remembers that a turn is over for longer than the    *)
(* turn's claim could still pass by its age alone.                              *)
FreeStaysFree ==
  [][Parsed(lock) /\ lock' = lock /\ ~isHeld(lock, now) => ~isHeld(lock, now)']_vars
-----------------------------------------------------------------------------
(* Why it works, where turns end in time (Longest <= MaxLifetime <= MaxAge):    *)
(* the invariant the proofs rest on.                                            *)

OneInside == \A p, q \in inside : p = q

(* A running turn is not older than a turn can be, and its file is kept. *)
RunningYoung ==
  \A t \in Turn :
    run[t] = "running" =>
      /\ stamp[t] <= now /\ now - stamp[t] <= Longest
      /\ entry[t] \in {"never", "open"}

(* No clock is from the future, and a turn claims only while it runs. *)
During(t, n) ==
  /\ run[t] # "new"
  /\ run[t] = "running" => stamp[t] <= n
  /\ entry[t] = "open" => n - stamp[t] <= Longest
  /\ entry[t] = "closed" => n <= stamp[t]
CallsTimely ==
  \A p \in Proc :
    /\ call[p].at <= now
    /\ call[p].op = "acquire" /\ call[p].turn # Hand => During(call[p].turn, call[p].at)
ClaimTimely ==
  Parsed(lock) =>
    /\ lock.at <= now
    /\ lock.turn # Hand => During(lock.turn, lock.at)

ToldRun == \A t \in told : run[t] = "running"

(* What a process inside the section has found out about the claim still holds. *)
Mine(p) == call[p].turn # Hand /\ lock.turn = call[p].turn
Found ==
  \A p \in Proc :
    /\ pc[p] = "weigh" => seen[p] = lock /\ call[p].op \in {"acquire", "look"}
    /\ pc[p] = "weigh" /\ call[p].op = "acquire" => Parsed(lock)
    /\ pc[p] = "write" => call[p].op = "acquire" /\ (Good(lock) => Mine(p))
    /\ pc[p] = "unlink" => call[p].op # "acquire"
    /\ pc[p] = "unlink" /\ call[p].op = "release" =>
         Parsed(lock) /\ lock.turn \in {Hand, call[p].turn}
    /\ pc[p] = "unlink" /\ call[p].op = "look" => ~Good(lock)

IInv ==
  /\ TypeOK
  /\ OneInside /\ RunningYoung /\ CallsTimely /\ ClaimTimely
  /\ ToldRun /\ Found /\ ClaimStands
=============================================================================
