---------------------------- MODULE WorkspaceGuard ----------------------------
(* takeGuard of src/lib/workspaceLock.ts: the critical section of one lock     *)
(* file, serialised by a queue of ticket files.  Every call publishes a ticket *)
(* under a fresh name; the oldest ticket whose owner is alive holds the        *)
(* section.  The age of a ticket is its ctime, read from a clock so coarse     *)
(* that two tickets may carry the same value.                                  *)
(*                                                                             *)
(* A step is one system call (rename, stat of the own ticket, readdir, unlink  *)
(* of the own ticket) with the local computation that follows it.  One turn of *)
(* the loop over the others' tickets is a single step, although it is a stat,  *)
(* a read, a probe of the owner and perhaps an unlink: what is judged there    *)
(* never changes back (a process that is over stays over, and no other call    *)
(* ever publishes under the same name), so that a verdict is as good at the    *)
(* unlink as it was at the read.                                               *)
(* A ticket name is a UUID; a name is taken again only once no file and no     *)
(* other running call refers to it, which no process can tell from a name that *)
(* was never used and keeps the model finite.                                  *)
EXTENDS Integers, FiniteSets

CONSTANTS
  Proc,        \* pids that call takeGuard
  Nobody,      \* owner of a ticket that names no holder (corrupt or foreign file)
  Id,          \* ticket names
  Absent,      \* what the directory holds under a name that is not there
  Attempts,    \* GUARD_ATTEMPTS
  HasProbe,    \* can the platform read a process's start token?
  MaxClock,    \* bound: last value of the clock ctime is taken from
  Mortal,      \* bound: the processes that may die,
  MaxStart,    \* and how often the pid of each may be handed to a new one
  MaxFaults    \* bound: tickets lost behind the protocol's back

ASSUME NobodyAssumption == Nobody \notin Proc \cup Id
ASSUME AttemptsAssumption == Attempts \in Nat \ {0}
ASSUME ProbeAssumption == HasProbe \in BOOLEAN
ASSUME BoundsAssumption == /\ MaxClock \in Nat
                           /\ MaxStart \in Nat
                           /\ MaxFaults \in Nat

VARIABLES
  pc,          \* where each process is in takeGuard
  attempt,     \* the loop counter of its call
  my,          \* the name of its own ticket
  todo,        \* listed tickets it has still to read
  blocked,     \* it read an older live ticket in this scan
  tied,        \* it read a live ticket of its own age in this scan
  mine,        \* the ctime of its own ticket, as it last read it
  start,       \* start token of the process that runs, or last ran, under a pid
  dir,         \* the directory: the ticket under each name, or Absent
  clock,       \* the clock ctime is taken from
  faults       \* tickets lost so far

local == <<attempt, my, mine, todo, blocked, tied>>
vars == <<pc, local, start, dir, clock, faults>>

PC == {"idle", "own", "list", "scan", "again", "quit", "section", "dead"}

(* owner and start are pid and pid_start in the file, seq is its ctime, and old *)
(* says of a ticket that names no owner that its content (mtime) is older than  *)
(* GUARD_ORPHAN_MS: of the others nobody asks, unless one cannot be read.       *)
Ticket == [owner : Proc \cup {Nobody}, start : 0..MaxStart, seq : 0..MaxClock,
           old : BOOLEAN]
ASSUME AbsentAssumption == Absent \notin Ticket

visible == {i \in Id : dir[i] # Absent}

-----------------------------------------------------------------------------
(* Names. *)

(* Files, and the names that calls other than p's refer to. *)
InUse(p) ==
  visible \cup {my[q] : q \in Proc \ {p}} \cup UNION {todo[q] : q \in Proc}
Fresh(p) == Id \ InUse(p)
-----------------------------------------------------------------------------
(* The helpers of takeGuard. *)

(* Plausible bugs in the test below: breaking a guard by the age of its ctime   *)
(* although its owner lives (the rule this code replaced), and trusting the pid *)
(* alone.                                                                       *)
OwnerGoneByAge(i) == dir[i].seq < clock
OwnerGoneByPid(i) ==
  LET t == dir[i] IN
    IF t.owner = Nobody THEN dir[i].old ELSE pc[t.owner] = "dead"

(* Is the process that published ticket i over?  Only the kernel says so: no   *)
(* such pid, or the pid now belongs to a process with another start token.  A  *)
(* ticket that names no owner has nothing to check but its age.                *)
OwnerGone(i) ==
  LET t == dir[i] IN
    IF t.owner = Nobody
      THEN dir[i].old
      ELSE \/ pc[t.owner] = "dead"
           \/ HasProbe /\ start[t.owner] # t.start

(* Plausible bugs: the youngest ticket wins; equal ages count as younger. *)
YoungestFirst(p, i) == dir[i].seq > mine[p]
NeverTied(p, i) == FALSE

Older(p, i) == dir[i].seq < mine[p]
SameAge(p, i) == dir[i].seq = mine[p]

(* write to a .tmp name, then rename: the ticket appears complete, and its     *)
(* ctime is the instant it appears.                                            *)
Publish(p, i) ==
  /\ dir' = [dir EXCEPT ![i] = [owner |-> p, start |-> start[p],
                               seq |-> clock, old |-> FALSE]]
  /\ my' = [my EXCEPT ![p] = i]

(* A plausible bug (it was one): the name to unlink is computed wrongly. *)
DropMisses(p) == UNCHANGED dir

Drop(p) == dir' = [dir EXCEPT ![my[p]] = Absent]

(* What a scan found is local to one turn of the loop, the rest to one call. *)
EndScan(p) ==
  /\ mine' = [mine EXCEPT ![p] = 0]
  /\ todo' = [todo EXCEPT ![p] = {}]
  /\ blocked' = [blocked EXCEPT ![p] = FALSE]
  /\ tied' = [tied EXCEPT ![p] = FALSE]
Forget(p) ==
  /\ EndScan(p)
  /\ my' = [my EXCEPT ![p] = Nobody]
  /\ attempt' = [attempt EXCEPT ![p] = 0]

Goto(p, l) == pc' = [pc EXCEPT ![p] = l]

LastAttempt(p) == attempt[p] = Attempts - 1

(* Plausible bug: an attempt that only waits is not counted. *)
AttemptNotCounted(p) == UNCHANGED attempt

NextAttempt(p) == attempt' = [attempt EXCEPT ![p] = @ + 1]
-----------------------------------------------------------------------------
(* The steps of takeGuard.  A publish that throws before any ticket exists     *)
(* changes nothing (the caller gets "failed") and is a stuttering step.        *)

Take(p) ==
  /\ pc[p] = "idle"
  /\ \E i \in Fresh(p) : Publish(p, i)
  /\ Goto(p, "own")
  /\ UNCHANGED <<attempt, mine, todo, blocked, tied, start, clock, faults>>

(* readTicket of the own ticket. *)
FindOwn(p) ==
  /\ pc[p] = "own"
  /\ my[p] \in visible
  /\ mine' = [mine EXCEPT ![p] = dir[my[p]].seq]
  /\ Goto(p, "list")
  /\ UNCHANGED <<attempt, my, todo, blocked, tied, start, dir, clock, faults>>

(* The own ticket is gone: queue again under a new name. *)
Requeue(p) ==
  /\ pc[p] = "own"
  /\ my[p] \notin visible
  /\ \E i \in Fresh(p) : Publish(p, i)
  /\ NextAttempt(p)
  /\ Goto(p, IF LastAttempt(p) THEN "quit" ELSE "own")
  /\ UNCHANGED <<mine, todo, blocked, tied, start, clock, faults>>

(* readdir: every ticket in the directory but the own one is to be read. *)
List(p) ==
  /\ pc[p] = "list"
  /\ Goto(p, "scan")
  /\ todo' = [todo EXCEPT ![p] = visible \ {my[p]}]
  /\ UNCHANGED <<attempt, my, mine, blocked, tied, start, dir, clock, faults>>

(* readdir throws: "failed". *)
ListFails(p) ==
  /\ pc[p] = "list"
  /\ Drop(p)
  /\ Goto(p, "idle")
  /\ Forget(p)
  /\ UNCHANGED <<start, clock, faults>>

(* One turn of the loop over the listed names: a ticket that counts as gone is *)
(* deleted, a live one is compared with the own one.                           *)
Digest(p, i, gone) ==
  /\ todo' = [todo EXCEPT ![p] = @ \ {i}]
  /\ dir' = IF i \in visible /\ gone THEN [dir EXCEPT ![i] = Absent] ELSE dir
  /\ LET live == i \in visible /\ ~gone
     IN /\ blocked' = [blocked EXCEPT ![p] = live /\ Older(p, i)]
        /\ tied' = [tied EXCEPT ![p] = @ \/ (live /\ SameAge(p, i))]

ReadOther(p, i) ==
  /\ pc[p] = "scan"
  /\ i \in todo[p]
  /\ ~blocked[p]
  /\ Digest(p, i, i \in visible /\ OwnerGone(i))
  /\ UNCHANGED <<pc, attempt, my, mine, start, clock, faults>>

(* The content of a listed ticket cannot be read although its file is there    *)
(* (an I/O error): it counts as ownerless, so its age alone decides.  A call   *)
(* may have published it long ago or just now.                                 *)
MisreadOther(p, i) ==
  /\ pc[p] = "scan"
  /\ i \in todo[p] \cap visible
  /\ ~blocked[p]
  /\ faults < MaxFaults
  /\ faults' = faults + 1
  /\ \E old \in (IF dir[i].owner = Nobody THEN {dir[i].old} ELSE BOOLEAN) :
       Digest(p, i, old)
  /\ UNCHANGED <<pc, attempt, my, mine, start, clock>>

Scanned(p) == pc[p] = "scan" /\ (blocked[p] \/ todo[p] = {})

(* Nobody older and nobody of the same age: takeGuard returns ok. *)
Enter(p) ==
  /\ Scanned(p)
  /\ ~blocked[p] /\ ~tied[p]
  /\ Goto(p, "section")
  /\ UNCHANGED <<local, start, dir, clock, faults>>

(* The last attempt did not get in: "contended". *)
GiveUp(p) ==
  /\ Scanned(p)
  /\ blocked[p] \/ tied[p]
  /\ LastAttempt(p)
  /\ Drop(p)
  /\ Goto(p, "idle")
  /\ Forget(p)
  /\ UNCHANGED <<start, clock, faults>>

(* Only ties: the ticket is withdrawn and a fresh one published after a pause. *)
Withdraw(p) ==
  /\ Scanned(p)
  /\ tied[p] /\ ~blocked[p]
  /\ ~LastAttempt(p)
  /\ Drop(p)
  /\ Goto(p, "again")
  /\ EndScan(p)
  /\ my' = [my EXCEPT ![p] = Nobody]
  /\ UNCHANGED <<attempt, start, clock, faults>>

Rejoin(p) ==
  /\ pc[p] = "again"
  /\ \E i \in Fresh(p) : Publish(p, i)
  /\ NextAttempt(p)
  /\ Goto(p, "own")
  /\ UNCHANGED <<mine, todo, blocked, tied, start, clock, faults>>

(* A second publish of the same call throws: "failed". *)
PublishFails(p) ==
  /\ pc[p] = "again" \/ (pc[p] = "own" /\ my[p] \notin visible)
  /\ Goto(p, "idle")
  /\ Forget(p)
  /\ UNCHANGED <<start, dir, clock, faults>>

(* An older live ticket: keep the place in the queue and look again. *)
Retry(p) ==
  /\ Scanned(p)
  /\ blocked[p]
  /\ ~LastAttempt(p)
  /\ NextAttempt(p)
  /\ Goto(p, "own")
  /\ EndScan(p)
  /\ UNCHANGED <<my, start, dir, clock, faults>>

(* The loop ran out right after a requeue: drop that ticket, "contended". *)
Quit(p) ==
  /\ pc[p] = "quit"
  /\ Drop(p)
  /\ Goto(p, "idle")
  /\ Forget(p)
  /\ UNCHANGED <<start, clock, faults>>

(* release(): unlink the ticket the section was entered with. *)
Release(p) ==
  /\ pc[p] = "section"
  /\ Drop(p)
  /\ Goto(p, "idle")
  /\ Forget(p)
  /\ UNCHANGED <<start, clock, faults>>
-----------------------------------------------------------------------------
(* The environment: processes die anywhere and leave their ticket behind, pids *)
(* are recycled, time passes, and files may vanish.                            *)

Crash(p) ==
  /\ p \in Mortal /\ pc[p] # "dead"
  /\ Goto(p, "dead")
  /\ Forget(p)
  /\ UNCHANGED <<start, dir, clock, faults>>

Respawn(p) ==
  /\ pc[p] = "dead"
  /\ start[p] < MaxStart
  /\ start' = [start EXCEPT ![p] = @ + 1]
  /\ Goto(p, "idle")
  /\ UNCHANGED <<local, dir, clock, faults>>

Tick ==
  /\ clock < MaxClock
  /\ clock' = clock + 1
  /\ UNCHANGED <<pc, local, start, dir, faults>>

(* A file that names no owner is older than GUARD_ORPHAN_MS from now on. *)
Age(i) ==
  /\ i \in visible /\ dir[i].owner = Nobody /\ ~dir[i].old
  /\ LET t == dir[i] IN
       dir' = [dir EXCEPT ![i] = [owner |-> t.owner, start |-> t.start,
                                  seq |-> t.seq, old |-> TRUE]]
  /\ UNCHANGED <<pc, local, start, clock, faults>>

JunkAges == \E i \in visible : dir[i].owner = Nobody /\ Age(i)

(* The state directory is cleared under the queue, one file of it. *)
Lose(i) ==
  /\ i \in visible
  /\ faults < MaxFaults
  /\ faults' = faults + 1
  /\ dir' = [dir EXCEPT ![i] = Absent]
  /\ UNCHANGED <<pc, local, start, clock>>
-----------------------------------------------------------------------------
(* At first the directory may hold a file that names no owner. *)
Junk == [owner |-> Nobody, start |-> 0, seq |-> 0, old |-> FALSE]
Leftover == {{}} \cup {{i} : i \in Id}

Init ==
  /\ pc = [p \in Proc |-> "idle"]
  /\ attempt = [p \in Proc |-> 0]
  /\ my = [p \in Proc |-> Nobody]
  /\ mine = [p \in Proc |-> 0]
  /\ todo = [p \in Proc |-> {}]
  /\ blocked = [p \in Proc |-> FALSE]
  /\ tied = [p \in Proc |-> FALSE]
  /\ start = [p \in Proc |-> 0]
  /\ dir \in {[i \in Id |-> IF i \in junk THEN Junk ELSE Absent] : junk \in Leftover}
  /\ clock = 0
  /\ faults = 0

(* The steps takeGuard takes by itself. *)
Call(p) ==
  \/ FindOwn(p) \/ Requeue(p) \/ List(p) \/ ListFails(p)
  \/ \E i \in Id : ReadOther(p, i) \/ MisreadOther(p, i)
  \/ Enter(p) \/ GiveUp(p) \/ Withdraw(p) \/ Rejoin(p) \/ PublishFails(p)
  \/ Retry(p) \/ Quit(p)

Env ==
  \/ \E p \in Proc : Crash(p) \/ Respawn(p)
  \/ \E i \in Id : Age(i) \/ Lose(i)
  \/ Tick

Next == (\E p \in Proc : Take(p) \/ Call(p) \/ Release(p)) \/ Env

Spec == Init /\ [][Next]_vars

(* takeGuard runs on without pause once called, and junk ages; nothing makes a *)
(* process call it or leave its section.                                       *)
FairSpec == Spec /\ (\A p \in Proc : WF_vars(Call(p))) /\ WF_vars(JunkAges)
-----------------------------------------------------------------------------
(* Properties. *)

TypeOK ==
  /\ pc \in [Proc -> PC]
  /\ attempt \in [Proc -> 0..Attempts]
  /\ my \in [Proc -> Id \cup {Nobody}]
  /\ mine \in [Proc -> 0..MaxClock]
  /\ todo \in [Proc -> SUBSET Id]
  /\ blocked \in [Proc -> BOOLEAN]
  /\ tied \in [Proc -> BOOLEAN]
  /\ start \in [Proc -> 0..MaxStart]
  /\ dir \in [Id -> Ticket \cup {Absent}]
  /\ clock \in 0..MaxClock
  /\ faults \in 0..MaxFaults

(* Two calls that both got in, and whose tickets are both still in the         *)
(* directory, are the same call: what takeGuard is for ("Two overlapping       *)
(* holders would need each to have observed itself oldest, which the ordering  *)
(* forbids").  It holds whatever files vanished before.                        *)
OneHolder ==
  \A p, q \in Proc :
    (/\ pc[p] = "section" /\ my[p] \in visible
     /\ pc[q] = "section" /\ my[q] \in visible) => p = q

Queued(p) == pc[p] \in {"own", "list", "scan", "quit", "section"}

(* As long as no file vanished behind the protocol's back, a living process    *)
(* that has queued, or is inside, has its ticket in the directory: no other    *)
(* process's sweep of dead tickets ever took it ("a live owner keeps its       *)
(* ticket for as long as it lives").                                           *)
LiveTicketKept ==
  faults = 0 =>
    \A p \in Proc : Queued(p) => my[p] \in visible

(* A process that left takeGuard, by any of its exits, and its section leaves  *)
(* no ticket: while a daemon lives, a ticket it forgot would make every later  *)
(* call report "contended".                                                    *)
NoTicketLeaked ==
  \A p \in Proc, i \in visible :
    (/\ pc[p] # "dead"
     /\ dir[i].owner = p /\ dir[i].start = start[p]) => my[p] = i

(* The section is the abstract one as long as no file vanishes.                *)
Abstract == INSTANCE Section WITH inside <- {p \in Proc : pc[p] = "section"}
Implements == Abstract!Spec

(* A call returns although the holder never leaves its section and rivals keep *)
(* coming ("a bounded, visible, self-healing outcome").                        *)
CallReturns ==
  \A p \in Proc : pc[p] = "own" ~> pc[p] \in {"idle", "section", "dead"}

(* Nothing a dead process left behind keeps the section shut: if from some     *)
(* point on nobody else calls takeGuard or is inside, and p keeps calling      *)
(* without I/O errors, p keeps getting in, whatever crashed before and         *)
(* whoever has its pid now.                                                    *)
Quiet(p) == \A q \in Proc \ {p} : pc[q] \in {"idle", "dead"}
CrashHeals ==
  \A p \in Proc :
    (<>[]Quiet(p) /\ []<>(pc[p] = "scan")) => []<>(pc[p] = "section")
-----------------------------------------------------------------------------
(* Why it works: the invariant the proofs rest on.                             *)

(* A visible ticket that a running call counts as its own is its own.          *)
OwnTicket ==
  \A p \in Proc :
    pc[p] \notin {"idle", "again", "dead"} =>
      /\ my[p] \in Id
      /\ my[p] \in visible => dir[my[p]].owner = p /\ dir[my[p]].start = start[p]

NoTicketOwned == \A p \in Proc : pc[p] \in {"idle", "again", "dead"} => my[p] = Nobody

(* Neither ctimes nor start tokens come from the future. *)
NotFromFuture ==
  \A i \in visible :
    /\ dir[i].seq <= clock
    /\ \A p \in Proc : dir[i].owner = p => dir[i].start <= start[p]

MineRead ==
  \A p \in Proc :
    pc[p] \in {"list", "scan"} /\ my[p] \in visible => mine[p] = dir[my[p]].seq

(* The loop counter runs out only on the way to Quit. *)
AttemptsLeft ==
  \A p \in Proc :
    /\ pc[p] # "quit" => attempt[p] < Attempts
    /\ pc[p] = "again" => attempt[p] < Attempts - 1

(* p is past ticket i: it read it and may still enter, or never listed it. *)
Past(p, i) ==
  \/ pc[p] = "section"
  \/ pc[p] = "scan" /\ i \notin todo[p] /\ ~blocked[p] /\ ~tied[p]

(* Whoever is past another queued ticket is older, or as old and then the other *)
(* call is not past this one: it listed this ticket and will read the tie.      *)
QueueOrder ==
  \A p, q \in Proc :
    (/\ p # q /\ my[p] \in visible /\ my[q] \in visible
     /\ Past(p, my[q]))
      => \/ dir[my[p]].seq < dir[my[q]].seq
         \/ dir[my[p]].seq = dir[my[q]].seq /\ ~Past(q, my[p])

IInv ==
  /\ TypeOK
  /\ OwnTicket /\ NoTicketOwned
  /\ NotFromFuture /\ MineRead /\ AttemptsLeft
  /\ QueueOrder
  /\ LiveTicketKept /\ NoTicketLeaked
=============================================================================
