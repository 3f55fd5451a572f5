----------------------------- MODULE TurnRegistry -----------------------------
(* src/lib/turnRegistry.ts: one file per turn says when it started and, once   *)
(* it ended, when that was.  Any process judges from the file, the pid in it   *)
(* and its age whether the turn still runs.                                    *)
EXTENDS Integers

CONSTANTS
  Turn,          \* turn ids
  MaxLifetime,   \* MAX_TURN_LIFETIME_MS
  Retention,     \* RETENTION_MS
  HasProbe,      \* can the platform read a process's start token?
  Longest,       \* how long a turn really runs, at most
  MaxNow         \* bound: last instant

ASSUME TimesAssumption ==
  /\ MaxLifetime \in Nat /\ Retention \in Nat /\ Longest \in Nat /\ MaxNow \in Nat
  /\ HasProbe \in BOOLEAN

VARIABLES
  now,
  run,           \* what has become of each turn
  entry,         \* its file: never written, without or with a finished_at, deleted
  stamp          \* started_at; finished_at once the file has one

registry == <<now, run, entry, stamp>>

(* leaked: the turn is over, but its file does not say so and a living process  *)
(* passes for its own; dead: its process died first.                            *)
Runs == {"new", "running", "over", "leaked", "dead"}
Entries == {"never", "open", "closed", "deleted"}

NoFile(t) == entry[t] \in {"never", "deleted"}

-----------------------------------------------------------------------------
(* Reading the registry at time n, which is when the caller took its clock. *)

isSameProcess(t) == run[t] \in {"running", "leaked"}

isRunning(t, n) ==
  /\ entry[t] = "open"
  /\ n - stamp[t] <= MaxLifetime
  /\ isSameProcess(t)

(* Plausible bug: a finished turn leaves the registry as soon as it has aged. *)
ExpiredEarly(t, n) == ~NoFile(t) /\ ~isRunning(t, n) /\ n - stamp[t] > 0

isExpired(t, n) ==
  /\ ~NoFile(t)
  /\ ~isRunning(t, n)
  /\ n - stamp[t] > Retention

running(n) == {t \in Turn : isRunning(t, n)}
recent(n) == {t \in Turn : ~NoFile(t) /\ ~isRunning(t, n) /\ ~isExpired(t, n)}

(* Every read deletes the expired files it meets. *)
readRegistry(n) ==
  /\ entry' = [t \in Turn |-> IF isExpired(t, n) THEN "deleted" ELSE entry[t]]
  /\ UNCHANGED <<now, run, stamp>>
-----------------------------------------------------------------------------
Becomes(t, r) == run' = [run EXCEPT ![t] = r]
File(t, e) == entry' = [entry EXCEPT ![t] = e]

(* registerTurn; a write that fails leaves the turn without a file. *)
registerTurn(t) ==
  /\ run[t] = "new"
  /\ Becomes(t, "running")
  /\ stamp' = [stamp EXCEPT ![t] = now]
  /\ \E e \in {"open", "never"} : File(t, e)
  /\ UNCHANGED now

(* release() of the handle: writes the file, even one that was deleted; a turn *)
(* whose registration failed gets none.                                        *)
release(t) ==
  /\ run[t] = "running"
  /\ Becomes(t, "over")
  /\ stamp' = [stamp EXCEPT ![t] = now]
  /\ File(t, IF entry[t] = "never" THEN "never" ELSE "closed")
  /\ UNCHANGED now

(* The rewrite fails, or the generator is abandoned and release() never runs. *)
Leak(t) ==
  /\ run[t] = "running"
  /\ Becomes(t, "leaked")
  /\ UNCHANGED <<now, entry, stamp>>

Kill(t) ==
  /\ run[t] \in {"running", "leaked"}
  /\ Becomes(t, "dead")
  /\ UNCHANGED <<now, entry, stamp>>

(* Without a start token the next process with this pid passes for the old one. *)
Reuse(t) ==
  /\ ~HasProbe
  /\ run[t] = "dead"
  /\ Becomes(t, "leaked")
  /\ UNCHANGED <<now, entry, stamp>>

(* siblingTurns, interactiveActivity: reads on behalf of some other turn. *)
Sibling == readRegistry(now)

Tick ==
  /\ now < MaxNow
  /\ \A t \in Turn : run[t] = "running" => now - stamp[t] < Longest
  /\ now' = now + 1
  /\ UNCHANGED <<run, entry, stamp>>

RegistryInit ==
  /\ now = 0
  /\ run = [t \in Turn |-> "new"]
  /\ entry = [t \in Turn |-> "never"]
  /\ stamp = [t \in Turn |-> 0]

RegistryNext ==
  \/ \E t \in Turn : registerTurn(t) \/ release(t) \/ Leak(t) \/ Kill(t) \/ Reuse(t)
  \/ Sibling
  \/ Tick

RegistryTypeOK ==
  /\ now \in 0..MaxNow
  /\ run \in [Turn -> Runs]
  /\ entry \in [Turn -> Entries]
  /\ stamp \in [Turn -> 0..MaxNow]
=============================================================================
