# TLA+ specifications of phantombot

Phantombot gives an AI harness a persona, memory, scheduled work and chat, terminal and
editor surfaces. Most of the program is I/O and text. What can go subtly wrong is its
*coordination*: short-lived processes, daemons and timers of one host that share files and
SQLite rows and hardly ever a common parent. These specifications are about that part.
TLC checks them on small instances; TLAPS proves the central theorems for every instance.

Paths below are relative to the repository (`src/lib/...` and so on).

## Running it

```
tlc -workers 2 -config MCWorkspaceGuard.cfg MCWorkspaceGuard.tla     # any run: see the table of runs
tlapm WorkspaceGuardProofs.tla                                       # any *Proofs.tla
```

`PROJECT.json` lists the components, the runs with what each is expected to show, the lines
of source behind every definition (`map`), the mutation of the model that breaks each
property, the findings, the hazards and the theorems.

## 1. Inventory

### The components that coordinate

| component | state | operations | hard because | correct if |
|---|---|---|---|---|
| guard of a workspace lock, `src/lib/workspaceLock.ts:94-515` | ticket files in the lock directory, ordered by ctime | `takeGuard`, `release`; sweeps of dead owners' tickets | every caller decides from its own directory scan; coarse ctimes tie; callers die, pids are recycled | one process in the section, no live owner's ticket swept, no ticket left behind, every call returns, a crash never shuts it for good |
| workspace lock, `src/lib/workspaceLock.ts:518-962`, `src/cli/workspace.ts` | one lock file per working copy | acquire, release (forced), status, list, prune | a claim is judged over many file reads and changed by path name; liveness is another component's file | a running turn that was told "locked" keeps its claim; no two turns write |
| turn registry, `src/lib/turnRegistry.ts` | one file per turn | `registerTurn`, `release`, `readRegistry` (deletes expired files), `shouldDeferWake` | processes die without a word; pids come again; files expire | a turn that is over never counts as running again while somebody relies on it |
| scheduler, `src/cli/tick.ts`, `src/lib/tasks.ts` | task rows with a claim (pid, time, budget), `tick.lock` | `runTick` (select under the lock, run commands, spawn wakes), `runTaskWake`, sweep of stale claims | ticks overlap; the claim passes from tick to child; anything may die in between; TTLs against budgets | a task is run once at a time and not again before its next fire; `max_runs` and the wake cap hold; a due task runs in the end |
| conversation queue and turn, `src/channels/core/backlog.ts`, `engine.ts`, `src/channels/commands.ts`, `src/orchestrator/turn.ts` | per chat: promise chain, epoch and pending count, active turn; history and its watermark | enqueue, claim, flush; interrupt, `/stop`, `/reset`; history read, persisted pair | a queued callback cannot be cancelled; a turn is claimed long before it can be aborted (download, transcription), and registered before the `try` that takes it off again; reactions run beside the queue | what was superseded never runs, what came after does, in order; nothing that was asked is forgotten |
| prompt cache, `src/orchestrator/promptCache.ts` | per conversation: an epoch, the prompt of its first turn and the turns since | `prepare`, `complete`, `fail`, `invalidate` | a second copy of the history, kept across awaits of several turns, beside commands that change the history | a prompt shows the store's history, nothing from before a `/reset`, and no stranger's context to a principal |
| durable facts, `src/orchestrator/durableFacts.ts`, `src/memory/store.ts:385-460,1095-1310` | cursor, leases with token and expiry, request rows with a generation | claim, commit, release, request, drain | a model call of minutes under a lease; two processes; reset and delete meanwhile | every evicted turn is extracted, each extraction committed once; nothing wiped comes back |
| harness chain and cooldowns, `src/orchestrator/fallback.ts`, `src/lib/cooldown.ts` | cooldown per harness (persisted), deadline of the chain | attempt, fail over, cool, hydrate | one deadline for many attempts; cooldowns expire or survive a restart | a turn is tried on some harness; the chain ends by its deadline |
| nightly sweep, `src/cli/nightly.ts`, `src/lib/nightly.ts` | ledger per date and stage; marker of the running sweep | start, list, stage, record, `sweepLiveness` | a dead sweep's marker, a live but stuck owner, two sweeps at once, days appended to during their sweep | a record never hides a change that was not distilled; every day is distilled in the end |

### The rest

* **Turn runner** (`src/orchestrator/turn.ts`, `resume.ts`, `recovery.ts`): builds the prompt,
  runs the chain, persists the pair. Its effects on shared state are in `Conversation` (history,
  prompt cache, threat hold) and in `TurnRegistry`; resume and recovery are not modelled.
* **Harness processes** (`src/harnesses`, `src/lib/harnessRunner.ts`): child processes with idle,
  tool and hard timeouts.
* **Channels** (`src/channels/telegram`, `src/channels/phantomchat`, `src/p2p`): long poll, Nostr relays,
  WebRTC. Delivery is at most once, deliberately (`src/channels/core/engine.ts:445-475`).
* **Memory** (`src/memory`, `src/lib/memoryIndex.ts`, `src/lib/embedJob.ts`): drawers, journal, index;
  SQLite transactions and rebuildable projections.
* **Threat screen, retrieval** (`src/orchestrator`): a judge model's verdict, ranking.
* **Security perimeter** (`src/security`), **secrets and configuration** (`src/lib/vault.ts`,
  `src/config.ts`), **MCP** (`src/mcp`), **editors** (`src/connectors/acp`, `editors/vscode`),
  **engine library** (`src/engine`), **CLI and TUI** (`src/cli`, `src/tui`), **service control and
  updates** (`src/lib/systemd.ts`, `launchd.ts`, `taskScheduler.ts`, `binaryUpdate.ts`),
  **importer**, `pi-extension`, `scripts`, `www`: operating-system glue, protocols of others,
  presentation.

### How they interact

```
 timer ──> tick ──claim──> task rows <──adopt/record/release── wake child ──┐
             │ tick.lock (flock)                                            │ registerTurn
             └── shouldDeferWake ──> turn registry <── registerTurn ── chat turn
                                          ^                                 │
 workspace lock/unlock/status ── judges ──┘        <── run inside a turn ───┘
             └── takeGuard (ticket queue) around every change of the lock file

 polling loop ──enqueue/interrupt/flush──> queue of a chat ──claim──> turn ──> history (SQLite)
       │  /stop, /reset: abort                                        │  ^        │ evicted turns
       └────────────> activeTurns <──register/deregister──────────────┘  └─ prompt cache
                                                                                 v
 nightly sweep <── daily files, ledger          drain loop, passes ──lease──> fact rows
```

The calls are CLI processes and library calls of one host; the shared state is files and
rows; there are no messages between the processes. Within the daemon everything runs on one
thread, so that a step is the code between two awaits.

## 2. Modules

| module | what it is | over |
|---|---|---|
| `Section` | the abstract critical section: one process inside, who leaves by release or death | |
| `WorkspaceGuard` | `takeGuard`, a step for each change of the directory, listing and ticket read | implements `Section` |
| `TurnRegistry` | the registry's files, its readers' verdicts, turns that end, leak or die | |
| `WorkspaceLock` | the lock file and the commands on it | EXTENDS `TurnRegistry`; `Section` as its guard |
| `TaskClaims` | ticks, wake children, task rows | |
| `Mailbox` | the abstract queue of a conversation: in order, one at a time, can be emptied | |
| `ConversationQueue` | promise chain and `ConversationBacklog` | implements `Mailbox` |
| `PromptCache` | the epoch of one conversation | |
| `Conversation` | the life of a message and its turn, `/stop`, `/reset`, reactions, the history | EXTENDS `ConversationQueue` and `PromptCache` |
| `FactExtraction` | cursor, leases and requests of one conversation; passes over them | |
| `NightlySweep` | ledger, marker and daily files of one persona; sweeps over them | |
| `MC*` | instances for TLC | |
| `*Proofs` | theorems | |

So the workspace lock is verified in two layers: `WorkspaceLock` uses the abstract section,
and `WorkspaceGuard` is shown, by TLC and by proof, to implement it. The conversation is
built the same way: `ConversationQueue` implements `Mailbox` by itself and, inside
`Conversation`, with everything else going on around it.

### WorkspaceGuard

A process in `pc[p]` is at: `own` (publish done, stat its own ticket), `list` (readdir),
`scan` (reads the listed tickets one by one, in any order), `again` (withdrew after a tie),
`quit`, `section`. `dir` is the directory, with owner pid, start token, ctime (`seq`) and
"older than `GUARD_ORPHAN_MS`" (`old`) of each ticket; `my`, `mine`, `todo`, `blocked`,
`tied`, `attempt` are the locals of the call. `Take` publishes, `FindOwn`/`Requeue` are the
head of the loop, `List`/`ListFails`, `ReadOther` and `MisreadOther` (a read whose stat and
content disagree, or a file that names no owner) the scan, `Enter`, `GiveUp`, `Withdraw`,
`Rejoin`, `PublishFails`, `Retry`, `Quit` the outcomes. `Crash` (of a `Mortal` process), `Respawn`
(pid reuse with a new start token), `Tick`, `Age` and `Lose` (somebody clears the state directory) are
the environment.

One turn of the scan loop over another's ticket, its stat, read, probe of the owner and, if that is
gone, unlink, is one step (`Digest`). What could come in between changes nothing of the verdict: a name is
used by one acquisition only, and one that is over stays over (`src/lib/workspaceLock.ts:478-479`), so the unlink
finds that ticket or nothing. `Age` is kept to files that name no owner,
since nobody looks at the age of the others except by a misreading, which may take it either way.

Names come from a finite set `Id`. A name is free for use (`Fresh`) when no file has it and nobody refers to it
any more, which is what UUIDs guarantee; a call that withdraws lets go of its name. In `guard_faults` there is a name more than calls,
and in `guard` too, so that tied callers do withdraw and queue again in step. With a leftover file in the
directory as well, one of them may have to wait in `guard_faults` until the other has ended its scan.

Assumed of the file system: `rename` sets the ctime; the clock of ctimes does not run
backwards; stat fails only for a file that is not there; unlink of a file that is there
succeeds; a UUID is not drawn twice while anybody still refers to it.

### TurnRegistry and WorkspaceLock

`run[t]` is what really happens to a turn, `entry[t]` and `stamp[t]` what its file says. A
turn is `leaked` if it is over although its file says it runs and a living process passes
for its own: `release()` never ran or could not write, or the pid was used again and there
is no start token to tell (`Reuse`). The pure operators `isRunning`, `isExpired`, `recent`,
`isHeld` are the functions of the code; every call of `readRegistry` is a step that deletes
the expired files.

A command reads, judges and changes in separate steps: `Peek`, `Judge` (without the guard, as
`workspaceHolder` and `listWorkspaceLocks`), `Enter`/`NoGuard`, `ReadTo...`, `WeighTo...`,
`Write`, `Unlink`; `ChangeFails` is an I/O error and `Die` a kill at any point. The clock a
command judges by is the one it took when it was called (`call[p].at`). `told` is a history
variable: the running turns whose last answer was "locked".

Assumed: the registry is read in one step (its files change independently and only one of
them decides about a given claim); a command of a turn starts while the turn runs, but may
outlive it; lock files of different paths do not interact. A path is resolved and no symbolic
link is followed, so two names of one tree are two locks here as in the code.

### TaskClaims

The rows are `active`, `lag` (now minus `next_run_at`), `runs` (counted where `max_runs` is
set), `claim` and `review` (its review is due). A process in `pc[p]` is a tick (`begin`,
`sweep`, `count`, `select` under `lock`; `dispatch`, `command`, `ran` without it) or a wake
child (`boot`, `found`, `ready`, `turn`, `done`). Each step is one SQLite transaction: a child reads its row
(`ReadRow`, `BootInactive`) and adopts, by another statement, the claim that the row has by then (`Boot`, `BootOrphan`);
whether it runs a review follows from what it has read. `since[p]` is
the age of the clock reading the process works with: `recordRun` schedules from it, not from
the present, and puts the next fire anything from one unit to the longest distance of the schedule (`Period`) ahead of it:
no schedule is finer than a unit. A claim's `age` runs against `claimStaleTtl`, twice the budget it carries and at
least twice the default.

Assumed: one host (a claim of another host is left to its TTL in the code); selection,
dispatch, start-up and records take less than a time unit, so time passes only while commands
and turns run (`Tick`); a run does not outlive its budget (`left`): the harness is killed
then; a command ends with its tick; a batch waits behind its commands for at most `MaxWait`.
`HandoffGap` allows the two ways in which a child can be started without its claim being
re-pointed: the tick is killed between spawn and adoption, or the plain retry of a failed
`systemd-run` comes after the store was closed.
What a turn answers, where it is sent, the threat screen and the run log are left out.

### ConversationQueue and Conversation

`place[m]` is a message's way along the chain: `new`, `queued` (its callback is attached behind
the promise `prev[m]` and has captured the epoch `ticket[m]`), `running`, `ended` (the body is
over), `settled` (the `finally` of the promise has run). `tail` is `chatChains`, `epoch` and
`pending` the backlog's slot; a deleted slot reads as 0, 0, as `state()` of the code makes it.
`Enqueue`, `Interrupt` (flush, then enqueue), `flush`, `claim`, `Finish`, `Settle` are the operations.
`ahead` is a history variable: what waited when a message came.

`Conversation` adds `phase[t]`, the await at which a turn is: `fetch` (download and
transcription, not yet registered), `open`, `loaded` (history read), `model`, `answered`, `index`
(pair written), `closing`, `sending`, `over`. `activeTurn` and `reason` are `activeTurns` with its
`AbortController`; `hist` and `mark` the stored turns and the watermark of `/reset`; `window` and
`floor` what a turn has read and the watermark it was read at. `Arrive`, `Stop`, `Reset` are the
polling loop and the commands, which run between the awaits of turns; `Start` to `Settled` the
handler of a message, `Load` to `Complete` the body of a turn, `React` and `CloseReaction` a
reaction's turn beside the queue. `Throw` is an exception inside the `try` of the handler, `Escape` one outside of it:
while the message is fetched, or between the registration of the turn (`src/channels/core/engine.ts:1196`) and the `try`
(`:1319`), which leaves the entry in `activeTurns` (finding 3). Both are possible for every message in the theorems; in the runs
`Escape` happens to the messages in `Clumsy`. `Halt` is a failure on shutdown of the host, which is not recorded (`Written`). An aborted harness may
still return its answer (`Answer`), which is then stored but not sent, as in the code. Notes of `/stop`
(`Note`) are taken to read all alike, and records of turns to read differently: what users write
again word for word is left out.

`PromptCache` knows a record of the history by its turn and how it ended; `prepare` compares
histories as `sameHistory` does, with trust, kind of prompt and, left open, the rest of what
makes it rebase. What is too large is left open, too (`over`, `still`).

### FactExtraction

A pass in `phase[p]` is `called` (about to claim), `calling` (works on the batch `todo[p]` under
`token[p]`), `releasing` (gives back, one by one, what it will not reach), and for the drain `clean` or `failed`. `lease[n]` is the row of
`durable_fact_pending`: its token and whether it is `live` (not expired). `Append`, `Converse`,
`Request`, `purgeQuarantined` and `deleteConversation` are the writers; `List`, `ClaimNothing`/`Claim`, `Extract`,
`Skip`, `HarnessFails`, `Release`, `StoreFails`, `Serve` the passes; `Crash` and `Expire` the environment.

`append` puts one turn or a pair into the table, as a pair with one `created_at`. That time is read before the wait for the write
lock (`src/memory/store.ts:1380-1393`), in which any number of other writers may go first, so it may be any of `Times`: the ids and the
times of rows are in no order at all. `Overtaken` are the turns that a row with a higher id and an earlier time follows.
`handled`, `extracted`, `heeded` are history variables. What the facts say is left out.

### NightlySweep

A sweep is at `begin`, in one of the three steps of `saveNightlyState` (`read`, `truncate`,
`write`; `job[p]` says what for), in the listing (`readdir`, `stat`, `hash`) or in the `stages` of
the first date of `queue[p]`. `known[p]` is the ledger it loaded at the start, `cur[p]` the one the
save in progress has read. `Written` includes the torn file that results when two writes
overlay one another and which reads as an empty ledger. Whether `STALE_RUN_MS` have gone by
since the last beat of a marker is left open at every look, so that any two sweeps may run at
the same time. `version`, `mtime` and `distilled` say what is in a daily file and what of it each
stage has worked through.

Assumed: every change of a file changes its mtime or size; a stage reads the day's file once.

## 3. Runs

| run | instance | checks | distinct states |
|---|---|---|---|
| `guard` | 3 processes, one mortal, 4 names, 2 attempts, 3 clock values | `OneHolder`, `LiveTicketKept`, `Implements` | @guard |
| `guard_faults` | 2 processes, 3 names, 2 attempts, 2 clock values, a process that dies and comes back, a lost ticket, fair | `NoTicketLeaked`, `IInv`, `CallReturns`, `CrashHeals` | 0.24 million, 2 min |
| `claims` | 3 pids, a command that may be cancelled, 2 wakes of one persona that may vanish (cap 1, one runs twice, reviews, longer budget), a fault | `IInv`, `OneRun`, `ClaimFollowsRunner`, `RunsCapped`, `WakesCapped`, `StartsWhenDue` | 1.2 million, 1.5 min |
| `claims_live` | 2 pids, 2 periodic wakes, cap 1, a principal that never stops talking, handoff gap, a fault, fair | `DueTaskRuns`, `ClaimsEnd` | 30 s |
| `claims_queue` | 2 pids, 3 commands of an hour each | `OneRun` **violated** | finding 1 |
| `lock` | 2 processes, 2 turns, no start tokens, times 1/1/1/2 | `IInv`, `ClaimStands`, `ClaimKept` | 3 million, about 2 min |
| `lock_memory` | 1 process, 2 turns, times 2/2/2/4, 6 instants | `FreeStaysFree` | 1 min |
| `lock_long` | as `lock`, start tokens, a turn may last 2 where `MaxLifetime` is 1 and `MaxAge` 2 | `ClaimStands` **violated** | finding 2 |
| `conversation` | 3 messages (a stranger's among them) and a reaction, 3 of them come; history limit 2; one `/stop`, `/reset` or exception, one message whose handler may throw outside its `try`, fair | `IInv`, `ActiveIsRunning`, `Silenced`, `NothingForgotten`, `PromptIsHistory`, `ResetForgets`, `CountExact`, `ContextsStay`, `Implements`, `ComesToRest` | @conv |
| `conversation_stranded` | the same | `AllAnswered` **violated** | finding 3 |
| `facts` | the drain and another pass, 4 turns, single or in pairs, of two times in any order, one quarantined, window 1, batches of 2, a failure, crash or deletion, fair | `IInv`, `ExtractedOnce`, `NothingPassedOver`, `NothingFromDeleted`, `RequestHeeded`, `EvictedHandled` | 0.52 million, 2 min |
| `nightly` | 2 sweeps, one closed day, one change, crash, failed stage or `--date`, a recycled pid, fair | `IInv`, `NothingHidden`, `DaysDistilled` | 0.64 million, 2 min |

Why these bounds are enough to meet the interesting cases: three processes in the guard are
the fewest of which one is inside, one blocked and one tied; three clock values make a tie
and a chain of three strictly ordered tickets possible; four names give each process a ticket
and a tied one a fresh name while the others still list its old one. In `guard_faults` two processes with two attempts
tie, withdraw and queue again together, on three names; the same instance with four has been checked once (1.8 million states, 23 minutes). Two commands on a lock file are all that a section lets interfere; with two
turns one claim can replace another. Times of one unit put the age of a turn and of a claim
on the boundary, where the comparisons differ (`<=` and `>`), and the third instant is past
it. In `claims` a tick, its child and a second tick need three pids, and a pid that ends
serves for a further child; a budget of two units against a default of one separates the TTLs;
one fault is one crash or failed dispatch at any step. In `claims_live` all tasks are wakes of one persona with cap one, so that the deferral,
the cap and the claim are all in the way of each task at once.

In `conversation` three messages are the fewest of which one runs, one waits and one
interrupts; a limit of two records makes the oldest fall out of the window, and a reaction is
the one turn that writes to the history beside the queue. In `facts` four turns behind a window of one
are two batches, so that a lease that expires is claimed by another pass while there are
newer turns to claim as well; two times are enough for a late pair to overtake a pair, and for turns of one time, which leave the window by id; generations up to two let a request be renewed while it is drained. One
closed day is enough for `nightly`: dates share nothing but the ledger's file, which is modelled as
one file, and the order of dates matters to the proof only, which is for any number of them.

Symmetry is used only in runs without liveness. Deadlock is not checked where the system may
stop by itself: all processes idle, dead or at a bound.

### Fairness

* `WorkspaceGuard!FairSpec`: weak fairness of a call's own steps (synchronous code, six
  attempts, sleeps of 20 ms) and of the ageing of files without an owner (`JunkAges`). Nothing makes a process call
  `takeGuard` or leave its section; `CallReturns` holds although the holder never leaves.
* `TaskClaims!FairSpec`: the timer fires in every unit and time passes (systemd's timer,
  launchd or the Windows scheduler; `Awake`), and every running process takes its next step.
  The fairness is strong because the model has two pids where the host has thousands: a tick
  must find a free one to spawn, and a process' step waits for the pid's previous owner.
  Crashes are bounded, talking is not: the principal may talk for ever.
* `Conversation!FairSpec`: the handlers taken together do not stop (every await of a handler is of a
  harness, a download or a transcription with a timeout, or of a local call). Nothing makes
  messages or commands come.
* `FactExtraction!FairSpec`: the drain's timer and pass (`DrainLoop`), the steps of every other pass (a model answers
  or times out), and time that passes (`Expire`). `EvictedHandled` is conditional on requests that keep coming, since the
  daemon extracts only where it was asked to.
* `NightlySweep!FairSpec`: days roll over (`Start` of some sweep), a sweep's turns have timeouts, and a
  marker that is met again and again is in the end met stale (strong fairness of `Claim`): a beat
  is written only by a sweep that makes progress.

## 4. Findings

1. **Queued commands outlive their claims** (`claims_queue`; `src/cli/tick.ts:441-444`). The
   comment says a second tick "sees their live claim and does not double-fire them". All
   commands of a tick are claimed together and run one after the other; a claim gets its
   budget only when its command starts. One that waits for over an hour is stale by then, and
   a tick started meanwhile runs it too. `claims` shows that the claim excludes where a
   batch waits for no longer than its claims last.
2. **A long turn loses its working copy** (`lock_long`; `src/lib/turnRegistry.ts:115,316`).
   The hour of `MAX_TURN_LIFETIME_MS` is justified by a 30-minute ceiling of turns that no
   longer exists; an attempt alone may now take an hour. A longer turn is called over, although its registry
   file is open and its process alive, and its claim is taken. `MaxAge` of the run is 2, so that the age limit of
   the lock record itself plays no part in it.
3. **A dead entry in `activeTurns`** (`conversation_stranded`; `src/channels/core/engine.ts:1196,1287,1319`). A turn is
   registered, then `resolveNarrationEnabled` is awaited, and only then the `try` begins whose `finally` deregisters it. The
   former reads a JSON file that is written in place and rethrows what it cannot parse (`src/lib/chattiness.ts:93-111`).
   The entry stays, and messages that come while nothing runs count as interrupts until a later turn has registered itself: the second of two drops the
   first, against "must all be answered" (`engine.ts:816-817`), and `/stop` reports a stop. `ActiveIsRunning` says what
   holds: a turn that runs is the entry, and an entry that does not run was left by such an exception.

Not findings with a run of their own, but met while modelling and worth knowing:

* Scheduler: a command that is cancelled, or whose persona is removed, while it waits in the
  batch still runs; a wake whose tick is killed between spawn and adoption can be started twice
  (`claims` excludes that window, `claims_live` includes it); a command's process group may
  outlive a tick that is killed (`src/cli/tick.ts:459`). The interval after a KEEP is twice the time since the
  *creation* of the task, not twice the last interval (`src/lib/tasks.ts:757,779`): about
  three times it from the second review on.
* Workspace lock: a turn that renews its own claim after an hour is told that it took it over from a
  dead holder; two names of one working copy are two locks, since paths are resolved and
  links are not followed (`src/lib/workspaceLock.ts:754`).
* Conversation: a reply whose stream has ended when `/reset` comes is still written, above the
  watermark, and so is the record of a turn that was interrupted or stopped before the `/reset` and
  unwinds after it; `ResetForgets` is about what had been written before. Nor does it say anything of a history that is
full of notes of `/stop` (`Flooded`): an epoch from before a `/reset` is taken for the present one if both read alike
(`src/orchestrator/promptCache.ts:622` compares role and text, and `src/channels/core/backlog.ts:145` words the
notes alike), and then the old system prompt and the old records are shown. It takes a window that is all notes but
for its last record; the proof of `ResetForgets` is what brought it up, and a limit of one shows it without any note. `/stop` while a message
  is being downloaded or transcribed answers that there is nothing to stop, and the message runs
  later (`src/channels/commands.ts:868`). A turn that is aborted after its stream has
  ended and before it is deregistered leaves both its pair and the record of an interrupted turn.
* Durable facts: `created_at` is taken before the wait for the write lock, and ids are given after it. A pair, or a turn, that waited comes
  into the table behind any number of younger rows; these may be passed by the cursor, which goes by id, while they are still in the window, which goes
  by time, and are then never extracted, against `src/memory/store.ts:1102` ("no turn is lost"). This happens to turns in `Overtaken` and to no
  others: `NothingPassedOver` and `EvictedHandled` hold of all the rest. A drain that finds only live leases of a dead pass claims
  nothing, counts as clean and clears the request (`src/orchestrator/durableFacts.ts:207-211,482-485`); so does a drain
  of one batch where more was evicted. A later request picks the turns up. A turn that fails at every
  attempt keeps the later ones of its batch from being extracted.
* Nightly sweep: the marker is looked at when a sweep begins and written some awaits later, and a
  live sweep with a stage of up to an hour counts as stalled after 45 minutes: two sweeps can run at
  once, against `src/lib/nightlyTrigger.ts:21-23`. The last save clears the marker, whoever's it is; a
  `--date` without a file and exceptions leave it. A ledger torn by overlaid writes reads as empty, and the history is
  distilled again. `nightly` shows that all this costs work and never hides a change.

## 5. Theorems

All are for any number of processes, turns, names, messages, dates and attempts, and any times
that satisfy the named assumptions. Type correctness is proved of every component with theorems about its
states, as a conjunct of its inductive invariant. Every safety property that a passing run checks is proved.

**Guard** (`WorkspaceGuardProofs`): `Invariance`, `TypeCorrectness`, `MutualExclusion`,
`TicketsKept`, `NoLeak` and, without lost files, `ImplementsSection`. Assumed are only the
constants' assumptions in the module. `OneHolder` is not inductive: a process
inside says nothing about what the others have read. The strengthening is `QueueOrder`: if `p`
is past `q`'s ticket (it is inside, or it has read that ticket or never listed it, and has
found nothing in its way), then `p`'s ticket is older, or of the same age and then `q` is not
past `p`'s ticket. It is kept because a ticket published later is not older, and because of
two tickets of the same age the one whose owner lists later is on the other's list or sees it.
The rest of `IInv` says that tickets are their owners' (`OwnTicket`), who is not in a call has none (`NoTicketOwned`), nothing
comes from the future (`NotFromFuture`), what a call remembers of its own ticket is true
(`MineRead`), and the loop counter leaves room (`AttemptsLeft`). The proof has a step per
conjunct and, under it, per action; files are handled by lemmas on the effect of an unlink, a
publication and an ageing on the directory.

**Workspace lock** (`WorkspaceLockProofs`): under `TurnsEnd` (a turn lasts no longer than
`MAX_TURN_LIFETIME_MS` and `MAX_LOCK_AGE_MS`), `Invariance`, `TypeCorrectness`, `ClaimsStand`, `OneWriter` and
`ClaimsKept`; under `TurnsEnd` and `Memory` (start tokens can be read, and the retention
covers a turn and the age of a claim) also `FreeForGood`. That `TurnsEnd` is needed is
finding 2. The two hours of `RETENTION_MS` are exactly the hour of a turn plus the hour of a
claim, so `Memory` holds of the constants of the code with nothing to spare. `ClaimStands` is
strengthened by `Found`: what a process inside the section has found out about the lock file
still holds, whatever time has passed since it took its clock. That needs `RunningYoung` (a
running turn is young and its file is kept), `CallsTimely` and `ClaimTimely` (no clock is from the
future, and a turn claims only while it runs) and `OneInside`. There is a lemma for each action.

**Task claims** (`TaskClaimsProofs`): `Invariance`, `FirmClaims` and `FirmStartsDue` are unconditional. They are about the tasks
whose claims are `Firm`: the longest wait of a batch is within the TTL of a claim without a budget, the wait plus the
task's budget is within the TTL of a claim with it, and either the task is a command or there is no `HandoffGap`. The code
does not enforce the first two, which are conditions on what is scheduled (finding 1 is what happens where they do not hold);
nor can it close the gap. What is proved is that a task with a firm claim is in one hand, is named by its claim, starts only when due
and keeps to its `max_runs`, whatever happens to the others beside it. `RunsAlone`, `ClaimsFollow`, `RunsLimited`, `WakesLimited` and `StartsDueOnly`
are the properties of the runs, under `Orderly`: all claims are firm. `OneRun` is strengthened to `InHand`
and `Follows`: a task in a tick's batch or in a child's hands is in no other's, and its claim names that
process. What keeps the claim is `Timely`: its age is at most the wait so far, and age plus what is left of the run at most
`MaxWait` plus the budget; so it is live while it is needed, no sweep that begins finds it, and `SweptFree` says that a list made
earlier holds no task in hand either, since only the selecting process, under `lock`, can take one (`LockHeld`). A tick
that has counted its lanes has counted everything in hand (`Counted`), so the cap holds of `Taken`, which covers
all wakes under way (`LanesCapped`). `Outstanding` and `Due` carry a fire from its selection to its record.

**Conversation queue** (`ConversationQueueProofs`): `QueueInvariance`, `QueueCountExact` and
`ImplementsMailbox`. What has to be known of the chain is that it is one: every queued message is chained
onto another, the last one is `tail`, and at most one is running or ended. Since the
modules to prove about have no recursion, the chain is ordered by what waits: the messages of the current epoch
come after all superseded ones, and `ahead` is exactly what precedes a message on the chain. No ticket is from a
later epoch, and where the slot is forgotten nothing is queued at all, so that no old epoch can come to life again.

**Conversation** (`ConversationProofs`): `UsesQueue` (every step is a step of the queue or leaves
it alone, so that `StopCounts` and `TakesAsMailbox` follow from the queue's own theorems), `Invariance`,
`ConversationTypes`, `AbortsWhatRuns`, `NothingAfterStop`, `NothingLost`, `PromptsTrue`, `ResetHolds` and
`ContextsApart`, for every history limit and number of events. `CInv` ties the phases to the places on the queue (`Working`), says
that a turn that runs is the registered one (and what else is registered is `Stranded`), and that whoever is silenced is superseded, aborted or over.
For the history, what counts is where the cuts are: the watermark of `/reset` now and at the reads of the turns under way (`Cuts`).

* `PhasesOrdered` and `WrittenOnce` say that a turn has written nothing until it persists, and each of its records once.
  So two equal records that are no notes are one record.
* `WindowsWhole`: what a turn has read is a contiguous piece of the history above its own cut, and every other cut is
  below all of it or above all of it (`Before`). Only the watermark can be new, and it is put at the end of the history.
* `EpochWhole`: the same of the history of an epoch, except that a reply that was under way when the cut was made comes
  after it (`SettledPart`, `RepliesLast`). When a turn continues an epoch, `sameHistory` has found the two equal; all records
  of the window are above the turn's cut, so those of the epoch can be wholly before it only if the equal records are notes: `Flooded`.
* `EpochsNamed` and `EpochSided`: an epoch has one trust and serves one turn at a time, and a turn appends to the epoch
  it has its plan from or to none. `ContextsStay` and `PromptIsHistory` follow.
* `Remembered`: the reply of a turn is written before it closes, or will be by the close.

**Durable facts** (`FactExtractionProofs`): `Invariance`, `FactsOnce`, `DeletedForGood`,
`RequestsHeeded` and `NoneLost`. `ExtractedOnce` rests on `LeasesKnown`: only a turn that
is in the table, has been passed by the cursor and has not been handled has a lease; a commit needs
the token in it and removes it, and `HandledPassed` keeps a handled turn from being claimed anew.
`NoneLost` is for every order in which turns and pairs are created: what is older by id than an evicted turn has been evicted, too, unless
it is overtaken (`OlderEvicted`), and a batch takes the claimable turns from the oldest on (`OlderInBatch`), so that the
cursor moves past none of the others without a lease (`ClaimPasses`).

**Nightly sweep** (`NightlySweepProofs`): `Invariance` and `NoChangeHidden`. The ledger may be overwritten by
what a sweep has read long before, so it is not enough that the ledger is right: every copy that a sweep may still write
has to be (`Ledgers`). A copy stays right because fingerprints are of content that was there (`Seen`) and contents only grow.

**The safe half of liveness.** Where a run checks a liveness property, what the property rests on apart from fairness is
proved: somebody can always go on, and steps lead somewhere.

| property | somebody can go on | steps lead somewhere |
|---|---|---|
| `CallReturns`, `CrashHeals` | `DeadNeverBlock`: what stands in a call's way is a call under way, a young file without an owner, or the ticket of a recycled pid where there are no start tokens | `CallsEnd`: attempts, place in the loop and tickets to read go down |
| `DueTaskRuns`, `ClaimsEnd` | `SelectsOn`: the selection of a tick always has a next task; `ClaimsHold`: a firm claim is live while it is needed, and every claim is stale in the end | |
| `ComesToRest` | `NeverWedged` of the queue, `NeverStuck` of the conversation | `OnlyForward`: places and phases only advance |
| `EvictedHandled` | `NeverOutOfReach`: what has left the window is leased or may be claimed; `PassesGoOn` | `PassesEnd`: each step shortens a batch or ends a pass |
| `DaysDistilled` | `SweepsGoOn` | `SweepsEnd`: phase, dates and stages only go down |

Only model-checked: these seven liveness properties themselves. They need fairness, hence `ENABLED`, which is out of the provers'
reach here, and so is the induction that turns "every step leads somewhere" into "it ends".

## 6. Plan

What keeps two writers or two runs apart came first, then the conversation, the facts and the
sweep. What is left, by importance:

1. `Fallback`: attempts, skips, cooldowns and the deadline; every turn ends and tries a
   harness.
2. `TurnRegistry`: the cooldown after a turn and the deferral it causes, so that `TaskClaims`'
   `Talk` becomes its instance.

## 7. Not modelled, and why

Text, formats, prompts, ranking and wording; the answers of models; network protocols and
WebRTC; operating-system glue (services, sandboxes, credential stores, updates); the terminal
UI and the editors. They keep no state that several actors share, or their promises are those
of somebody else's protocol. `tick.lock` and the daemon's single-instance lock are
kernel locks behind FFI (`src/lib/runLock.ts`); `TaskClaims` takes them as mutual exclusion
that ends with its holder.

Of the modelled components these parts are left out: of the conversation, the byte budget of
the history, streaming bubbles, soft-deadline nudges, quarantine purges (they are in `FactExtraction`), the sandbox hold and a cache that
is switched off or restored from disk; of the facts, personas unknown to the host, and
several conversations (their rows are disjoint); of the nightly sweep, `--max-dates`, the monolithic
prompt, unreadable files, compaction and review, and start tokens (their absence is the harder case); of the
scheduler, several hosts, the length of a review interval, the run log and the texts.
