# ClawPal in TLA+

ClawPal is a desktop application (Tauri: a Rust backend, a React front end)
that manages OpenClaw installations, on the local machine and on remote hosts
over SSH. What can go wrong in it for good goes wrong around one file:
`openclaw.json`. Pages queue commands that change it, an *apply* runs the queue
and rolls back when a command fails, every change is to be saved in a history,
and on a remote host all of this happens over a connection that can be lost. A
doctor lets an agent repair the same file and replaces it when that fails, and
beside all this run a watchdog of scheduled jobs, a cache in front of the
backend and a queue of bug reports on disk. These modules model those parts, as
they are in the source, and say what holds of them.

Paths below are relative to the repository; `commands/…`, `cli_runner.rs`,
`history.rs`, `ssh.rs` and so on are in `src-tauri/src/`.

## 1. Inventory

| Part | State it keeps | Operations | Talks to |
| --- | --- | --- | --- |
| Local queue and apply (`cli_runner.rs`) | `CommandQueue`, a mutex around a vector, in memory | queue, remove, discard, preview, apply with rollback | openclaw CLI (subprocesses), `openclaw.json`, history, cache |
| CLI read cache (`cli_runner.rs`, `commands/discovery.rs`) | `CliCache`, a map with timestamps | get, set, `invalidate_all`; three read-through readers | CLI, apply |
| Pending changes bar, Cook page (`src/components`, `src/pages`) | `applyInFlightRef` of the mounted bar | apply, discard, recipe execution | local apply |
| Snapshot history (`history.rs`, `commands/config.rs`) | snapshot files, `metadata.json` | add, list, roll back | `openclaw.json`, History page, apply |
| Direct writers (`commands/model.rs`, `agent.rs`, …) | none | read, change, snapshot, write | history |
| Remote queue and apply (`cli_runner.rs`, `commands/config.rs`) | a queue per host; on the host `openclaw.json`, snapshots, index | as local | SSH pool |
| SSH pool (`ssh.rs`, `clawpal-core/src/ssh`) | per host: session, semaphore of two permits; back-off | connect, exec, SFTP read and write, refresh, disconnect | hosts |
| Watchdog (`resources/watchdog.js`, `commands/watchdog.rs`, `commands/watchdog_cmds.rs`, `src/pages/Cron.tsx`) | the script, a pid file; in the process the retries of each job; in the page `wdAction` | deploy, start, stop, uninstall; a check cycle with retries, back-off and escalation | node processes, gateway, run records, SSH pool |
| Doctor assistant (`commands/doctor_assistant.rs`) | directories of temporary profiles with a marker, copies of damaged files | diagnose, repair with a temporary gateway, prune, restore a backup | CLI, an agent, `openclaw.json`, hosts |
| Page read cache (`src/lib/api-read-cache.ts`, `use-api.ts`) | a map with requests in flight and optimistic pins | read through, pin, invalidate, evict | every page, the backend's commands |
| Bug reports (`bug_report/`) | three files, a channel, a count per hour | capture, flush, mark sent, send, test | panic hook, a reporting service |
| Install sessions (`install/`) | a map of sessions | create, run a step, read | runners, SSH pool |
| Recipes (`recipe*.rs`, `recipe_runtime/`) | index of runs, workspace files | plan, execute, record, delete | the queues, systemd |
| Rescue, gateway clients, backup, sessions, profiles, discovery, CLI tool | little or none between calls | | CLI, hosts |

Who runs beside whom: commands declared without `async` run on the main
thread, one at a time; `async` commands run on a thread pool, and an apply on a
blocking thread of its own. The pages are event driven and can start a second
call while a first is waiting. There is no transaction around `openclaw.json`
and no lock around `metadata.json`. The watchdog is a process of its own that
outlives the application; the sender of bug reports is a thread of it.

What is hard to get right, part by part, and the properties that say so:

* **Apply.** The queue is listed and its lock released, then its commands run
  for seconds, while commands are queued, removed and discarded. Any of them
  can fail before or after it wrote, and what it printed can end the apply with
  a panic after it ran. A whole-file command writes over what came before it. In
  order, each once, all or nothing (`RunsInOrder`, `TakenOutNeverRuns`,
  `CommandsAccounted`, `AppliesAreAtomic`, `OkKeepsChanges`). The application can
  stop in the middle (`Recoverable`).
  One apply at a time (`OneApplyAtATime`), and every apply is answered
  (`GuardReleased`, `RecipeAnswered`).
* **CLI cache.** A miss, the answer and the store are three steps with an apply
  possibly between them (`CacheCurrent`).
* **History.** An entry without a file, a file without an entry, an index
  replaced by a thread that has read an old one, a full list, a stop between
  any two steps (`ListedHaveFiles`, `RecordedStayListed`,
  `RollbackKeepsPromise`, `ConfigIsVersioned`).
* **SSH pool.** Permits must come back on every path, a refresh closes the
  session under others, a retry must not run a command twice, and a host that
  falls silent keeps the permits of the channels it does not open
  (`PermitsConserved`, `RunsAtMostOnce`, `CallsReturn`).
* **Remote apply.** What was given up still runs; a write that fails half way
  leaves an empty file; the same panic, and no guard in the backend against a
  second apply (`RestoredExactly`, `SnapshotStands`, `OkMeansAllRan`,
  `StartedOnce`).
* **Watchdog.** Two processes that boot together, one that ends late beside the
  next, pid files of the dead (`OneWatchdog`); retries and escalations that
  outlive the trigger time they were for, a gateway that goes down in the
  middle of a cycle (`MissedIsHandled`).
* **Doctor.** Repairs that overlap or are stopped prune each other's profiles
  (`NothingLeft`); the fallback acts on a diagnosis that may be old
  (`HealthyKept`), and replaces the one copy of a file (`DamagedSaved`).
* **Page cache.** Answers come after the cache was invalidated, pinned or
  evicted for them (`OneRequest`, `PinnedShown`, `SettlesFresh`).
* **Bug reports.** A flush beside the sender, three files without a
  transaction, any write of which may fail or be cut short, a count per hour kept by several hands (`FiledOnce`,
  `NothingForgotten`, `RateKept`).

`PROJECT.json` has the components with their sources, and every hazard at its
line with the properties that cover it or the reason why none does.

## 2. Plan

Done, in this order: `CommandApply` (with `AtomicApply`), `SnapshotHistory`
(with `VersionedConfig`), `SshPool`, `RemoteApply`, then `Watchdog`,
`ReadCache`, `BugReports` and `Doctor`, each as a model with runs first; proofs
where the property is one of safety and the prover reaches it (section 6).

What a continuation would take up, and why it came last:

1. Remote rollback and listing on top of `RemoteApply`'s files: single reads and
   puts of the kind `RemoteApply` has, without a guard against its apply.
2. `InstallSession` (`install/commands.rs:617`) and the store of recipe runs
   (`recipe_store.rs:136`): read, check, change and write back without a lock
   over the whole, the pattern `SnapshotHistory` has for `metadata.json`.
3. The previews and the sandbox directory they share (`cli_runner.rs:1428`,
   `3089`): two at once show each other's text and change nothing else.
4. Under liveness, the safety half that a proof can reach: that an apply which
   has not settled always has a step to take (the fairness stays with TLC).

Left out on purpose: parsers, diagnosis by the text of external tools, runners
that only start processes, rendering. They keep no state a model could relate,
and they are most of the code: the largest files of the repository are
translations between documents and the output of commands.

## 3. Modules

Eight models, none of which extends another: `CommandApply` implements
`AtomicApply`, `SnapshotHistory` implements `VersionedConfig`. `RemoteApply`
has the apply of `CommandApply` again, with its own code path
(`remote_apply_queued_commands_…`), over calls as `SshPool` lets them end. Each
has an `MC…` module with the values for TLC and a `…Proofs` module with its
theorems.
`PROJECT.json`, `map`, names the lines of every definition.

**`mix`.** All models but `SshPool` and `RemoteApply` have a variable `mix`,
chosen in `Init` and never changed: the set of *disturbances* that may happen in
this behaviour (a restore that fails, a direct write, a remount of a page, an
output that cannot be cut, a file that cannot be written, a stop, …). They are all things the program really meets. A property says in its
first line what it needs, e.g. `Alone == Guarded /\ "write" \notin mix`. So one
run explores the program by itself and beside each disturbance, and each
promise is stated for exactly the circumstances under which the code keeps it.
`SshPool` and `RemoteApply` count failures instead, and their properties name
the counts; `RemoteApply` chooses in `Init` whether the page is the only way to
an apply (`guarded`).

**A definition named for its flaw.** `Decide` and `DecideOnFirst` in `Doctor`,
`Exhausted` and `ExhaustedLate` in `Watchdog`, and other pairs of that form:
the second is the code with one plausible mistake in it, which the property it
belongs to must notice. Only the first is part of the model.

### CommandApply

| State | Code |
| --- | --- |
| `queue` | `CommandQueue.commands` |
| `text` | the text a whole-file command (`Wholes`: `__config_write__`, `__rollback__`) was queued with |
| `cfg` | `openclaw.json`, as the set of changes it contains |
| `snaps` | what the snapshot files contain |
| `pc`, `batch`, `before`, `done`, `res` | an apply: `commands`, `config_before`, `applied_count`, `ApplyQueueResult` |
| `bar` | `applyInFlightRef.current` |
| `cache`, `reader` | `CliCache` and calls that read through it |
| `writer` | a command such as `set_agent_model` between read and write |

`accepted`, `ran`, `taken`, `late`, `committed`, `overlapped` are history
variables. One action per step of `apply_queued_commands_with_services`
between which something else can run: `List`, `ReadBefore`, `AddSnapshot`,
`ExecOk`/`ExecFail`/`ExecCut` per command, `Restore`, `ClearFailed` or
`ClearOk`, `Invalidate`, `RestartGateway`, and `Settle` for the promise in the
page. A command of `FileCmds` writes files the rollback does not touch. One of
`Wholes` replaces the file by the text it was queued with, which may be older
than the commands before it in the batch (`EditOf`, `Effect`); `Result` says
what a batch makes of the file. `ExecCut` is `text.truncate(800)` inside a
character (`cli_runner.rs:1736`): the command has run, the apply ends with an
error and does nothing more.

`AppliesAreAtomic` is `AtomicApply!Spec` under a mapping: the abstract store is
`before` while a batch is open and `cfg` otherwise; the working copy is `cfg`;
what is still to be done of the batch is a sequence of edits, each a change or a
whole text.

### SnapshotHistory

Texts are documents (`Docs`, `BadDocs` for those with a syntax error). An id is
the second and the label, as in `add_snapshot`, so two snapshots can share it.
`metadata.json` and its temporary file are directory entries that point to
inodes, so `CreateTmp`, `WriteTmp` and `RenameTmp` of two threads interleave as
they do on disk: emptied, torn and renamed away. The commands of the main
thread are `StartWrite` and `StartRollback` with their reads and writes,
`ListHistory` fills the page, an apply saves on its own thread. A rollback uses
the list the page *showed*.

`ConfigIsVersioned` is `VersionedConfig!Spec` with the listed snapshots and
their texts as the saved ones.

### SshPool

One host. `current` is the entry in the map, `cell` the session in an entry's
mutex, `free` its semaphore; an operation keeps the entry it looked up, also
after a reconnect. `LookUp`, `Acquire`, `CloneSession`, `OpenChannel`,
`OpenFails`, `RefreshConnect`/`RefreshFails`/`RefreshSwap`, `CommandEnds`,
`ChannelLost`, `TimesOut`, `Cancel`. `remote` is the command on the host, which
goes on when its channel is gone. A host may fall silent without closing
anything (`FallsSilent`, `SpeaksAgain`): `channel_open_session` waits for it
without a time limit (`clawpal-core/src/ssh/mod.rs:151`), holding its permit.

### RemoteApply

`jobs` is what runs on the host. A call the application gives up leaves its job
behind, and it may still do its work or die. A put empties its file
(`PutOpens`) and then fills it (`PutFills`); `Fallback` is the `tee` of
`sftp_write`. `Press` and `List` begin an apply, of an empty queue too
(`ListNothing`). `Refuse`, `TimeOut`, `Lose` and `Crash` are the failures of
the way to the host, and `Cut` the panic over the output of a command. When
`guarded` holds, an apply begins only when no other is in progress, as the bar
makes sure; the command itself does not look (`cli_runner.rs:2963-2976`), and
the other behaviours let two run. `config`, `snap` and `index` are the files on the host. The openclaw
CLI on the host (`CommandReads`, `CommandWrites`, `CommandFails`, `Dies`) is
external: it reads `openclaw.json` and replaces it at once.

### Watchdog

| State | Code |
| --- | --- |
| `pidFile`, `script` | `watchdog.pid`, `watchdog.js` on the instance |
| `pc`, `sigterm` | the node processes: booting, past `acquirePidFile`, in a cycle, leaving; a signal that is pending |
| `call`, `action` | `start_watchdog`, `stop_watchdog`, `uninstall_watchdog` in progress; `wdAction` of the mounted page |
| `job` | `jobState`: status, retries, the trigger time of the last cycle, the one escalated |
| `due`, `lastRun`, `expected` | trigger times passed, the one last recorded, the one the cycle computed |
| `gateway`, `alive` | the gateway, and what the cycle knows of it |

`Press` and `PressDeploy` begin a call, `ReadPid` to `RemovePid` are its steps,
`Poll` is the page that finds the process running. `Found` is what `kill -0`
says: on the own host a process that died while the application runs is a
zombie, and is found. Deployments and starts can fail (`StartRefused`,
`SpawnFails`), and every remote read, probe and command can (`MayLose`). `AcquireTaken`,
`AcquireFree`, `WritePid`, `Shutdown`, `Unlink` are the process's handling of
the pid file; `BeginCycle`, `Look`, `BackedOff`, `OpenclawUp`, `TriggerOk`,
`TriggerFails`, `EndCycle` its check cycle. A trigger time is a number instead
of a cron expression. Disturbances: a remote instance (its commands overlap), a
remount of the page, a page that stops waiting for a slow boot, remote commands
that fail, a process that pauses inside its exit, a process killed at once, trigger
times that pass. `OneWatchdog` needs `Calm`: none but the remote instance,
killed processes and trigger times. With any other, two watchdogs can run
(section 8).

### Doctor

A repair is its temporary profile. `at` has its place and its locals: what it
diagnoses for, `temp_flow`, whether its latest diagnosis is healthy, the round,
and its `openclaw.json.damaged`. A diagnosis is `CleanStale` (every marked
profile goes, as `diagnose_…` prunes before it looks) and `Look`. `Begin`,
`Record`, `Setup`, `Mark`, `Sync`, `Ready`, `Round`, `Recheck` are the temporary
gateway and its agent, with `LateEdit` for an agent that was given up and still
runs; `CleanUp`, `PruneRoots`, `Save`, `Replace`, `Restore`, `Settle` the end
and the fallback; `Stop` is the application. What a diagnosis finds is data:
`Healthy` are the texts with which the primary *can* be healthy. The ghosts
`swept`, `older` and `undone` remember prunes and what had been said of texts a
fallback replaced.

### ReadCache

Every JavaScript callback is one action: a read that hits, joins a request or
starts one (`ReadHit`, `ReadJoin`, `ReadMiss`), the answer (`Answer`,
`AnswerFails`), the passing of a time (`Expire`), `Invalidate` and
`SetOptimistic`. `Change` is a change on the host, answered to the page later;
`Serve` is the moment a request sees the host. `order` is the insertion order
of the map, which decides what is evicted. Values are version numbers.

### BugReports

`holder` has `pending_lock`; `writes` are the files it has still to write, so
that the application may stop between two files, or inside one (`Torn`), and
that a write may fail half way and the application go on (`WriteFails`): the
rest of the change is given up, and a capture goes on without having filed its
report.
`Enqueue` and `Prepare` are a capture, `SenderTakes`, `SendOk`, `SendFails`,
`MarkSent` the sender thread, `CleanUp` and the `Flush…` actions the startup,
`TestBegins`/`TestEnds` a test report, `HourPasses` the limit's window.

## 4. Runs

Each run has all the properties its row names in `PROJECT.json`; `bad_…` runs
are expected to find their one property violated (section 8).

| Run | Bounds | Shows |
| --- | --- | --- |
| `apply` | two commands of the configuration, one of which writes the whole file, and one of a recipe, which writes other files; two presses of Apply and one recipe execution, of which two start; two commands queued by hand or recipe, one read-through call, one direct write, one remount, one crash; mixes {}, {restore, crash}, {cut}, {read}, {write, snapshot}, {cook}, {remount} | the safety properties of `CommandApply`, its refinement, and that every apply is answered and the bar released |
| `history` | four documents and one that does not parse, a list of two, seconds up to three, one stop; mixes with rollbacks, stops, a hand edit, a shared second, an apply | the properties of `SnapshotHistory` |
| `pool` | three calls, two permits, two connects, three sessions, one fault: a session that ends, a host that falls silent, or a refusal; reconnects, callers that give up | permits, retries, and every call returns that no silent host holds |
| `remote` | one command and one `__config_write__`, two applies, any two faults (two refusals or timeouts, a loss, a panic, a stop); with two applies at once, both commands and no fault, or one command and one fault (`Narrow`) | what the answers of an apply are worth |
| `watchdog` | two processes, three calls (two where trigger times pass), one job, `MAX_RETRIES` two, three trigger times, one outage, one remount; mixes {due}, {crash}, {remote, crash}, {remount, slow}, {remote, lost, pause} | one watchdog; missed runs are handled |
| `doctor` | two repairs, one healthy text and one that is not, two rounds; mixes {ssh}, {ssh, late}, {two}, {stop}, {ssh, stop}, {unread} | profiles go, healthy texts stay, damaged ones are saved |
| `readcache` | two keys, three requests, room for one entry, one change, one pin, one failure; mixes {pin}, {invalidate, pin}, {crowd} | pins, shared requests, fresh values in the end |
| `reports` | three reports, one below the threshold, two pending, one dead letter, two attempts, one per hour, three starts, one hour, one test; nothing that cuts a change of the files short, or stops anywhere, or stops anywhere and writes that fail (then two starts, no hour, no test: `FewStarts`) | the files and the limit |
| `bad_second_apply` | two presses and a recipe, with a remount or a recipe | two applies run at once |
| `bad_lost_entry` | as `history`, one apply overlapping | a saved snapshot is no longer listed |
| `bad_lost_is_ok` | two calls, one network failure | a lost command is reported as a success |
| `bad_recovered` | one remote repair | a recovered configuration is replaced |

Why these bounds. Two applies are needed for one to disturb the other, and a
third adds nothing new, as all the code does with the others' state is to empty
the queue and write the file. Two commands make a failure after a success and a
queue that has changed since it was listed; with one of them a whole-file
write, either comes first. A list of two is full after two
saves, which is the interesting case of 200. Two calls of the pool refresh
against each other and close each other's session, and a third waits for their
two permits; two failures of the remote
apply reach a failing fallback and a failure during the recovery from a failure.
Three calls of the watchdog are a start, a stop and a start again beside the
process that ends late; three trigger times let one pass while the last is
retried and one after an escalation. Two repairs are one and the one before or
beside it. Room for one of two cached keys is the smallest crowd, and three
requests are one that was invalidated, one that took its place and one of the
other key. A report needs three starts to be kept, retried and become a dead
letter.

`apply` and `watchdog` explore one representative of behaviours that differ in
the names of interchangeable commands or calls (`InOrder` in their `MC`
modules, a `CONSTRAINT`: the first to be used is always the first by name; in
`apply` only beside a recipe or a remount, where no property speaks of the file
and the whole-file command is like the other);
`SYMMETRY` does the same in the runs without liveness. `InOrder` of the pool
is the same for sessions and entries. The other constraints are bounds of the
size of a run and leave out behaviours that the proofs of section 6 include:
`OneFault` of the pool, `Narrow` of the remote apply, `FewStarts` of the
reports.

`CHECK_DEADLOCK FALSE` in all of them: the system rests when the user has done
all that the bounds allow.

## 5. Fairness

* `CommandApply`: weak fairness of each apply's steps, not of the user, the
  readers or the writers. An apply runs on a thread of its own, and every
  subprocess is assumed to exit: `run_openclaw` (`cli_runner.rs:77`) waits
  without a time limit, so without that assumption nothing is promised.
* `SshPool`: weak fairness of each call's own steps once it has looked up its
  entry. Connecting and running a command have timeouts. Opening a channel has
  none: the step is not enabled while its host is silent, and nothing obliges
  the host to speak again, so such a call may wait for ever and keep its permit.
  `CallsReturn` says that this is the only reason: a call that is not answered
  waits for a channel of a silent host, or for a permit when all of them are
  held by such calls. A call that has left does not come back for a permit, so
  nothing stronger is needed for the semaphore.
* `Watchdog`: weak fairness of each process's steps (node's loop, whose waits
  are timers) and of the record of a run that was started, which the gateway
  writes. Not of the page, the calls or the trigger times: `MissedIsHandled`
  promises nothing while no watchdog runs.
* `ReadCache`: weak fairness of the timers and of requests (the backend's
  commands return), and strong fairness of reading: the pages poll, and only
  the bound on the number of requests ever makes a read wait.
* `SnapshotHistory`, `RemoteApply`, `Doctor`, `BugReports`: none, and no
  liveness. Their steps follow each other without waiting for one another, or
  wait for calls with a timeout.

## 6. What is proved

For every value of the constants that meets the modules' assumptions, with any
number of applies, calls, processes, repairs, reports and failures:

| Theorem | Says |
| --- | --- |
| `CommandApplyProofs!TypeCorrect` | type correctness |
| `CommandApplyProofs!GuardExcludes` | the bar's guard alone keeps applies apart while the bar stays mounted and no recipe is executed |
| `CommandApplyProofs!CrashSafe` | the last committed configuration survives crashes, failing commands and failing restores |
| `CommandApplyProofs!ApplyIsAtomic` | while no output fails to be cut, no restore fails and nothing else writes the file, the apply implements `AtomicApply` |
| `CommandApplyProofs!NothingIsLost`, `TakenOutStaysOut`, `OrderIsKept` | every accepted command is accounted for, panics included; one taken out in time never runs; the others run in order and once while no apply is cut short |
| `CommandApplyProofs!OkIsKept`, `CacheIsCurrent` | an ok leaves in the file exactly what its batch makes of the one it found, whole-file writes included; no stale answer in the cache while no apply is cut short |
| `SnapshotHistoryProofs!TypeCorrect`, `ListedSnapshotsHaveFiles` | types; no entry without its file, though nothing is locked |
| `SnapshotHistoryProofs!RecordedStays` | while no apply writes the index beside the main thread, an entry whose save returned stays listed until the list is full of entries at least as new |
| `SnapshotHistoryProofs!RollbackAsPromised` | with one apply at a time, a rollback writes the text the page showed |
| `SnapshotHistoryProofs!HistoryIsVersioned` | commands taken in turn implement `VersionedConfig` |
| `SshPoolProofs!TypeCorrect`, `NoPermitIsLost`, `RetriesAreSafe` | types; permits are conserved on every path; no command runs twice |
| `RemoteApplyProofs!TypeCorrect`, `NeverTwice`, `SuccessIsReal` | types; no command is started twice while one apply runs at a time and none is cut short; a success has run all of its batch, beside other applies too |
| `RemoteApplyProofs!SnapshotIsWhole`, `RollbackIsReal` | with one apply at a time, one refusal at most and nothing given up or lost, the snapshot stands and a rollback restores |
| `WatchdogProofs!TypeCorrect`, `OneWatchdogRuns` | types, with the limit of retries; one watchdog in a calm environment, local zombies included |
| `DoctorProofs!TypeCorrect`, `ProfilesGo`, `HealthyStays`, `DamagedIsSaved` | all invariants of `Doctor` that its run checks |
| `BugReportsProofs!LimitIsKept` | the count of waiting reports is exact and the limit per hour holds |
| `BugReportsProofs!TypesAreKept`, `FiledInOnePlace`, `NoneForgotten` | types; a report is in one file and once, wherever the application stops and whichever writes fail; none is forgotten while no stop and no failing write cuts a change short |
| `ReadCacheProofs!TypeCorrect`, `AskedOnce`, `PinStands` | types; one request per key while nothing is invalidated and all fits; no late answer passes a pin |

The arguments:

* `GuardInv`: an apply that has been called and has not settled is the one the
  bar waits for. It is stronger than "one runs": a call that has not listed the
  queue yet must count, or `List` breaks it.
* `RecoverInv`: `Kept`, and between the read of `config_before` and the
  snapshot that text is still the file's, and from the first command until the
  restore the committed configuration is among the snapshots. `Kept` alone is
  not inductive, as a command may change `cfg` at any time.
* `BatchInv`: no command is twice in the queue or in a batch, so what is still
  to be done of a batch loses exactly one edit with each command;
  `config_before` is the file when the batch opens. `MappingIs` computes the
  refinement mapping, and each action is a step of `AtomicApply` or a stutter.
* The commands of `CommandApply`: `CmdInv` says of every accepted command where it is
  (queued, run, taken out, rolled back, late), and that what is in the queue or
  in a batch was accepted and not taken out before. `KeepInv` (the file is `Result` of what the batch has done so
  far, by `ResultNext` from one command to the next), `FreshInv` (a cached answer is the file's, and no read is under way while an
  apply runs) and `OrderInv` (the batch in progress is a segment of `accepted` beyond
  all that ran) rest on it and on `GuardInv`. The last two suppose that no
  apply is cut short: one that is keeps its queue, changed file and cache.
* `SnapshotHistory`: the invariant is `TypeOK`, `ListedHaveFiles` and
  `ThreadInv`: the index a thread holds in memory lists files that exist, the
  new one included from `SaveFile` on. Files are never removed, so it survives
  any interleaving.
* `RecordedStays`: with one writer (`Alone`) the temporary file is another one
  than the index and holds what its writer has in hand, so the rename puts
  exactly that in the index's place. `StayIn`, each recorded entry is listed or
  `Cap` entries are as new, then survives a save: `Upsert` replaces an entry by
  one of the same second and drops only the oldest of a list that is full. That
  a list has an oldest entry is the lemma `LeastNumber`.
* `RollbackAsPromised`: `PromiseInv`. Snapshot files are overwritten only by a
  snapshot of the same id. What the page offers is of earlier seconds than any
  command of the main thread that saves now (`MainFresh`), and an apply saves
  under a label of its own, in a second in which no other apply's entry is
  listed or shown (`ApplyFresh`). It supposes one apply thread and that no direct
  write uses the label of an apply, as in the code.
* `HistoryIsVersioned`: `TurnInv` follows the text in `openclaw.json` into the
  snapshot file, the index in hand and the index on disk. `RenameTmp` is `Save`
  of the abstract specification, `WriteConfig` is `Replace`, every other step
  stutters; `SavedCount` equates the number of entries with that of saved texts.
* `SshPool`: `TypeOK`, `PermitsConserved` and `OpInv(o)`: where an operation is
  decides whether its command has started. The retry is only reached where it
  has not.
* `RemoteApply`: `Inv` ties every job to the call that waits for it or shows
  it orphaned. `OnceInv`: what is queued while no apply executes, or still
  to come in a batch, is fresh: not started and not on its way. It needs
  `AloneInv`, one apply in progress where the page is the only way to one, and
  that none is cut short. `AskInv`: what
  each waiting call asks for, by the place of its apply. `TryInv`: under
  `Steady` (nothing given up or lost, one refusal at most) the one refusal has
  been spent when a put falls back to the shell, so the shell succeeds. From
  these `SnapInv` and `RestInv`, the snapshot and the restored file.
* `Watchdog`: `CalmInv`: the mounted page waits for the one start in progress,
  a process boots alone, the pid file names the one that has not been told to
  stop, and what a call has read of the pid file still holds. That a start that
  goes on has met no living process follows from `Found`, which finds more than
  those that live.
* `Doctor`: `SweptInv`: what a repair has pruned stays pruned, as only its own
  `Mark` could bring it back; `SavedInv`: what the fallback is about to replace
  is in its directory of failures; the fallback is reached only from a diagnosis
  that was not healthy.
* `BugReports`: `RateInv`: `waiting` is the length of the channel and what the
  sender and a test have in hand, and whoever adds to it has found room.
  `FlowInv`: `After(k)`, the files once `k` of the planned writes are done, are
  sound for every `k` (no report twice, or in two files, only what the server
  got filed as sent), which is what a stop between two files leaves; and what
  the flush and the sender have in hand is in the files they took it from. A
  write that fails leaves a file torn or as it was, which is `After(k)` again or
  a part of it, and the plan is dropped.
  `KeptInv` adds where a captured report is.
* `ReadCache`: `IInv`: the order of the map lists each key once, and a running
  request has a key. `HeldInv`: a running request is the one that its key's
  entry holds, so a second read joins it. It needs that nothing is evicted: a
  list without duplicates of keys that are read is no longer than their number,
  for which the keys are finite. `PinStands` needs only the types.

The assumptions are those the modules name. Most are bounds and distinct model
values; the others are that keys and calls are finite in number
(`KeysAssumption`, `OpsAssumption`), that the main thread is not an
apply's (`ThreadAssumption`), and that a torn index is no list of entries
(`TornAssumption`).

## 7. What is only model-checked

* Liveness (`GuardReleased`, `RecipeAnswered`, `CallsReturn`,
  `MissedIsHandled`, `SettlesFresh`): out of the prover's reach.

Every safety invariant, action property and refinement of the passing runs has
a theorem. Two things keep the models within the prover's reach: what takes an
element out of a sequence is `RemoveAt` at the place where it is, not a recursive
filter; and that a set of numbers has a least one follows from the well-founded
order of the subsets of an interval (`LeastNumber`), where an induction over
its size would have an operator as a parameter.

## 8. Where the code and its documents disagree

Shown by a run:

* `bad_second_apply`: the guard that is to prevent a second apply
  (`PendingChangesBar.tsx:120`) is lost when the Cook page unmounts the bar, and
  recipe executions do not look at it. The backend has no guard, and empties
  the queue only at the end: the commands of the first apply run again.
* `bad_lost_entry`: `add_snapshot` updates `metadata.json` without a lock, so a
  direct write beside an apply loses an entry, or the index
  (README.md:13: every config change is snapshotted).
* `bad_lost_is_ok`: a remote command whose channel ends without an exit status
  counts as exit status 0 (`ssh.rs:391`;
  docs/testing/business-flow-test-matrix.md:80: errors of remote commands must
  fail explicitly).
* `bad_recovered`: after a command of the temporary gateway timed out and the
  primary was found healthy all the same, the error is cleared
  (`commands/doctor_assistant.rs:4707`) but the old diagnosis is kept, and the
  fallback (`4780`) replaces the configuration reported as recovered (`3713`).

Known limits, behind the qualifications of the properties.

Local apply and history:

* The result of the write that restores `openclaw.json` is dropped
  (`cli_runner.rs:2399`, `2445`, `2475`), and the answer says rolled back all
  the same.
* So is that of `add_snapshot` in an apply (`cli_runner.rs:2354`):
  `Recoverable` needs snapshots that succeed.
* A direct write during a batch that fails is erased by the rollback and is in
  no snapshot: `Recoverable`, `OkKeepsChanges` and `AppliesAreAtomic` hold
  without direct writes.
* A read-through call that overlaps an apply can leave a value in the cache
  that was rolled back, for good when the key has no time to live
  (`commands/discovery.rs:1488`), and direct writes do not empty the cache.
* Two snapshots of one source in one second share id and file
  (`history.rs:97`): `RollbackKeepsPromise` needs a second between two, and one
  apply; two applies that save in one second meet the same.
* A text that does not parse is read as `{}` (`config_io.rs:71`), and saved as
  that before it is replaced.
* The snapshot a rollback saves is not offered by the History page
  (`History.tsx:170`): what a rollback replaced is saved but not one click away.
* All writers of `openclaw.json` share the temporary file `openclaw.tmp`
  (`config_io.rs:35`); the models write the file in one step.

* `__config_write__` and `__rollback__` replace the whole file by a text made
  when they were queued (`cli_runner.rs:1868-1871`): in a batch, or after other
  applies, they erase what has changed since, and the apply answers ok.
  `OkKeepsChanges` and `AppliesAreAtomic` say exactly that.
* Cutting the output of a command that has run, `text.truncate(800)`
  (`cli_runner.rs:1736`), panics inside a character of several bytes. The apply
  answers with an error and leaves its first changes in `openclaw.json`
  (docs/plans/2026-02-21-cli-based-config-design.md:109: restore from the
  snapshot, then return the error), with the queue kept and the cache not
  emptied: the next apply runs the same commands again, and a cached answer
  without a time to live stays stale. This is why `RunsInOrder`, `CacheCurrent`
  and `AppliesAreAtomic` are stated for behaviours without it. `Recoverable`,
  `OkKeepsChanges`, `CommandsAccounted` and `TakenOutNeverRuns` hold beside it.

Remote:

* The same panic ends a remote apply (`cli_runner.rs:3122-3129`, `3193-3200`),
  and its commands are started again by the next one: `StartedOnce` needs
  `cuts = 0`.
* The backend has no guard against a second apply of a host
  (`cli_runner.rs:2963-2976`): two start the same commands twice, and take
  snapshots under one name when they begin in one second. `StartedOnce`,
  `SnapshotStands` and `RestoredExactly` are stated for the bar's one apply.
* A host that falls silent without closing its connection keeps the permit of
  every call that opens a channel to it (`clawpal-core/src/ssh/mod.rs:151`: no
  timeout, no keepalive): two such calls block the host until the connection
  ends or is made anew, or until the callers that have a timeout give up.
* Every connect makes a semaphore of its own (`ssh.rs:232`), so calls from
  before a reconnect and calls after it can use four permits together.
* A remote command given up after its timeout can write `openclaw.json` after
  the rollback has been reported (docs/plans/2026-02-21-cli-based-config-design.md:117:
  can be restored exactly). `RestoredExactly` is stated for applies that give
  nothing up.
* The remote `metadata.json` is overwritten in place
  (`commands/config.rs:84`). Torn by a lost connection it is never replaced,
  as reading it fails, and the list of the history fails with it.

Watchdog:

* Two watchdogs run at once when a process boots slower than the page polls,
  when the page is left and opened again during a boot, or when a remote read,
  probe or kill fails (a start whose probe fails goes on, a stop whose kill
  fails removes the pid file: `commands/watchdog.rs:60-101`), against the single instance that `watchdog.js:90` means to ensure.
* When a deployment, or the start after it, fails, `pollUntilAlive` is not
  called, and the `finally` leaves `wdAction` to it (`Cron.tsx:186-188`): the
  buttons stay disabled until the page is left (`PressDeploy`, `Refused`).
* The application never waits for the watchdog it spawned
  (`watchdog_cmds.rs:120-128`). One that was killed stays a zombie, `kill -0`
  finds it, and a start answers that it runs and starts nothing
  (docs/plans/2026-02-21-cron-watchdog-design.md:74: abort if the existing
  process is alive), until the watchdog is stopped (`Found`).
* Retries that were used up for one trigger time count for the next one unless
  the job recovered between them: the next missed run may be tried fewer times
  than `MAX_RETRIES`.

Page cache:

* A poll that fails during a pin deletes the pinned value with the entry
  (`api-read-cache.ts:348`), and a late answer from before a change is shown
  until its time to live is up: `SettlesFresh` says it is overcome.

Bug reports:

* A report pending when the flush begins and still in the sender's channel is
  sent twice (it is filed once); the flush looks neither at the threshold nor
  at the limit per hour; capture writes to disk also when reporting is disabled.
* A stop between the writes of `pending` and `dead_letter` loses the reports
  that were on their way from one to the other: `NothingForgotten` needs an
  application that does not stop there.
* `write_jsonl` truncates a file before it writes it and may fail with the
  application going on (`bug_report/queue.rs:125-132`, and the `?` at 168,
  184-185, 228-230): reports of the file, or those that were to go to the next
  one, are forgotten. A capture whose report could not be filed sends it all the
  same (`collector.rs:266-276`) and does not keep it when that fails.
  `NothingForgotten` needs files that can be written; `FiledOnce` does not.

Doctor:

* A diagnosis after the first round prunes the temporary profile with its
  gateway, which the second round then lacks.
* A damaged file that cannot be read is saved as the empty text
  (`commands/doctor_assistant.rs:407`, `427`), then overwritten, while the step
  says "Saved damaged config to" (`795`). A marker that cannot be read over SSH
  counts as none.
* The fallback replaces a text fixed by a round whose command then failed, and
  one that another writer saved after the fallback had begun.
* A set-up that fails, or an application that stops, before the marker is
  written leaves a directory no prune recognises: `NothingLeft` speaks of marked
  ones.

## 9. What the models leave out

* `CommandApply`: previews, the content of commands (`String::truncate(80)`
  inside a character of a label is the error of `ReadBeforeError`, before any
  command has run). The
  write of `openclaw.json` is one step although its temporary file is shared.
* `SnapshotHistory`: the write of a snapshot file and of `openclaw.json` are
  one step each. `can_rollback` is true for every entry a model can contain.
  Entries of one second are dropped in either order. The cleanup of recipe
  artifacts before a rollback is left out.
* `SshPool`: one host; the russh backend only, not the legacy `ssh` binary;
  streaming is an exec; transfer counters and the `cat` fallback of `sftp_read`
  are left out. A session that the pool drops without closing stays alive.
* `RemoteApply`: internal commands other than `__config_write__`, the cached
  configuration text between commands, systemd commands, and the guard in front
  of the apply (in `CommandApply`). The back-off of SFTP is "after a time-out a
  put may go to the shell at once". An empty file counts as torn.
* `Watchdog`: cron expressions and time zones, logs, the status file, pids that
  are given to another process, a restart of the application (which would leave
  no zombie to find). A cycle takes its jobs in any order.
* `Doctor`: what a diagnosis finds and what the set-up of providers copies;
  `doctor-temp-gateways.json`, which decides nothing (only that writing it can
  fail is in the model); set-up commands on a host that time out and end later.
* `ReadCache`: the copy in `localStorage`, the subscribers of a key,
  `primeReadCache`, which nothing calls, and `use-cached-query.ts`, a second
  cache that no page uses.
* `BugReports`: the reports' text, the HTTP request, the log of failures, and a
  panic inside a change of the files, whose hook would take the same lock again.
* Not modelled at all, as section 2 and the components in `PROJECT.json` say:
  install sessions, the store of recipe runs and previews repeat hazards that
  other models have, or change nothing that lasts; rescue commands, gateway and
  bridge clients, backup, profiles, instances, discovery and the command line
  tool are sequences of external calls or translations of documents without
  state between them. The models therefore cover a small part of the lines of
  the repository: the part in which one step depends on another's.
