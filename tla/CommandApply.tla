---------------------------- MODULE CommandApply ----------------------------
(***************************************************************************)
(* The local pending-command queue, the apply that executes it against     *)
(* openclaw.json, the automatic rollback, the read cache over the CLI and  *)
(* the user-interface guard in front of the apply                          *)
(* (src-tauri/src/cli_runner.rs, commands/discovery.rs, commands/mod.rs,   *)
(* components/PendingChangesBar.tsx, pages/Cook.tsx).                      *)
(*                                                                         *)
(* The configuration is the set of changes it contains: a command, or a    *)
(* direct write, is named by the change it makes.  Commands of Wholes      *)
(* (__config_write__, __rollback__) replace openclaw.json by a text made   *)
(* when they were queued, all others change it where they find it.         *)
(* Commands of FileCmds write other files (personas, markdown, systemd     *)
(* drop-ins), which no rollback touches, and leave openclaw.json alone.    *)
(***************************************************************************)
EXTENDS Naturals, Sequences, FiniteSets

CONSTANTS
  Cmds,             \* every command a user or a recipe may queue (its id)
  FileCmds,         \* those that write files other than openclaw.json
  Wholes,           \* those that write all of openclaw.json
  UiApplies,        \* presses of "Apply" in the pending-changes bar
  CookApplies,      \* recipe executions
  Plan,             \* the commands each recipe execution queues, in order
  Writers,          \* direct configuration writes that bypass the queue
  Readers,          \* calls of the read-through list commands
  Keys,             \* the keys of the read cache
  TtlKeys,          \* the keys read with a time to live
  Mixes,            \* what may happen besides, in one behaviour or another
  MaxQueued,        \* bound: commands queued, those of the plans included
  MaxApplies,       \* bound: applies and recipe executions started
  MaxRemounts,      \* bound: remounts of the pending-changes bar
  MaxCrashes,       \* bound: crashes of the application
  NoApply           \* the bar waits for no apply

Applies == UiApplies \cup CookApplies
CfgCmds == Cmds \ FileCmds
Changes == CfgCmds \cup Writers

\* A recipe is executed, the bar is remounted, the configuration is written
\* directly, the cache is read, a restore or a snapshot fails, the output of
\* a command cannot be cut, the application crashes.
Disturbances == {"cook", "remount", "write", "read", "restore", "snapshot",
                 "cut", "crash"}

ASSUME SetsAssumption ==
  /\ FileCmds \subseteq Cmds
  /\ Wholes \subseteq Cmds \ FileCmds
  /\ Cmds \cap Writers = {}
  /\ UiApplies \cap CookApplies = {}
  /\ TtlKeys \subseteq Keys
  /\ NoApply \notin Applies
ASSUME MixesAssumption == Mixes \subseteq SUBSET Disturbances
ASSUME PlanAssumption == Plan \in [CookApplies -> Seq(Cmds)]
ASSUME BoundsAssumption ==
  /\ MaxQueued \in Nat
  /\ MaxApplies \in Nat
  /\ MaxRemounts \in Nat
  /\ MaxCrashes \in Nat

VARIABLES
  mix,        \* the disturbances of this behaviour, chosen at its start
  queue,      \* CommandQueue.commands
  text,       \* the text a whole-file command was queued with
  cfg,        \* openclaw.json: the changes it contains
  snaps,      \* the configurations kept as snapshots
  pc,         \* where each apply is
  batch,      \* the commands it listed
  before,     \* config_before
  done,       \* applied_count
  res,        \* what it returned
  bar,        \* applyInFlightRef: the apply the mounted bar waits for
  planned,    \* how much of its plan a recipe execution has queued
  cache,      \* CliCache: {} is a miss, {v} a hit with value v
  reader,     \* the read-through calls in progress
  writer,     \* the direct writes in progress
  remounts, crashes,
  \* history: what the properties talk about, no part of the program
  accepted,   \* every command the queue ever accepted, in order
  ran,        \* every command started, in order
  taken,      \* how the user took a command out: "no", "early", "listed"
  late,       \* commands queued while an apply was running
  committed,  \* the configuration the last finished change left
  overlapped  \* whether a read-through ever overlapped an apply

queueVars == <<queue, text, accepted, late, taken>>
diskVars  == <<cfg, snaps, committed>>
applyVars == <<pc, batch, before, done, res, ran>>
uiVars    == <<bar, planned, remounts>>
readVars  == <<cache, reader, overlapped>>
otherVars == <<mix, writer, crashes>>
vars == <<queueVars, diskVars, applyVars, uiVars, readVars, otherVars>>

Elems(s) == {s[i] : i \in DOMAIN s}

\* The sequence s without its element i.
Without(s, i) ==
  [j \in 1 .. (Len(s) - 1) |-> IF j < i THEN s[j] ELSE s[j + 1]]

\* From the moment it has its list until it is about to return.
Busy == {"listed", "snapshot", "exec", "restore", "failed", "cleared"}
Running(a) == pc[a] \in Busy
AnyRunning == \E a \in Applies : Running(a)

\* Between the read of config_before and the end of its work on the file.
Open(a) == pc[a] \in {"snapshot", "exec", "restore"}

Reading(r) == reader[r].pc # "idle"

\* Commands declared without async run on the main thread, one at a time.
MainThreadFree == \A w \in Writers : writer[w].pc # "read"

IdleReader == [pc |-> "idle", key |-> {}, val |-> {}]
IdleWriter == [pc |-> "idle", text |-> {}]

Init ==
  /\ mix \in Mixes
  /\ queue = <<>> /\ cfg = {} /\ snaps = {}
  /\ pc = [a \in Applies |-> "idle"]
  /\ batch = [a \in Applies |-> <<>>]
  /\ before = [a \in Applies |-> {}]
  /\ done = [a \in Applies |-> 0]
  /\ res = [a \in Applies |-> "none"]
  /\ bar = NoApply
  /\ planned = [a \in CookApplies |-> 0]
  /\ cache = [k \in Keys |-> {}]
  /\ reader = [r \in Readers |-> IdleReader]
  /\ writer = [w \in Writers |-> IdleWriter]
  /\ remounts = 0 /\ crashes = 0
  /\ text = [c \in Cmds |-> {}]
  /\ accepted = <<>> /\ ran = <<>> /\ late = {} /\ committed = {}
  /\ taken = [c \in Cmds |-> "no"]
  /\ overlapped = FALSE

-----------------------------------------------------------------------------
(* The queue.                                                              *)

\* The text of a whole-file command: the file as it is with one change, or
\* that of a snapshot.
Texts(c) == IF c \in Wholes THEN {cfg \cup {c}} \cup snaps ELSE {{}}

\* CommandQueue::enqueue: a fresh id, pushed at the end.
Push(c) ==
  /\ c \notin Elems(accepted)
  /\ \E t \in Texts(c) : text' = [text EXCEPT ![c] = t]
  /\ queue' = Append(queue, c)
  /\ accepted' = Append(accepted, c)
  /\ late' = IF AnyRunning THEN late \cup {c} ELSE late

PlanCmds == UNION {Elems(Plan[a]) : a \in CookApplies}
\* The bound named by MaxQueued.
Room == LET planCmds == IF "cook" \in mix THEN PlanCmds ELSE {}
        IN  Cardinality(Elems(accepted) \cup planCmds) < MaxQueued

\* queue_command: any page may queue a command at any time.
QueueCommand(c) ==
  /\ MainThreadFree
  /\ c \notin PlanCmds
  /\ Room
  /\ Push(c)
  /\ UNCHANGED <<taken, diskVars, applyVars, uiVars, readVars, otherVars>>

\* A command is taken out in time when no running apply has listed it and no
\* apply has started it (one that was cut short leaves it in the queue).
Listed == UNION {Elems(batch[a]) : a \in {b \in Applies : Running(b)}}
TakeOut(S) ==
  taken' = [c \in Cmds |-> IF c \notin S THEN taken[c] ELSE
                           IF c \in Listed \cup Elems(ran) THEN "listed" ELSE "early"]

\* Mutant: the first command goes, whichever was asked for.
RemoveQueuedFirst(c) ==
  /\ MainThreadFree
  /\ c \in Elems(queue)
  /\ queue' = Tail(queue)
  /\ TakeOut({c})
  /\ UNCHANGED <<text, accepted, late, diskVars, applyVars, uiVars, readVars,
                 otherVars>>

\* remove_queued_command: retain every other command (ids are unique).
RemoveQueued(c) ==
  /\ MainThreadFree
  /\ \E i \in DOMAIN queue : queue[i] = c /\ queue' = Without(queue, i)
  /\ TakeOut({c})
  /\ UNCHANGED <<text, accepted, late, diskVars, applyVars, uiVars, readVars,
                 otherVars>>

\* discard_queued_commands: clear the queue, whatever it holds by then.
DiscardQueued ==
  /\ MainThreadFree
  /\ queue # <<>>
  /\ queue' = <<>>
  /\ TakeOut(Elems(queue))
  /\ UNCHANGED <<text, accepted, late, diskVars, applyVars, uiVars, readVars,
                 otherVars>>

-----------------------------------------------------------------------------
(* The two ways into an apply.                                             *)

\* The bound named by MaxApplies.
MoreApplies == Cardinality({a \in Applies : pc[a] # "idle"}) < MaxApplies

\* Mutant: no guard on an apply already in flight.
UiApplyUnguarded(a) ==
  /\ a \in UiApplies
  /\ pc[a] = "idle" /\ MoreApplies
  /\ bar' = a
  /\ pc' = [pc EXCEPT ![a] = "called"]
  /\ UNCHANGED <<queueVars, diskVars, batch, before, done, res, ran,
                 planned, remounts, readVars, otherVars>>

\* handleApply: refused while the bar waits for an earlier apply.
UiApply(a) ==
  /\ a \in UiApplies
  /\ pc[a] = "idle" /\ MoreApplies
  /\ bar = NoApply
  /\ bar' = a
  /\ pc' = [pc EXCEPT ![a] = "called"]
  /\ UNCHANGED <<queueVars, diskVars, batch, before, done, res, ran,
                 planned, remounts, readVars, otherVars>>

\* The route "cook" unmounts the bar; a bar mounted later has a new ref.
Remount ==
  /\ "remount" \in mix
  /\ remounts < MaxRemounts
  /\ remounts' = remounts + 1
  /\ bar' = NoApply
  /\ UNCHANGED <<queueVars, diskVars, applyVars, planned, readVars,
                 otherVars>>

\* execute_recipe: the Cook page does not look at the bar's guard.
CookExecute(a) ==
  /\ "cook" \in mix
  /\ a \in CookApplies
  /\ pc[a] = "idle" /\ MoreApplies
  /\ pc' = [pc EXCEPT ![a] = "plan"]
  /\ UNCHANGED <<queueVars, diskVars, batch, before, done, res, ran, uiVars,
                 readVars, otherVars>>

\* enqueue_materialized_plan: one enqueue, and one lock, per command.
CookEnqueue(a) ==
  /\ a \in CookApplies
  /\ pc[a] = "plan"
  /\ planned[a] < Len(Plan[a])
  /\ Push(Plan[a][planned[a] + 1])
  /\ planned' = [planned EXCEPT ![a] = @ + 1]
  /\ UNCHANGED <<taken, diskVars, applyVars, bar, remounts, readVars,
                 otherVars>>

CookCall(a) ==
  /\ a \in CookApplies
  /\ pc[a] = "plan"
  /\ planned[a] = Len(Plan[a])
  /\ pc' = [pc EXCEPT ![a] = "called"]
  /\ UNCHANGED <<queueVars, diskVars, batch, before, done, res, ran, uiVars,
                 readVars, otherVars>>

-----------------------------------------------------------------------------
(* apply_queued_commands_with_services.                                    *)

Return(a, r) ==
  /\ pc' = [pc EXCEPT ![a] = "returned"]
  /\ res' = [res EXCEPT ![a] = r]

\* queue.list(): a copy, the lock is released at once.
List(a) ==
  /\ pc[a] = "called"
  /\ queue # <<>>
  /\ batch' = [batch EXCEPT ![a] = queue]
  /\ pc' = [pc EXCEPT ![a] = "listed"]
  /\ overlapped' = (overlapped \/ \E r \in Readers : Reading(r))
  /\ UNCHANGED <<queueVars, diskVars, before, done, res, ran, uiVars, cache,
                 reader, otherVars>>

\* Mutant: the answer is none of the answers the caller knows.
ListNothingFailed(a) ==
  /\ pc[a] = "called"
  /\ queue = <<>>
  /\ Return(a, "failed")
  /\ UNCHANGED <<queueVars, diskVars, batch, before, done, ran, uiVars,
                 readVars, otherVars>>

\* Mutant: an apply without commands waits for one.
ListNothingWaits(a) ==
  /\ pc[a] = "called"
  /\ queue = <<>>
  /\ UNCHANGED vars

\* "No pending commands to apply".
ListNothing(a) ==
  /\ pc[a] = "called"
  /\ queue = <<>>
  /\ Return(a, "nothing")
  /\ UNCHANGED <<queueVars, diskVars, batch, before, done, ran, uiVars,
                 readVars, otherVars>>

\* config_before = read_text(config_path)?
ReadBefore(a) ==
  /\ pc[a] = "listed"
  /\ before' = [before EXCEPT ![a] = cfg]
  /\ pc' = [pc EXCEPT ![a] = "snapshot"]
  /\ UNCHANGED <<queueVars, diskVars, batch, done, res, ran, uiVars,
                 readVars, otherVars>>

\* Mutant: the queue is cleared on this early return as on the others.
ReadBeforeErrorClears(a) ==
  /\ pc[a] = "listed"
  /\ queue' = <<>>
  /\ Return(a, "error")
  /\ UNCHANGED <<text, accepted, late, taken, diskVars, batch, before, done, ran,
                 uiVars, readVars, otherVars>>

\* The read fails, or the summary cannot be cut at byte 80: the apply ends
\* with an error before any command ran, and the queue is kept.
ReadBeforeError(a) ==
  /\ pc[a] = "listed"
  /\ Return(a, "error")
  /\ UNCHANGED <<queueVars, diskVars, batch, before, done, ran, uiVars,
                 readVars, otherVars>>

\* Mutant: no snapshot while there is one already.
AddSnapshotOnce(a) ==
  /\ pc[a] = "snapshot"
  /\ snaps' = IF snaps = {} THEN {before[a]} ELSE snaps
  /\ pc' = [pc EXCEPT ![a] = "exec"]
  /\ UNCHANGED <<queueVars, cfg, committed, batch, before, done, res, ran,
                 uiVars, readVars, otherVars>>

\* let _ = add_snapshot(..): a failure is not noticed.
AddSnapshot(a) ==
  /\ pc[a] = "snapshot"
  /\ \/ snaps' = snaps \cup {before[a]}
     \/ "snapshot" \in mix /\ snaps' = snaps
  /\ pc' = [pc EXCEPT ![a] = "exec"]
  /\ UNCHANGED <<queueVars, cfg, committed, batch, before, done, res, ran,
                 uiVars, readVars, otherVars>>

\* What a command does where it writes: the edit it makes, and the file after.
EditOf(c) == [whole |-> c \in Wholes,
              text  |-> IF c \in Wholes THEN text[c] ELSE {c} \cap CfgCmds]
Effect(c) == cfg' = IF EditOf(c).whole THEN EditOf(c).text
                                       ELSE cfg \cup EditOf(c).text

NextCmd(a) == batch[a][done[a] + 1]

\* One command of the batch succeeds.
ExecOk(a) ==
  /\ pc[a] = "exec"
  /\ done[a] < Len(batch[a])
  /\ Effect(NextCmd(a))
  /\ ran' = Append(ran, NextCmd(a))
  /\ done' = [done EXCEPT ![a] = @ + 1]
  /\ UNCHANGED <<queueVars, snaps, committed, pc, batch, before, res,
                 uiVars, readVars, otherVars>>

\* One command fails, before or after it wrote.
ExecFail(a) ==
  /\ pc[a] = "exec"
  /\ done[a] < Len(batch[a])
  /\ Effect(NextCmd(a)) \/ cfg' = cfg
  /\ ran' = Append(ran, NextCmd(a))
  /\ pc' = [pc EXCEPT ![a] = "restore"]
  /\ UNCHANGED <<queueVars, snaps, committed, batch, before, done, res,
                 uiVars, readVars, otherVars>>

\* One command has written or not and succeeded or failed, and its output is
\* cut at byte 800 for the step's summary, inside a character: the thread
\* panics.  The call ends with the error of the join, nothing is restored and
\* the queue and the cache are left as they are.  (The whole-file commands
\* have no output.)
ExecCut(a) ==
  /\ "cut" \in mix
  /\ pc[a] = "exec"
  /\ done[a] < Len(batch[a])
  /\ NextCmd(a) \notin Wholes
  /\ Effect(NextCmd(a)) \/ cfg' = cfg
  /\ ran' = Append(ran, NextCmd(a))
  /\ Return(a, "error")
  /\ UNCHANGED <<queueVars, snaps, committed, batch, before, done, uiVars,
                 readVars, otherVars>>

\* Mutant: no restore when the first command failed ("nothing was applied").
RestoreLater(a) ==
  /\ pc[a] = "restore"
  /\ cfg' = IF done[a] = 0 THEN cfg ELSE before[a]
  /\ pc' = [pc EXCEPT ![a] = "failed"]
  /\ UNCHANGED <<queueVars, snaps, committed, batch, before, done, res, ran,
                 uiVars, readVars, otherVars>>

\* let _ = write_text(config_path, config_before): a failure is not noticed.
Restore(a) ==
  /\ pc[a] = "restore"
  /\ \/ cfg' = before[a]
     \/ "restore" \in mix /\ cfg' = cfg
  /\ pc' = [pc EXCEPT ![a] = "failed"]
  /\ UNCHANGED <<queueVars, snaps, committed, batch, before, done, res, ran,
                 uiVars, readVars, otherVars>>

\* queue.clear() and the answer { ok: false, rolled_back: true }.
ClearFailed(a) ==
  /\ pc[a] = "failed"
  /\ queue' = <<>>
  /\ Return(a, "rolled_back")
  /\ UNCHANGED <<text, accepted, late, taken, diskVars, batch, before, done, ran,
                 uiVars, readVars, otherVars>>

\* Mutant: the queue is left alone after a success.
ClearOkKeepsQueue(a) ==
  /\ pc[a] = "exec"
  /\ done[a] = Len(batch[a])
  /\ committed' = cfg
  /\ pc' = [pc EXCEPT ![a] = "cleared"]
  /\ UNCHANGED <<queueVars, cfg, snaps, batch, before, done, res, ran,
                 uiVars, readVars, otherVars>>

\* Mutant: the loop ends one command early.
ClearOkOneShort(a) ==
  /\ pc[a] = "exec"
  /\ done[a] + 1 >= Len(batch[a])
  /\ queue' = <<>>
  /\ committed' = cfg
  /\ pc' = [pc EXCEPT ![a] = "cleared"]
  /\ UNCHANGED <<text, accepted, late, taken, cfg, snaps, batch, before, done,
                 res, ran, uiVars, readVars, otherVars>>

\* Every command succeeded: queue.clear().
ClearOk(a) ==
  /\ pc[a] = "exec"
  /\ done[a] = Len(batch[a])
  /\ queue' = <<>>
  /\ committed' = cfg
  /\ pc' = [pc EXCEPT ![a] = "cleared"]
  /\ UNCHANGED <<text, accepted, late, taken, cfg, snaps, batch, before, done,
                 res, ran, uiVars, readVars, otherVars>>

\* Mutant: entries that expire by themselves are kept.
InvalidateLasting(a) ==
  /\ pc[a] = "cleared"
  /\ cache' = [k \in Keys |-> IF k \in TtlKeys THEN cache[k] ELSE {}]
  /\ pc' = [pc EXCEPT ![a] = "restarting"]
  /\ UNCHANGED <<queueVars, diskVars, batch, before, done, res, ran, uiVars,
                 reader, overlapped, otherVars>>

\* cache.invalidate_all().
Invalidate(a) ==
  /\ pc[a] = "cleared"
  /\ cache' = [k \in Keys |-> {}]
  /\ pc' = [pc EXCEPT ![a] = "restarting"]
  /\ UNCHANGED <<queueVars, diskVars, batch, before, done, res, ran, uiVars,
                 reader, overlapped, otherVars>>

\* gateway restart, best effort, and the answer { ok: true }.
RestartGateway(a) ==
  /\ pc[a] = "restarting"
  /\ Return(a, "ok")
  /\ UNCHANGED <<queueVars, diskVars, batch, before, done, ran, uiVars,
                 readVars, otherVars>>

\* Mutant: the guard is released where the answer is handled, not finally.
SettleOnAnswer(a) ==
  /\ pc[a] = "returned"
  /\ pc' = [pc EXCEPT ![a] = "settled"]
  /\ bar' = IF bar = a /\ res[a] \in {"ok", "rolled_back"} THEN NoApply ELSE bar
  /\ UNCHANGED <<queueVars, diskVars, batch, before, done, res, ran,
                 planned, remounts, readVars, otherVars>>

\* The promise settles: the bar that made the call, if it still waits for
\* this apply, releases its guard.
Settle(a) ==
  /\ pc[a] = "returned"
  /\ pc' = [pc EXCEPT ![a] = "settled"]
  /\ bar' = IF bar = a THEN NoApply ELSE bar
  /\ UNCHANGED <<queueVars, diskVars, batch, before, done, res, ran,
                 planned, remounts, readVars, otherVars>>

-----------------------------------------------------------------------------
(* The read-through cache.                                                 *)

\* CliCache::get misses: no entry, or one older than the time to live.
ReadMiss(r, k) ==
  /\ "read" \in mix
  /\ ~Reading(r)
  /\ cache[k] = {} \/ k \in TtlKeys
  /\ reader' = [reader EXCEPT ![r] = [pc |-> "miss", key |-> {k}, val |-> {}]]
  /\ overlapped' = (overlapped \/ AnyRunning)
  /\ UNCHANGED <<queueVars, diskVars, applyVars, uiVars, cache, otherVars>>

\* The CLI, or the fallback read, answers from the file as it is now.
ReadCli(r) ==
  /\ reader[r].pc = "miss"
  /\ reader' = [reader EXCEPT ![r] =
                [pc |-> "answered", key |-> @.key, val |-> cfg]]
  /\ UNCHANGED <<queueVars, diskVars, applyVars, uiVars, cache, overlapped,
                 otherVars>>

\* The CLI fails, or finds nothing: nothing is cached.
ReadCliError(r) ==
  /\ reader[r].pc = "miss"
  /\ reader' = [reader EXCEPT ![r] = IdleReader]
  /\ UNCHANGED <<queueVars, diskVars, applyVars, uiVars, cache, overlapped,
                 otherVars>>

\* CliCache::set, however long ago the answer was read.
CacheSet(r) ==
  /\ reader[r].pc = "answered"
  /\ cache' = [k \in Keys |-> IF k \in reader[r].key THEN {reader[r].val}
                              ELSE cache[k]]
  /\ reader' = [reader EXCEPT ![r] = IdleReader]
  /\ UNCHANGED <<queueVars, diskVars, applyVars, uiVars, overlapped,
                 otherVars>>

-----------------------------------------------------------------------------
(* Direct writes: set_agent_model, set_global_model, delete_agent, ...     *)

\* read_openclaw_config, then the change is made in memory.
WriterRead(w) ==
  /\ MainThreadFree
  /\ writer[w].pc = "idle"
  /\ writer' = [writer EXCEPT ![w] = [pc |-> "read", text |-> cfg]]
  /\ UNCHANGED <<queueVars, diskVars, applyVars, uiVars, readVars, mix,
                 crashes>>

\* write_config_with_snapshot: the snapshot must succeed, then the text read
\* earlier is written with the change.
WriterWrite(w) ==
  /\ writer[w].pc = "read"
  /\ snaps' = snaps \cup {writer[w].text}
  /\ cfg' = writer[w].text \cup {w}
  /\ committed' = cfg'
  /\ writer' = [writer EXCEPT ![w].pc = "written"]
  /\ UNCHANGED <<queueVars, applyVars, uiVars, readVars, mix,
                 crashes>>

\* add_snapshot(..)?: the command fails and nothing is written.
WriterSnapshotError(w) ==
  /\ "snapshot" \in mix
  /\ writer[w].pc = "read"
  /\ writer' = [writer EXCEPT ![w].pc = "written"]
  /\ UNCHANGED <<queueVars, diskVars, applyVars, uiVars, readVars, mix,
                 crashes>>

-----------------------------------------------------------------------------
\* The application dies and is started again: the queue and the cache are in
\* memory only, the files and the snapshots are not.
Crash ==
  /\ "crash" \in mix
  /\ crashes < MaxCrashes
  /\ crashes' = crashes + 1
  /\ queue' = <<>>
  /\ cache' = [k \in Keys |-> {}]
  /\ reader' = [r \in Readers |-> IdleReader]
  /\ writer' = [w \in Writers |-> IF writer[w].pc = "read" THEN IdleWriter
                                  ELSE writer[w]]
  /\ pc' = [a \in Applies |-> IF pc[a] = "idle" THEN "idle" ELSE
                              IF pc[a] = "settled" THEN "settled" ELSE "dead"]
  /\ bar' = NoApply
  /\ UNCHANGED <<text, accepted, late, taken, diskVars, batch, before, done, res,
                 ran, planned, remounts, overlapped, mix>>

ApplyStep(a) ==
  \/ CookEnqueue(a) \/ CookCall(a)
  \/ List(a) \/ ListNothing(a) \/ ReadBefore(a) \/ ReadBeforeError(a)
  \/ AddSnapshot(a) \/ ExecOk(a) \/ ExecFail(a) \/ ExecCut(a)
  \/ Restore(a) \/ ClearFailed(a) \/ ClearOk(a) \/ Invalidate(a) \/ RestartGateway(a)
  \/ Settle(a)

ReaderStep(r) == ReadCli(r) \/ ReadCliError(r) \/ CacheSet(r)

WriterStep(w) ==
  /\ "write" \in mix
  /\ WriterRead(w) \/ WriterWrite(w) \/ WriterSnapshotError(w)

Next ==
  \/ \E c \in Cmds : QueueCommand(c) \/ RemoveQueued(c)
  \/ DiscardQueued
  \/ \E a \in Applies : UiApply(a) \/ CookExecute(a) \/ ApplyStep(a)
  \/ Remount
  \/ \E r \in Readers : ReaderStep(r) \/ \E k \in Keys : ReadMiss(r, k)
  \/ \E w \in Writers : WriterStep(w)
  \/ Crash

Spec == Init /\ [][Next]_vars

\* The apply runs on a thread of its own and every subprocess it waits for is
\* assumed to exit; the promise of a call that returned settles.
Fairness == \A a \in Applies : WF_vars(ApplyStep(a))
FairSpec == Spec /\ Fairness

-----------------------------------------------------------------------------
(* Type invariant.                                                         *)

Pcs == Busy \cup {"idle", "plan", "called", "restarting", "returned",
                  "settled", "dead"}
Answers == {"none", "nothing", "error", "ok", "rolled_back"}

QueueTypes == /\ queue \in Seq(Cmds)
              /\ text \in [Cmds -> SUBSET Changes]
              /\ accepted \in Seq(Cmds)
              /\ late \in SUBSET Cmds
              /\ taken \in [Cmds -> {"no", "early", "listed"}]

DiskTypes == /\ cfg \in SUBSET Changes
             /\ snaps \in SUBSET SUBSET Changes
             /\ committed \in SUBSET Changes

ApplyTypes == /\ pc \in [Applies -> Pcs]
              /\ batch \in [Applies -> Seq(Cmds)]
              /\ before \in [Applies -> SUBSET Changes]
              /\ done \in [Applies -> Nat]
              /\ res \in [Applies -> Answers]
              /\ ran \in Seq(Cmds)

UiTypes == /\ bar \in UiApplies \cup {NoApply}
           /\ planned \in [CookApplies -> Nat]
           /\ remounts \in Nat

ReaderStates == [pc : {"idle", "miss", "answered"},
                 key : SUBSET Keys, val : SUBSET Changes]

ReadTypes == /\ cache \in [Keys -> SUBSET SUBSET Changes]
             /\ reader \in [Readers -> ReaderStates]
             /\ overlapped \in BOOLEAN

WriterStates == [pc : {"idle", "read", "written"}, text : SUBSET Changes]

OtherTypes == /\ mix \in Mixes
              /\ writer \in [Writers -> WriterStates]
              /\ crashes \in Nat

\* Every variable holds a value of the kind the program keeps there.
TypeOK == /\ QueueTypes
          /\ DiskTypes
          /\ ApplyTypes
          /\ UiTypes
          /\ ReadTypes
          /\ OtherTypes

-----------------------------------------------------------------------------
(* Safety.                                                                 *)

\* The disturbances decide what can be promised.  The bar's guard is the only
\* one in front of an apply when no recipe is executed and the bar stays.
Guarded == mix \cap {"cook", "remount"} = {}
\* And nothing but the applies writes openclaw.json.
Alone == Guarded /\ "write" \notin mix
\* And no apply is cut short.
Uncut == "cut" \notin mix

Position(c) == CHOOSE i \in DOMAIN accepted : accepted[i] = c

\* Commands run in the order they were queued, and none runs twice, over all
\* the applies of a session (the queue is "ordered, executed in the order of
\* addition": CommandQueue and the loop of apply_queued_commands).  An apply
\* that is cut short keeps its queue, and the next one starts over.
RunsInOrder == Guarded /\ Uncut =>
  \A i, j \in DOMAIN ran : i < j => Position(ran[i]) < Position(ran[j])

\* No command is lost: one that was accepted is still queued, or has run, or
\* was taken out by the user, or was in the batch of an apply that runs or
\* that was rolled back, or was queued while an apply was running (the clear
\* at the end of an apply empties the queue, not only the batch).
CommandsAccounted == crashes = 0 =>
  \A c \in Elems(accepted) :
    \/ c \in Elems(queue) \cup Elems(ran) \cup late
    \/ taken[c] # "no"
    \/ \E a \in Applies : /\ c \in Elems(batch[a])
                          /\ Running(a) \/ res[a] = "rolled_back"

\* A command the user removed or discarded before an apply listed it never
\* runs, whatever the interleaving of the removal with the applies.
TakenOutNeverRuns == \A c \in Elems(ran) : taken[c] # "early"

\* What the file holds after the first n commands of a batch: the text of the
\* last whole-file command among them, or the file before the batch, and the
\* changes of the commands after it.
MadeBy(a, i) == IF i = 0 THEN before[a] ELSE EditOf(batch[a][i]).text
Since(a, n) == {i \in 0 .. n : \A j \in (i + 1) .. n : batch[a][j] \notin Wholes}
Result(a, n) == UNION {MadeBy(a, i) : i \in Since(a, n)}

\* When an apply answers ok, openclaw.json is exactly what its batch makes of
\* the file it started from: no change is missing that a whole-file write
\* later in the batch did not replace, none was added, and no other apply or
\* restore has undone one by the time the answer is delivered.
OkKeepsChanges == Alone =>
  \A a \in Applies :
    pc[a] = "returned" /\ res[a] = "ok" => cfg = Result(a, Len(batch[a]))

\* No second apply races a first one: "keep the in-flight guard until the
\* request actually settles to prevent a second apply from racing"
\* (PendingChangesBar.tsx:120-122).
Exclusive == \A a, b \in Applies : Running(a) /\ Running(b) => a = b

\* The guard of the bar lets one apply at a time near the configuration.
OneApplyAtATime == Guarded => Exclusive

Kept == cfg = committed \/ committed \in snaps

\* The configuration the last finished change left is in place, or can be
\* had back: it is among the snapshots.  This is what a restart after a crash
\* in the middle of a batch, or a failed restore, relies on.
Recoverable == Alone /\ "snapshot" \notin mix => Kept

\* The cache only holds answers that are current, as long as no read-through
\* call ever overlapped an apply: invalidate_all empties it after every apply
\* that changed something, and a rollback that restored the file leaves
\* nothing to invalidate.  (Direct writes do not invalidate it, nor does an
\* apply that is cut short.)
CacheCurrent ==
  /\ Alone /\ Uncut /\ "restore" \notin mix
  /\ ~overlapped /\ ~AnyRunning
  => \A k \in Keys : cache[k] \subseteq {cfg}

-----------------------------------------------------------------------------
(* Refinement: an apply is a transaction on openclaw.json.                 *)

Todo(a) == [i \in 1 .. (Len(batch[a]) - done[a]) |-> EditOf(batch[a][done[a] + i])]

Store == IF \E a \in Applies : Open(a)
         THEN before[CHOOSE a \in Applies : Open(a)] ELSE cfg
Pending == IF \E a \in Applies : Open(a)
           THEN Todo(CHOOSE a \in Applies : Open(a)) ELSE <<>>

\* Where a batch is a transaction; where it is not, the mapping stands still.
Atomic == Alone /\ mix \cap {"restore", "cut", "crash"} = {}

Transaction == INSTANCE AtomicApply WITH
  store <- IF Atomic THEN Store ELSE {},
  work <- IF Atomic THEN cfg ELSE {},
  todo <- IF Atomic THEN Pending ELSE <<>>,
  open <- Atomic /\ \E a \in Applies : Open(a)

\* Seen from outside, a batch changes openclaw.json entirely or not at all,
\* when no direct write, no second apply, no failed restore, no panic over an
\* output and no crash interferes.
AppliesAreAtomic == Transaction!Spec

-----------------------------------------------------------------------------
(* Liveness, under Fairness.                                               *)

\* A press of "Apply" always gets an answer, and the bar is usable again:
\* every way out of the apply, errors included, settles the promise.
GuardReleased == \A a \in UiApplies : bar = a ~> bar # a

\* A recipe execution, too, always gets an answer.
RecipeAnswered == \A a \in CookApplies : pc[a] = "plan" ~> pc[a] = "settled"
=============================================================================
