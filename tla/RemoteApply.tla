---------------------------- MODULE RemoteApply ----------------------------
(***************************************************************************)
(* Applying the pending commands of a remote host (cli_runner.rs): the     *)
(* queue is in the application, openclaw.json and its snapshots are on the *)
(* host, and between them is an SSH connection that refuses channels, is   *)
(* lost and does not answer.                                               *)
(*                                                                         *)
(* What the application has started on the host is a job, and goes on when *)
(* nobody waits for it any more.  A command reads openclaw.json and writes *)
(* it with its change; a put (sftp_write) empties its file and fills it.   *)
(* A text of openclaw.json is the set of changes it contains, one of the   *)
(* index the set of applies it lists.                                      *)
(***************************************************************************)
EXTENDS Naturals, Sequences

CONSTANTS
  Cmds,         \* the commands the user may queue, named by their change
  Writes,       \* those that are __config_write__: {c} is their whole text
  Applies,      \* presses of "Apply" and recipe executions
  None,         \* no apply, no command
  Torn,         \* the content of a file that was not written to its end
  MaxRefused,   \* bound: calls that fail before anything has started
  MaxTimeouts,  \* bound: calls given up (after 5, 25 or 30 s in the code)
  MaxLosses,    \* bound: calls whose connection is lost
  MaxCuts,      \* bound: outputs of commands that cannot be cut
  MaxCrashes,   \* bound: stops of the application
  MaxFaults     \* bound: all of these together

ASSUME SetsAssumption ==
  /\ Writes \subseteq Cmds
  /\ None \notin Applies \cup Cmds
ASSUME BoundAssumption ==
  {MaxRefused, MaxTimeouts, MaxLosses, MaxCuts, MaxCrashes, MaxFaults} \subseteq Nat

VARIABLES
  guarded,    \* whether the bar's guard is the only way to an apply
  queue,      \* RemoteCommandQueues.queues[host]
  config,     \* openclaw.json on the host
  snap,       \* the snapshot file of each apply
  index,      \* metadata.json on the host
  jobs,       \* what runs on the host
  pc, batch, before, done, res,    \* the applies, as in CommandApply
  call,       \* the call each apply waits for
  refused, timeouts, losses, cuts, crashes,
  \* history, no part of the program
  last,       \* the apply that listed the queue last
  accepted,   \* commands ever queued
  ended,      \* commands the host has run to their end, with exit status 0
  started     \* how often the host has started each command

files == <<config, snap, index>>
local == <<batch, before, done, res, last>>
faults == <<refused, timeouts, losses, cuts, crashes>>
ghosts == <<accepted, ended, started>>
vars == <<guarded, queue, files, jobs, pc, call, local, faults, ghosts>>

\* The bound named by MaxFaults.
MoreFaults == refused + timeouts + losses + cuts + crashes < MaxFaults

Elems(s) == {s[i] : i \in DOMAIN s}
InProgress(a) == pc[a] \notin {"idle", "done"}
NoCall == [way |-> "none", file |-> "config", text |-> {}, answer |-> "none"]

Init == /\ guarded \in BOOLEAN
        /\ queue = <<>> /\ config = {} /\ index = {} /\ jobs = {}
        /\ snap = [a \in Applies |-> Torn]
        /\ pc = [a \in Applies |-> "idle"]
        /\ batch = [a \in Applies |-> <<>>]
        /\ before = [a \in Applies |-> {}]
        /\ done = [a \in Applies |-> 0]
        /\ res = [a \in Applies |-> "none"]
        /\ call = [a \in Applies |-> NoCall]
        /\ last = None /\ accepted = {} /\ ended = {}
        /\ started = [c \in Cmds |-> 0]
        /\ refused = 0 /\ timeouts = 0 /\ losses = 0
        /\ cuts = 0 /\ crashes = 0

-----------------------------------------------------------------------------
(* The queue *)

\* remote_queue_command, also while an apply runs.
QueueCommand(c) ==
  /\ c \notin accepted
  /\ queue' = Append(queue, c)
  /\ accepted' = accepted \cup {c}
  /\ UNCHANGED <<guarded, files, jobs, pc, call, local, faults, ended, started>>

\* The sequence s without its element i.
Without(s, i) ==
  [j \in 1 .. (Len(s) - 1) |-> IF j < i THEN s[j] ELSE s[j + 1]]

\* remote_remove_queued_command (ids are unique).
RemoveCommand(c) ==
  /\ \E i \in DOMAIN queue : queue[i] = c /\ queue' = Without(queue, i)
  /\ UNCHANGED <<guarded, files, jobs, pc, call, local, faults, ghosts>>

-----------------------------------------------------------------------------
(* Calls over the connection *)

Goto(a, l) == pc' = [pc EXCEPT ![a] = l]

\* The job of a call: a command when c is one, else a put.
Job(a, c, file, text) ==
  [by |-> a, cmd |-> c, file |-> file, text |-> text, stage |-> "sent",
   live |-> TRUE]
Send(a, way, c, file, text) ==
  /\ jobs' = jobs \cup {Job(a, c, file, text)}
  /\ call' = [call EXCEPT ![a] = [way |-> way, file |-> file, text |-> text,
                                  answer |-> "none"]]

\* sftp_write goes over SFTP; after a timeout it leaves that out for 60 s.
StartPut(a, file, text) ==
  \E way \in {"sftp"} \cup IF timeouts > 0 THEN {"tee"} ELSE {} :
    Send(a, way, None, file, text)

Waiting(a) == call[a].way # "none" /\ call[a].answer = "none"
Answer(a, r) == call' = [call EXCEPT ![a].answer = r]
Forget(a) == call' = [call EXCEPT ![a] = NoCall]
\* "error": the call has failed.  "failed": the command has run and its exit
\* status is not 0.  A put over SFTP that failed has not returned yet.
Returned(a, r) == call[a].answer = r /\ (r = "error" => call[a].way # "sftp")

\* A mutant: the error of the SFTP session is the error of the put.
NoFallback(a) ==
  /\ call[a].way = "sftp"
  /\ call[a].answer = "error"
  /\ call' = [call EXCEPT ![a].way = "tee"]
  /\ UNCHANGED <<guarded, queue, files, jobs, pc, local, faults, ghosts>>

\* "using exec tee fallback": the same text once more, through a shell.
Fallback(a) ==
  /\ call[a].way = "sftp"
  /\ call[a].answer = "error"
  /\ Send(a, "tee", None, call[a].file, call[a].text)
  /\ UNCHANGED <<guarded, queue, files, pc, local, faults, ghosts>>

\* The job that a waits for.
JobOf(a, j) == j \in jobs /\ j.by = a /\ j.live

\* A mutant: the answer of a call that was given up is still taken.
OrphanStays(j) == jobs

\* The jobs when nobody waits for j any more.
Orphan(j) == (jobs \ {j}) \cup {[j EXCEPT !.live = FALSE]}

\* No channel, or no process: nothing has started.
Refuse(a, j) ==
  /\ refused < MaxRefused /\ MoreFaults
  /\ JobOf(a, j)
  /\ j.stage = "sent"
  /\ refused' = refused + 1
  /\ jobs' = jobs \ {j}
  /\ Answer(a, "error")
  /\ UNCHANGED <<guarded, queue, files, pc, local, timeouts, losses, cuts, crashes, ghosts>>

\* A mutant: what has timed out counts as sent off.
TimeOutIsOk(a, j) ==
  /\ timeouts < MaxTimeouts /\ MoreFaults
  /\ JobOf(a, j)
  /\ timeouts' = timeouts + 1
  /\ jobs' = Orphan(j)
  /\ Answer(a, "ok")
  /\ UNCHANGED <<guarded, queue, files, pc, local, refused, losses, cuts, crashes, ghosts>>

\* The timeout of run_openclaw_remote, of SshSession::exec or of sftp_write.
TimeOut(a, j) ==
  /\ timeouts < MaxTimeouts /\ MoreFaults
  /\ JobOf(a, j)
  /\ timeouts' = timeouts + 1
  /\ jobs' = Orphan(j)
  /\ Answer(a, "error")
  /\ UNCHANGED <<guarded, queue, files, pc, local, refused, losses, cuts, crashes, ghosts>>

\* The channel ends without an exit status: for a command that is exit status
\* 0 (ssh.rs:391), for a put an error.
Lose(a, j) ==
  /\ losses < MaxLosses /\ MoreFaults
  /\ JobOf(a, j)
  /\ losses' = losses + 1
  /\ jobs' = Orphan(j)
  /\ Answer(a, IF j.cmd = None THEN "error" ELSE "ok")
  /\ UNCHANGED <<guarded, queue, files, pc, local, refused, timeouts, cuts, crashes,
                 ghosts>>

-----------------------------------------------------------------------------
(* The host *)

\* The file of job j has content t.
Fill(j, t) ==
  /\ config' = IF j.file = "config" THEN t ELSE config
  /\ index' = IF j.file = "index" THEN t ELSE index
  /\ snap' = IF j.file = "snap" THEN [snap EXCEPT ![j.by] = t] ELSE snap

\* The job ends and its caller, if there is one, gets the answer r.
End(j, r) ==
  /\ jobs' = jobs \ {j}
  /\ IF j.live THEN Answer(j.by, r) ELSE UNCHANGED call

\* A command starts and reads openclaw.json; one that cannot read it fails.
CommandReads(j) ==
  /\ j.cmd # None
  /\ j.stage = "sent"
  /\ started' = [started EXCEPT ![j.cmd] = @ + 1]
  /\ IF config = Torn
     THEN End(j, "failed")
     ELSE /\ jobs' = (jobs \ {j}) \cup
                       {[j EXCEPT !.stage = "read", !.text = config \cup {j.cmd}]}
          /\ UNCHANGED call
  /\ UNCHANGED <<guarded, queue, files, pc, local, faults, accepted, ended>>

CommandWrites(j) ==
  /\ j.stage = "read"
  /\ Fill(j, j.text)
  /\ End(j, "ok")
  /\ ended' = ended \cup {j.cmd}
  /\ UNCHANGED <<guarded, queue, pc, local, faults, accepted, started>>

\* Exit status # 0, and the change may have been made all the same.
CommandFails(j) ==
  /\ j.stage = "read"
  /\ Fill(j, j.text) \/ UNCHANGED files
  /\ End(j, "failed")
  /\ UNCHANGED <<guarded, queue, pc, local, faults, ghosts>>

\* create() empties the file ...
PutOpens(j) ==
  /\ j.cmd = None
  /\ j.stage = "sent"
  /\ Fill(j, Torn)
  /\ jobs' = (jobs \ {j}) \cup {[j EXCEPT !.stage = "open"]}
  /\ UNCHANGED <<guarded, queue, pc, call, local, faults, ghosts>>

\* ... and write_all fills it.
PutFills(j) ==
  /\ j.stage = "open"
  /\ Fill(j, j.text)
  /\ End(j, "ok")
  /\ UNCHANGED <<guarded, queue, pc, local, faults, ghosts>>

\* A job nobody waits for may come to its end at any point.
Dies(j) ==
  /\ ~j.live
  /\ jobs' = jobs \ {j}
  /\ UNCHANGED <<guarded, queue, files, pc, call, local, faults, ghosts>>

Host == \E j \in jobs : \/ CommandReads(j) \/ CommandWrites(j)
                        \/ CommandFails(j) \/ PutOpens(j) \/ PutFills(j)
                        \/ Dies(j)

-----------------------------------------------------------------------------
(* remote_apply_queued_commands_with_services *)

\* An apply is asked for: by PendingChangesBar, whose ref holds back a second
\* one as long as the page hears nothing of the first (guarded), or by a
\* recipe execution or a bar mounted anew, which know nothing of that ref.
Press(a) ==
  /\ pc[a] = "idle"
  /\ guarded => \A b \in Applies : ~InProgress(b)
  /\ Goto(a, "called")
  /\ UNCHANGED <<guarded, queue, files, jobs, call, local, faults, ghosts>>

\* A copy of the queue: nothing keeps a second apply from taking one too.
List(a) ==
  /\ pc[a] = "called"
  /\ queue # <<>>
  /\ batch' = [batch EXCEPT ![a] = queue]
  /\ last' = a
  /\ Goto(a, "listed")
  /\ UNCHANGED <<guarded, queue, files, jobs, call, before, done, res, faults, ghosts>>

\* "No pending commands to apply".
ListNothing(a) ==
  /\ pc[a] = "called"
  /\ queue = <<>>
  /\ res' = [res EXCEPT ![a] = "error"]
  /\ Goto(a, "done")
  /\ UNCHANGED <<guarded, queue, files, jobs, call, batch, before, done, last, faults,
                 ghosts>>

\* The sftp_read of openclaw.json; whatever is there becomes config_before.
ReadConfig(a) ==
  /\ pc[a] = "listed"
  /\ before' = [before EXCEPT ![a] = config]
  /\ StartPut(a, "snap", config)
  /\ Goto(a, "saving")
  /\ UNCHANGED <<guarded, queue, files, batch, done, res, last, faults, ghosts>>

\* It fails, or the summary of the labels cannot be cut at byte 80: the apply
\* ends and the queue stays.
ReadFails(a) ==
  /\ pc[a] = "listed"
  /\ refused < MaxRefused /\ MoreFaults
  /\ refused' = refused + 1
  /\ res' = [res EXCEPT ![a] = "error"]
  /\ Goto(a, "done")
  /\ UNCHANGED <<guarded, queue, files, jobs, call, batch, before, done, last, timeouts,
                 losses, cuts, crashes, ghosts>>

\* Whether the snapshot was written or not, record_remote_snapshot_metadata
\* reads the index, where an index that does not parse ends it ...
Record(a) ==
  /\ pc[a] = "saving"
  /\ Returned(a, "ok") \/ Returned(a, "error")
  /\ \/ /\ index # Torn
        /\ StartPut(a, "index", index \cup {a})
        /\ Goto(a, "indexing")
     \/ /\ index = Torn
        /\ Forget(a)
        /\ Goto(a, "exec")
        /\ UNCHANGED jobs
  /\ UNCHANGED <<guarded, queue, files, local, faults, ghosts>>

\* ... and writes it with its entry.  Its result is dropped too.
Recorded(a) ==
  /\ pc[a] = "indexing"
  /\ Returned(a, "ok") \/ Returned(a, "error")
  /\ Forget(a)
  /\ Goto(a, "exec")
  /\ UNCHANGED <<guarded, queue, files, jobs, local, faults, ghosts>>

\* The next command: a put of its text, or openclaw on the host.
Execute(a) ==
  /\ pc[a] = "exec"
  /\ done[a] < Len(batch[a])
  /\ LET c == batch[a][done[a] + 1]
     IN  IF c \in Writes THEN StartPut(a, "config", {c})
                         ELSE Send(a, "cli", c, "config", {})
  /\ Goto(a, "executing")
  /\ UNCHANGED <<guarded, queue, files, local, faults, ghosts>>

Succeeded(a) ==
  /\ pc[a] = "executing"
  /\ Returned(a, "ok")
  /\ done' = [done EXCEPT ![a] = @ + 1]
  /\ Forget(a)
  /\ Goto(a, "exec")
  /\ UNCHANGED <<guarded, queue, files, jobs, batch, before, res, last, faults, ghosts>>

\* The command has ended, with exit status 0 or not, and its output cannot be
\* cut at byte 800, inside a character: the apply panics.  Nothing is restored
\* and the queue stays.
Cut(a) ==
  /\ cuts < MaxCuts /\ MoreFaults
  /\ pc[a] = "executing" /\ call[a].way = "cli"
  /\ Returned(a, "ok") \/ Returned(a, "failed")
  /\ cuts' = cuts + 1
  /\ res' = [res EXCEPT ![a] = "error"]
  /\ Forget(a)
  /\ Goto(a, "done")
  /\ UNCHANGED <<guarded, queue, files, jobs, batch, before, done, last, refused,
                 timeouts, losses, crashes, ghosts>>

\* A mutant: the rollback writes the text of now, read again.
RestoreCurrent(a) ==
  /\ pc[a] = "executing"
  /\ Returned(a, "error") \/ Returned(a, "failed")
  /\ StartPut(a, "config", config)
  /\ Goto(a, "restoring")
  /\ UNCHANGED <<guarded, queue, files, local, faults, ghosts>>

\* A command has failed: config_before is written back.
Restore(a) ==
  /\ pc[a] = "executing"
  /\ Returned(a, "error") \/ Returned(a, "failed")
  /\ StartPut(a, "config", before[a])
  /\ Goto(a, "restoring")
  /\ UNCHANGED <<guarded, queue, files, local, faults, ghosts>>

\* A mutant: the failed batch stays in the queue, to be applied once more.
KeepQueue(a) ==
  /\ pc[a] = "restoring"
  /\ Returned(a, "ok") \/ Returned(a, "error")
  /\ res' = [res EXCEPT ![a] = "rolled back"]
  /\ Forget(a)
  /\ Goto(a, "done")
  /\ UNCHANGED <<guarded, queue, files, jobs, batch, before, done, last, faults, ghosts>>

\* Whatever has become of that, the queue is cleared and the caller is told
\* that the changes are rolled back.
RolledBack(a) ==
  /\ pc[a] = "restoring"
  /\ Returned(a, "ok") \/ Returned(a, "error")
  /\ queue' = <<>>
  /\ res' = [res EXCEPT ![a] = "rolled back"]
  /\ Forget(a)
  /\ Goto(a, "done")
  /\ UNCHANGED <<guarded, files, jobs, batch, before, done, last, faults, ghosts>>

\* All have run; the restart of the gateway changes no file.
Finish(a) ==
  /\ pc[a] = "exec"
  /\ done[a] = Len(batch[a])
  /\ queue' = <<>>
  /\ res' = [res EXCEPT ![a] = "ok"]
  /\ Goto(a, "done")
  /\ UNCHANGED <<guarded, files, jobs, call, batch, before, done, last, faults, ghosts>>

Apply(a) == \/ List(a) \/ ListNothing(a) \/ ReadConfig(a) \/ ReadFails(a)
            \/ Record(a) \/ Recorded(a) \/ Execute(a) \/ Succeeded(a) \/ Cut(a)
            \/ Restore(a) \/ RolledBack(a) \/ Finish(a) \/ Fallback(a)

\* The application stops: queue and applies are gone, jobs and files stay.
Crash ==
  /\ crashes < MaxCrashes /\ MoreFaults
  /\ crashes' = crashes + 1
  /\ queue' = <<>>
  /\ pc' = [a \in Applies |-> IF InProgress(a) THEN "done" ELSE pc[a]]
  /\ call' = [a \in Applies |-> NoCall]
  /\ jobs' = {[j EXCEPT !.live = FALSE] : j \in jobs}
  /\ UNCHANGED <<guarded, files, local, refused, timeouts, losses, cuts,
                 ghosts>>

Next == \/ \E c \in Cmds : QueueCommand(c) \/ RemoveCommand(c)
        \/ \E a \in Applies : \/ Press(a)
                              \/ Apply(a)
                              \/ \E j \in jobs : \/ Refuse(a, j)
                                                 \/ TimeOut(a, j)
                                                 \/ Lose(a, j)
        \/ Host
        \/ Crash

Spec == Init /\ [][Next]_vars

-----------------------------------------------------------------------------
(* Properties *)

Texts == (SUBSET Cmds) \cup {Torn}
IndexTexts == (SUBSET Applies) \cup {Torn}
JobsOK ==
  \A j \in jobs :
    /\ j.by \in Applies /\ j.cmd \in (Cmds \ Writes) \cup {None}
    /\ j.stage \in IF j.cmd = None THEN {"sent", "open"} ELSE {"sent", "read"}
    /\ j.text \in IF j.file = "index" THEN IndexTexts ELSE Texts
    /\ j.live => Waiting(j.by)

\* Every variable has its type, and a job that is waited for has an apply that
\* waits (cli_runner.rs:2963-3229).
TypeOK ==
  /\ Elems(queue) \subseteq Cmds /\ accepted \subseteq Cmds /\ ended \subseteq Cmds
  /\ config \in Texts /\ snap \in [Applies -> Texts] /\ index \in IndexTexts
  /\ pc \in [Applies -> {"idle", "called", "listed", "saving", "indexing", "exec",
                         "executing", "restoring", "done"}]
  /\ before \in [Applies -> Texts]
  /\ \A a \in Applies : done[a] \in 0..Len(batch[a])
  /\ res \in [Applies -> {"none", "ok", "error", "rolled back"}]
  /\ last \in Applies \cup {None}
  /\ JobsOK

\* What the plan promises of a rollback, "`openclaw.json` 可以精确恢复": the file
\* can be restored exactly (docs/plans/2026-02-21-cli-based-config-design.md:117).
\* It is what it was before an apply that reports its changes rolled back,
\* once nothing of it runs on the host any more and before anything else is
\* applied (cli_runner.rs:3086-3102, 3142-3158, 3174-3190).
RestoredAlways ==
  \A a \in Applies :
    res[a] = "rolled back" /\ last = a /\ jobs = {} => config = before[a]

\* The same as long as the application has given up none of what it started on
\* the host, one refusal at most has hit it (two in a row would fail the
\* restoring put on both its ways), and no second apply runs beside it.
RestoredExactly ==
  /\ guarded
  /\ timeouts = 0 /\ losses = 0 /\ crashes = 0 /\ refused <= 1
  => RestoredAlways

\* From its first command on, and after a crash at any point of it, the
\* snapshot of an apply is whole and has the text from before it, one refused
\* call or not (cli_runner.rs:3007).  Two applies at once are left out: begun
\* in one second they may share the name of the file.
SnapshotStands == guarded /\ timeouts = 0 /\ losses = 0 /\ refused <= 1 =>
  \A a \in Applies :
    done[a] > 0 \/ pc[a] \in {"exec", "executing", "restoring"}
      => snap[a] = before[a]

\* An apply that reports success has run every command of its batch to its
\* end (cli_runner.rs:3192-3205).
OkMeansAllRan == losses = 0 =>
  \A a \in Applies :
    res[a] = "ok" => Elems(batch[a]) \ Writes \subseteq ended

\* No command is started twice, whatever times out, falls back or is applied
\* again (cli_runner.rs:3089, 3145, 3177 and 3214 clear the queue), as long as
\* one apply runs at a time and none of them panics: that one keeps its queue,
\* and the next one starts over.
StartedOnce == guarded /\ cuts = 0 => \A c \in Cmds : started[c] <= 1
=============================================================================
