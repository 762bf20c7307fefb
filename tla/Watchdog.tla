------------------------------ MODULE Watchdog ------------------------------
(***************************************************************************)
(* The watchdog of scheduled jobs: the process that looks for missed runs  *)
(* and triggers them again (src-tauri/resources/watchdog.js), the commands *)
(* that deploy, start and stop it (commands/watchdog.rs for a remote host, *)
(* commands/watchdog_cmds.rs for the local one) and the Cron page that     *)
(* calls them (pages/Cron.tsx).                                            *)
(*                                                                         *)
(* A schedule is the number of its last trigger time: due[j] of them have  *)
(* passed, and lastRun[j] is the one the last run record belongs to.  The  *)
(* gateway and its CLI (openclaw up, openclaw cron run --due) are          *)
(* external.                                                               *)
(***************************************************************************)
EXTENDS Naturals, FiniteSets

CONSTANTS
  Procs,        \* the node processes that may be spawned (their pids)
  Calls,        \* the calls of start, stop and uninstall
  Jobs,         \* the enabled jobs of jobs.json
  MaxRetries,   \* MAX_RETRIES
  Mixes,        \* what may happen besides, in one behaviour or another
  MaxDue,       \* bound: trigger times that pass
  MaxOutages,   \* bound: how often the gateway goes down
  MaxRemounts,  \* bound: how often the page is left and opened again
  NoProc        \* there is no pid file

\* The instance is remote; the page is left and opened again; the page stops
\* polling before the process has written its pid; what a remote command asks
\* of the host fails; a leaving process pauses between its last look at the pid
\* file and the unlink; a process is killed at once; trigger times pass.
Disturbances == {"remote", "remount", "slow", "lost", "pause", "crash", "due"}

ASSUME NoProcAssumption == NoProc \notin Procs
ASSUME MixesAssumption == Mixes \subseteq SUBSET Disturbances
ASSUME BoundsAssumption ==
  /\ MaxRetries \in Nat \ {0}
  /\ MaxDue \in Nat
  /\ MaxOutages \in Nat
  /\ MaxRemounts \in Nat

VARIABLES
  mix,       \* the disturbances of this behaviour, chosen at its start
  script,    \* watchdog.js is deployed
  pidFile,   \* watchdog.pid
  pc,        \* where each process is
  sigterm,   \* the processes with a SIGTERM pending
  call,      \* the calls in progress
  action,    \* wdAction: what the mounted page waits for
  remounts,
  due, lastRun,
  gateway,   \* the gateway listens on its port
  outages,
  todo,      \* the jobs a check cycle has still to look at
  expected,  \* due, as the cycle computed it at its start
  cur,       \* the job in hand
  alive,     \* gatewayAlive, as the cycle knows it
  job,       \* jobState: what a process remembers of each job
  started    \* the jobs a trigger has started and that have not yet run

callVars == <<call, action, remounts, script>>
procVars == <<pidFile, pc, sigterm>>
cycleVars == <<todo, expected, cur, alive, job>>
worldVars == <<mix, due, lastRun, gateway, outages, started>>
vars == <<callVars, procVars, cycleVars, worldVars>>

Born(p) == pc[p] # "unborn"
Alive(p) == p \in Procs /\ pc[p] \notin {"unborn", "dead"}

\* What kill -0 says.  The application never waits for the processes it spawned
\* on its own host: a dead one stays behind as a zombie, and is found.
Found(p) == Alive(p) \/ (p \in Procs /\ pc[p] = "dead" /\ "remote" \notin mix)

\* A read, a probe or a command sent to the host may fail.
MayLose == {"remote", "lost"} \subseteq mix

\* Past acquirePidFile.
Running(p) == pc[p] \in {"rest", "check", "backoff", "gateway", "wait",
                         "trigger", "leaving"}

\* At an await, where node runs signal handlers.
Awaiting(p) == pc[p] \in {"rest", "backoff", "wait"}

\* escalated: the trigger time that was in force at escalatedAt, 0 for null.
FreshJob == [status |-> "ok", retries |-> 0, key |-> 0, escalated |-> 0]
IdleCall == [kind |-> "none", pc |-> "idle", seen |-> NoProc, mount |-> 0]

Init ==
  /\ mix \in Mixes
  /\ script = FALSE /\ pidFile = NoProc
  /\ pc = [p \in Procs |-> "unborn"]
  /\ sigterm = {}
  /\ call = [c \in Calls |-> IdleCall]
  /\ action = "none" /\ remounts = 0
  /\ due = [j \in Jobs |-> 0] /\ lastRun = [j \in Jobs |-> 0]
  /\ gateway = TRUE /\ outages = 0
  /\ todo = [p \in Procs |-> {}]
  /\ expected = [p \in Procs |-> [j \in Jobs |-> 0]]
  /\ cur = [p \in Procs |-> {}]
  /\ alive = [p \in Procs |-> FALSE]
  /\ job = [p \in Procs |-> [j \in Jobs |-> FreshJob]]
  /\ started = {}

-----------------------------------------------------------------------------
(* The commands of the application, and the page in front of them.         *)

Busy(c) == call[c].pc \notin {"idle", "done"}

\* The local commands are not async: the main thread runs one at a time.
ThreadFree == "remote" \in mix \/ \A c \in Calls : ~Busy(c)

At(c, where) == call' = [call EXCEPT ![c].pc = where]
Returns(c) == call' = [call EXCEPT ![c] = [IdleCall EXCEPT !.pc = "done"]]

\* The buttons are disabled while the page waits for an answer.
Press(c, kind) ==
  /\ action = "none"
  /\ ThreadFree
  /\ call[c].pc = "idle"
  /\ call' = [call EXCEPT ![c] = [kind |-> kind, pc |-> "called",
                                  seen |-> NoProc, mount |-> remounts]]
  /\ action' = kind
  /\ UNCHANGED <<script, remounts, procVars, cycleVars, worldVars>>

\* doDeploy(true): deploy, then start; the script is overwritten in place.  A
\* deployment that fails ends the call, and its finally leaves wdAction alone.
PressDeploy(c) ==
  /\ action = "none"
  /\ ThreadFree
  /\ call[c].pc = "idle"
  /\ action' = "deploy"
  /\ \/ /\ script' = TRUE
        /\ call' = [call EXCEPT ![c] = [kind |-> "deploy", pc |-> "called",
                                        seen |-> NoProc, mount |-> remounts]]
     \/ /\ Returns(c)
        /\ UNCHANGED script
  /\ UNCHANGED <<remounts, procVars, cycleVars, worldVars>>

\* start_watchdog, stop_watchdog, uninstall_watchdog: read the pid file.
ReadPid(c) ==
  /\ call[c].pc = "called"
  /\ call' = [call EXCEPT ![c].pc = "read", ![c].seen = pidFile]
  /\ UNCHANGED <<action, remounts, script, procVars, cycleVars,
                 worldVars>>

\* The promise settles.  After a start the page polls until the process is
\* seen alive; every other answer frees the buttons.
Answers(c, next) ==
  action' = IF call[c].mount = remounts THEN next ELSE action

\* The command of a start has failed.  doStart frees the buttons, doDeploy does
\* not: pollUntilAlive was to do it.
Refused(c) == Answers(c, IF call[c].kind = "deploy" THEN action ELSE "none")

Starts(c) == call[c].kind \in {"start", "deploy"} /\ call[c].pc = "read"

\* The local command looks for the script first.
Deployed == script \/ "remote" \in mix

\* "Watchdog not deployed. Deploy first."
StartRefused(c) ==
  /\ Starts(c)
  /\ ~Deployed
  /\ Returns(c)
  /\ Refused(c)
  /\ UNCHANGED <<remounts, script, procVars, cycleVars, worldVars>>

\* kill -0: the process is running, nothing to do.
StartFound(c) ==
  /\ Starts(c)
  /\ Deployed
  /\ Found(call[c].seen)
  /\ Returns(c)
  /\ Answers(c, "poll")
  /\ UNCHANGED <<remounts, script, procVars, cycleVars, worldVars>>

\* kill -0 says no, there is no pid file to ask with, or asking failed.
StartNotFound(c) ==
  /\ Starts(c)
  /\ Deployed
  /\ ~Found(call[c].seen) \/ MayLose
  /\ At(c, "spawn")
  /\ UNCHANGED <<action, remounts, script, procVars, cycleVars,
                 worldVars>>

\* node watchdog.js: the process writes its pid file by itself.  The answer of
\* a remote shell that has started it may be lost.
Spawn(c) ==
  /\ call[c].pc = "spawn"
  /\ script
  /\ \E p \in Procs : ~Born(p) /\ pc' = [pc EXCEPT ![p] = "boot"]
  /\ Returns(c)
  /\ Answers(c, "poll") \/ (MayLose /\ Refused(c))
  /\ UNCHANGED <<remounts, script, pidFile, sigterm, cycleVars,
                 worldVars>>

\* No script, no node, no log file: a local start fails; a remote shell went
\* to the background before it found out, and says nothing.
SpawnFails(c) ==
  /\ call[c].pc = "spawn"
  /\ Returns(c)
  /\ \/ "remote" \in mix /\ Answers(c, "poll")
     \/ ("remote" \notin mix \/ MayLose) /\ Refused(c)
  /\ UNCHANGED <<remounts, script, procVars, cycleVars, worldVars>>

Seen == Found(pidFile)

\* Mutant: the buttons are free as soon as the command has answered.
PollNot ==
  /\ action = "poll"
  /\ action' = "none"
  /\ UNCHANGED <<call, remounts, script, procVars, cycleVars, worldVars>>

\* pollUntilAlive: get_watchdog_status says alive, or the page gives up.
Poll ==
  /\ action = "poll"
  /\ Seen \/ "slow" \in mix \/ \A p \in Procs : pc[p] # "boot" /\ pc[p] # "claim"
  /\ action' = "none"
  /\ UNCHANGED <<call, remounts, script, procVars, cycleVars, worldVars>>

Stops(c) == call[c].kind \in {"stop", "uninstall"}

\* kill <pid>: the signal is pending until the process gets to an await.
Kill(c) ==
  /\ Stops(c) /\ call[c].pc = "read"
  /\ LET p == call[c].seen
         hit == IF Alive(p) THEN {p} ELSE {}
     IN  \/ sigterm' = sigterm \cup hit
         \/ MayLose /\ sigterm' = sigterm
  /\ At(c, "killed")
  /\ UNCHANGED <<action, remounts, script, pidFile, pc, cycleVars,
                 worldVars>>

\* Remove the pid file, or the directory it is in.  The local stop returns
\* early when there was no pid file; a remote failure goes unnoticed.
RemovePid(c) ==
  /\ Stops(c) /\ call[c].pc = "killed"
  /\ \/ /\ pidFile' = IF call[c].seen = NoProc /\ call[c].kind = "stop"
                         /\ "remote" \notin mix
                      THEN pidFile ELSE NoProc
        /\ script' = (script /\ call[c].kind = "stop")
     \/ MayLose /\ UNCHANGED <<pidFile, script>>
  /\ Returns(c)
  /\ Answers(c, "none")
  /\ UNCHANGED <<remounts, pc, sigterm, cycleVars, worldVars>>

\* The page is left and opened again: it has forgotten what it waited for.
Remount ==
  /\ "remount" \in mix
  /\ remounts < MaxRemounts
  /\ remounts' = remounts + 1
  /\ action' = "none"
  /\ UNCHANGED <<call, script, procVars, cycleVars, worldVars>>

-----------------------------------------------------------------------------
(* The life of a watchdog process.                                         *)

Move(p, where) == pc' = [pc EXCEPT ![p] = where]

\* What a process remembered is gone with it.
Exit(p) ==
  /\ Move(p, "dead")
  /\ todo' = [todo EXCEPT ![p] = {}] /\ cur' = [cur EXCEPT ![p] = {}]
  /\ expected' = [expected EXCEPT ![p] = [j \in Jobs |-> 0]]
  /\ alive' = [alive EXCEPT ![p] = FALSE]
  /\ job' = [job EXCEPT ![p] = [j \in Jobs |-> FreshJob]]

\* acquirePidFile: another watchdog is running, exit.
AcquireTaken(p) ==
  /\ pc[p] = "boot"
  /\ Seen
  /\ Exit(p)
  /\ UNCHANGED <<callVars, pidFile, sigterm, worldVars>>

AcquireFree(p) ==
  /\ pc[p] = "boot"
  /\ ~Seen
  /\ Move(p, "claim")
  /\ UNCHANGED <<callVars, pidFile, sigterm, cycleVars, worldVars>>

\* And write one's own pid, whoever has written one since.
WritePid(p) ==
  /\ pc[p] = "claim"
  /\ pidFile' = p
  /\ Move(p, "rest")
  /\ UNCHANGED <<callVars, sigterm, cycleVars, worldVars>>

\* shutdown: releasePidFile removes the file if it holds the own pid.
Shutdown(p) ==
  /\ Awaiting(p) /\ p \in sigterm
  /\ sigterm' = sigterm \ {p}
  /\ \/ /\ pidFile' = IF pidFile = p THEN NoProc ELSE pidFile
        /\ Exit(p)
     \/ /\ pidFile = p /\ "pause" \in mix
        /\ Move(p, "leaving")
        /\ UNCHANGED <<pidFile, cycleVars>>
  /\ UNCHANGED <<callVars, worldVars>>

\* The unlink, a moment after the read: whatever the file holds by then.
Unlink(p) ==
  /\ pc[p] = "leaving"
  /\ pidFile' = NoProc
  /\ Exit(p)
  /\ UNCHANGED <<callVars, sigterm, worldVars>>

\* SIGKILL, or the host goes down: the pid file stays.
Crash(p) ==
  /\ "crash" \in mix
  /\ Alive(p)
  /\ Exit(p)
  /\ sigterm' = sigterm \ {p}
  /\ UNCHANGED <<callVars, pidFile, worldVars>>

-----------------------------------------------------------------------------
(* runCheckCycle.                                                          *)

\* now is read once; the gateway is probed once.
BeginCycle(p) ==
  /\ pc[p] = "rest" /\ p \notin sigterm
  /\ Move(p, "check")
  /\ expected' = [expected EXCEPT ![p] = due]
  /\ todo' = [todo EXCEPT ![p] = Jobs]
  /\ alive' = [alive EXCEPT ![p] = gateway]
  /\ UNCHANGED <<callVars, pidFile, sigterm, cur, job, worldVars>>

Missed(p, j) == expected[p][j] > lastRun[j]

\* Mutant: escalation is never lifted.
LiftedNever(s, key) == [s EXCEPT !.key = key]

\* What the cycle makes of the state of a job before it looks for a run:
\* escalation lasts as long as the schedule it was declared for.
Lifted(s, key) ==
  IF s.escalated > 0 /\ key # s.key THEN [FreshJob EXCEPT !.key = key]
                                    ELSE [s EXCEPT !.key = key]

\* Mutant: one attempt too many.
ExhaustedLate(s) == s.retries > MaxRetries

Exhausted(s) == s.retries >= MaxRetries

\* One round of the loop over the jobs, up to its first await.
Look(p, j) ==
  /\ pc[p] = "check"
  /\ j \in todo[p]
  /\ todo' = [todo EXCEPT ![p] = @ \ {j}]
  /\ LET s == Lifted(job[p][j], expected[p][j])
         Note(t) == job' = [job EXCEPT ![p][j] = t]
         Skip == UNCHANGED <<pc, cur>>
         Remedy(where) == Move(p, where) /\ cur' = [cur EXCEPT ![p] = {j}]
     IN  \/ /\ ~Missed(p, j)
            /\ Note(IF s.status = "escalated" THEN s
                    ELSE [s EXCEPT !.status = "ok", !.retries = 0])
            /\ Skip
         \/ /\ Missed(p, j) /\ s.status = "escalated"
            /\ Note(s) /\ Skip
         \/ /\ Missed(p, j) /\ s.status # "escalated"
            /\ Exhausted(s)
            /\ Note([s EXCEPT !.status = "escalated",
                              !.escalated = expected[p][j]])
            /\ Skip
         \/ /\ Missed(p, j) /\ s.status # "escalated"
            /\ s.retries > 0 /\ ~Exhausted(s)
            /\ Note([s EXCEPT !.status = "retrying"])
            /\ Remedy("backoff")
         \/ /\ Missed(p, j) /\ s.status # "escalated"
            /\ s.retries = 0
            /\ Note([s EXCEPT !.status = "pending"])
            /\ Remedy("gateway")
  /\ UNCHANGED <<callVars, pidFile, sigterm, expected, alive, worldVars>>

BackedOff(p) ==
  /\ pc[p] = "backoff" /\ p \notin sigterm
  /\ Move(p, "gateway")
  /\ UNCHANGED <<callVars, pidFile, sigterm, cycleVars, worldVars>>

Failed(s) == [s EXCEPT !.retries = @ + 1, !.status = "retrying"]

GatewayKnownUp(p) ==
  /\ pc[p] = "gateway" /\ alive[p]
  /\ Move(p, "trigger")
  /\ UNCHANGED <<callVars, pidFile, sigterm, cycleVars, worldVars>>

\* ensureGatewayUp: openclaw up blocks, then the port is polled.
OpenclawUp(p) ==
  /\ pc[p] = "gateway" /\ ~alive[p]
  /\ Move(p, "wait")
  /\ gateway' \in {gateway, TRUE}
  /\ UNCHANGED <<callVars, pidFile, sigterm, cycleVars, mix, due, lastRun,
                 outages, started>>

GatewayReached(p) ==
  /\ pc[p] = "wait" /\ p \notin sigterm
  /\ gateway
  /\ alive' = [alive EXCEPT ![p] = TRUE]
  /\ Move(p, "trigger")
  /\ UNCHANGED <<callVars, pidFile, sigterm, todo, expected, cur, job,
                 worldVars>>

\* openclaw up failed, or the port stayed closed for GATEWAY_WAIT.
GatewayNotReached(p) ==
  /\ pc[p] = "wait" /\ p \notin sigterm
  /\ ~gateway
  /\ job' = [job EXCEPT ![p] = [j \in Jobs |-> IF j \in cur[p]
                                THEN Failed(@[j]) ELSE @[j]]]
  /\ cur' = [cur EXCEPT ![p] = {}]
  /\ Move(p, "check")
  /\ UNCHANGED <<callVars, pidFile, sigterm, todo, expected, alive, worldVars>>

\* openclaw cron run <job> --due, with the gateway as it is by now.  The job
\* is started if it is still due, and the run is recorded when it has ended.
TriggerOk(p) ==
  /\ pc[p] = "trigger"
  /\ gateway
  /\ started' = started \cup {j \in cur[p] : due[j] > lastRun[j]}
  /\ job' = [job EXCEPT ![p] = [j \in Jobs |-> IF j \in cur[p]
                THEN [@[j] EXCEPT !.status = "triggered", !.retries = 0]
                ELSE @[j]]]
  /\ cur' = [cur EXCEPT ![p] = {}]
  /\ Move(p, "check")
  /\ UNCHANGED <<callVars, pidFile, sigterm, todo, expected, alive, mix, due,
                 lastRun, gateway, outages>>

TriggerFails(p) ==
  /\ pc[p] = "trigger"
  /\ job' = [job EXCEPT ![p] = [j \in Jobs |-> IF j \in cur[p]
                                THEN Failed(@[j]) ELSE @[j]]]
  /\ cur' = [cur EXCEPT ![p] = {}]
  /\ Move(p, "check")
  /\ UNCHANGED <<callVars, pidFile, sigterm, todo, expected, alive, worldVars>>

EndCycle(p) ==
  /\ pc[p] = "check" /\ todo[p] = {}
  /\ Move(p, "rest")
  /\ expected' = [expected EXCEPT ![p] = [j \in Jobs |-> 0]]
  /\ alive' = [alive EXCEPT ![p] = FALSE]
  /\ UNCHANGED <<callVars, pidFile, sigterm, todo, cur, job, worldVars>>

-----------------------------------------------------------------------------
(* The world.                                                              *)

\* The next trigger time of a job passes.  The gateway runs the job itself,
\* unless it is down or the run does not come about.
TimePasses(j) ==
  /\ "due" \in mix
  /\ due[j] < MaxDue
  /\ due' = [due EXCEPT ![j] = @ + 1]
  /\ started' \in {started, started \cup (IF gateway THEN {j} ELSE {})}
  /\ UNCHANGED <<callVars, procVars, cycleVars, mix, lastRun, gateway, outages>>

\* The run of a job is recorded in runs/<job>.jsonl.
JobRecords(j) ==
  /\ j \in started
  /\ started' = started \ {j}
  /\ lastRun' = [lastRun EXCEPT ![j] = due[j]]
  /\ UNCHANGED <<callVars, procVars, cycleVars, mix, due, gateway, outages>>

GatewayGoesDown ==
  /\ "due" \in mix
  /\ gateway
  /\ outages < MaxOutages
  /\ gateway' = FALSE
  /\ outages' = outages + 1
  /\ UNCHANGED <<callVars, procVars, cycleVars, mix, due, lastRun, started>>

CallProceeds(c) ==
  \/ ReadPid(c)
  \/ StartRefused(c) \/ StartFound(c) \/ StartNotFound(c)
  \/ Spawn(c) \/ SpawnFails(c)
  \/ Kill(c) \/ RemovePid(c)

CallNext(c) ==
  \/ \E kind \in {"start", "stop", "uninstall"} : Press(c, kind)
  \/ PressDeploy(c)
  \/ CallProceeds(c)

\* What a process does by itself, and in what order.
ProcessStep(p) ==
  \/ AcquireTaken(p) \/ AcquireFree(p) \/ WritePid(p)
  \/ Shutdown(p) \/ Unlink(p)
  \/ BeginCycle(p) \/ (\E j \in Jobs : Look(p, j)) \/ BackedOff(p)
  \/ GatewayKnownUp(p) \/ OpenclawUp(p)
  \/ GatewayReached(p) \/ GatewayNotReached(p)
  \/ TriggerOk(p) \/ TriggerFails(p) \/ EndCycle(p)

Next ==
  \/ \E c \in Calls : CallNext(c)
  \/ Poll \/ Remount
  \/ \E p \in Procs : ProcessStep(p) \/ Crash(p)
  \/ \E j \in Jobs : TimePasses(j) \/ JobRecords(j)
  \/ GatewayGoesDown

Spec == Init /\ [][Next]_vars

\* Processes run, and runs that were started are recorded in the end.
FairSpec ==
  /\ Spec
  /\ \A p \in Procs : WF_vars(ProcessStep(p))
  /\ \A j \in Jobs : WF_vars(JobRecords(j))

-----------------------------------------------------------------------------
Statuses == {"ok", "pending", "retrying", "triggered", "escalated"}

\* The type invariant of the watchdog's state.
TypeOK ==
  /\ mix \in Mixes /\ script \in BOOLEAN
  /\ pidFile \in Procs \cup {NoProc}
  /\ pc \in [Procs -> {"unborn", "boot", "claim", "rest", "check", "backoff",
                       "gateway", "wait", "trigger", "leaving", "dead"}]
  /\ sigterm \in SUBSET Procs
  /\ call \in [Calls -> [kind : {"none", "start", "deploy", "stop", "uninstall"},
                         pc : {"idle", "called", "read", "spawn", "killed",
                               "done"},
                         seen : Procs \cup {NoProc}, mount : 0..MaxRemounts]]
  /\ action \in {"none", "start", "deploy", "stop", "uninstall", "poll"}
  /\ remounts \in 0..MaxRemounts
  /\ due \in [Jobs -> 0..MaxDue] /\ lastRun \in [Jobs -> 0..MaxDue]
  /\ gateway \in BOOLEAN /\ outages \in 0..MaxOutages
  /\ started \in SUBSET Jobs
  /\ todo \in [Procs -> SUBSET Jobs] /\ cur \in [Procs -> SUBSET Jobs]
  /\ expected \in [Procs -> [Jobs -> 0..MaxDue]]
  /\ alive \in [Procs -> BOOLEAN]
  /\ job \in [Procs -> [Jobs -> [status : Statuses, retries : 0..MaxRetries,
                                 key : 0..MaxDue, escalated : 0..MaxDue]]]

\* One watchdog at a time, and one that can be stopped: as long as the page
\* stays open and waits for the pid file, every running process that has not
\* been told to stop is the one the pid file names, also when processes are
\* killed and when a process that was told to stop lives on beside the next
\* one (acquirePidFile, start_watchdog, stop_watchdog).
Calm == mix \subseteq {"remote", "crash", "due"}

OneWatchdog ==
  Calm => \A p \in Procs : Running(p) /\ p \notin sigterm => pidFile = p

\* A missed run is not left alone: with a watchdog running, every trigger
\* time that passed is recorded as run in the end, or the job is escalated
\* for this very trigger time and not for an earlier one (runCheckCycle).
MissedIsHandled ==
  \A j \in Jobs :
    []<>(\/ lastRun[j] = due[j]
         \/ \E p \in Procs : Running(p) /\ job[p][j].escalated = due[j]
         \/ \A p \in Procs : ~Running(p))
=============================================================================
