--------------------------- MODULE WatchdogProofs ---------------------------
(***************************************************************************)
(* Proofs about Watchdog, for any number of processes, calls and jobs: the *)
(* types, and that one watchdog runs, the one the pid file names, as long  *)
(* as the page stays open and waits for it.                                *)
(***************************************************************************)
EXTENDS Watchdog, TLAPS

Places == {"unborn", "boot", "claim", "rest", "check", "backoff", "gateway",
           "wait", "trigger", "leaving", "dead"}
CallStates == [kind : {"none", "start", "deploy", "stop", "uninstall"},
               pc : {"idle", "called", "read", "spawn", "killed", "done"},
               seen : Procs \cup {NoProc}, mount : 0..MaxRemounts]
JobStates == [status : Statuses, retries : 0..MaxRetries, key : 0..MaxDue,
              escalated : 0..MaxDue]

\* The parts of TypeOK.
CallOK ==
  /\ call \in [Calls -> CallStates]
  /\ action \in {"none", "start", "deploy", "stop", "uninstall", "poll"}
  /\ remounts \in 0..MaxRemounts
  /\ script \in BOOLEAN
ProcOK ==
  /\ pidFile \in Procs \cup {NoProc}
  /\ pc \in [Procs -> Places]
  /\ sigterm \in SUBSET Procs
CycleOK ==
  /\ todo \in [Procs -> SUBSET Jobs] /\ cur \in [Procs -> SUBSET Jobs]
  /\ expected \in [Procs -> [Jobs -> 0..MaxDue]]
  /\ alive \in [Procs -> BOOLEAN]
  /\ job \in [Procs -> [Jobs -> JobStates]]
WorldOK ==
  /\ mix \in Mixes
  /\ due \in [Jobs -> 0..MaxDue] /\ lastRun \in [Jobs -> 0..MaxDue]
  /\ gateway \in BOOLEAN /\ outages \in 0..MaxOutages
  /\ started \in SUBSET Jobs

\* A job that is being remedied has attempts left.
RetryInv ==
  \A p \in Procs : pc[p] \in {"backoff", "gateway", "wait", "trigger"} =>
    \A j \in cur[p] : job[p][j].retries < MaxRetries

TypeInv == CallOK /\ ProcOK /\ CycleOK /\ WorldOK /\ RetryInv

LEMMA TypeParts == TypeInv => TypeOK
BY DEF TypeInv, CallOK, ProcOK, CycleOK, WorldOK, TypeOK, Places, CallStates,
   JobStates

LEMMA FreshType == FreshJob \in JobStates /\ IdleCall \in CallStates
BY BoundsAssumption DEF FreshJob, JobStates, IdleCall, CallStates, Statuses

LEMMA InitType == Init => TypeInv
<1> SUFFICES ASSUME Init PROVE TypeInv
  OBVIOUS
<1>1. CallOK
  <2>1. call \in [Calls -> CallStates]
    BY FreshType DEF Init
  <2>2. remounts \in 0..MaxRemounts
    BY BoundsAssumption DEF Init
  <2> QED
    BY <2>1, <2>2 DEF Init, CallOK
<1>4. ProcOK
  BY DEF Init, ProcOK, Places
<1>5. WorldOK
  BY BoundsAssumption DEF Init, WorldOK
<1>2. CycleOK
  BY FreshType, BoundsAssumption DEF Init, CycleOK
<1>3. RetryInv
  BY DEF Init, RetryInv
<1> QED
  BY <1>1, <1>2, <1>3, <1>4, <1>5 DEF TypeInv

-----------------------------------------------------------------------------
(* Types: the commands and the page                                        *)

LEMMA AtType ==
  ASSUME CallOK, NEW c \in Calls,
         NEW where \in {"idle", "called", "read", "spawn", "killed", "done"},
         At(c, where)
  PROVE  call' \in [Calls -> CallStates]
BY DEF CallOK, At, CallStates

LEMMA ReturnsType ==
  ASSUME CallOK, NEW c \in Calls, Returns(c)
  PROVE  call' \in [Calls -> CallStates]
<1>1. [IdleCall EXCEPT !.pc = "done"] \in CallStates
  BY FreshType DEF CallStates
<1> QED
  BY <1>1 DEF CallOK, Returns

\* A call changes nothing a check cycle uses.
LEMMA CallCycle ==
  ASSUME TypeInv, NEW c \in Calls, CallNext(c)
  PROVE  CycleOK' /\ WorldOK' /\ RetryInv'
<1>1. UNCHANGED <<cycleVars, worldVars>>
  BY DEF CallNext, CallProceeds, Press, PressDeploy, ReadPid, StartRefused,
     StartFound, StartNotFound, Spawn, SpawnFails, Kill, RemovePid
<1>2. CycleOK' /\ WorldOK'
  BY <1>1 DEF TypeInv, CycleOK, WorldOK, cycleVars, worldVars
<1>3. \A p \in Procs : pc'[p] \in {"backoff", "gateway", "wait", "trigger"} =>
                        pc'[p] = pc[p]
  BY DEF CallNext, CallProceeds, Press, PressDeploy, ReadPid, StartRefused,
     StartFound, StartNotFound, Spawn, SpawnFails, Kill, RemovePid, procVars,
     TypeInv, ProcOK
<1> QED
  BY <1>1, <1>2, <1>3 DEF TypeInv, RetryInv, cycleVars

LEMMA CallType ==
  ASSUME TypeInv, NEW c \in Calls, CallNext(c)
  PROVE  CallOK' /\ ProcOK'
<1>0. CallOK /\ ProcOK /\ remounts \in 0..MaxRemounts
  BY DEF TypeInv, CallOK
<1>1. ASSUME NEW kind \in {"start", "stop", "uninstall"}, Press(c, kind)
      PROVE  CallOK' /\ ProcOK'
  <2>1. [kind |-> kind, pc |-> "called", seen |-> NoProc, mount |-> remounts]
          \in CallStates
    BY <1>0 DEF CallStates
  <2> QED
    BY <1>0, <1>1, <2>1 DEF Press, CallOK, ProcOK, procVars
<1>2. CASE PressDeploy(c)
  <2>1. [kind |-> "deploy", pc |-> "called", seen |-> NoProc, mount |-> remounts]
          \in CallStates
    BY <1>0 DEF CallStates
  <2>2. call' \in [Calls -> CallStates] /\ script' \in BOOLEAN
    BY <1>0, <1>2, <2>1, ReturnsType DEF PressDeploy, CallOK
  <2> QED
    BY <1>0, <1>2, <2>2 DEF PressDeploy, CallOK, ProcOK, procVars
<1>3. CASE ReadPid(c)
  <2>0. [call[c] EXCEPT !.pc = "read", !.seen = pidFile] \in CallStates
    BY <1>0 DEF CallOK, ProcOK, CallStates
  <2>2. call' = [call EXCEPT ![c] = [call[c] EXCEPT !.pc = "read", !.seen = pidFile]]
    BY <1>0, <1>3 DEF ReadPid, CallOK, CallStates
  <2>1. call' \in [Calls -> CallStates]
    BY <1>0, <2>0, <2>2 DEF CallOK
  <2> QED
    BY <1>0, <1>3, <2>1 DEF ReadPid, CallOK, ProcOK, procVars
<1>4. CASE StartRefused(c) \/ StartFound(c) \/ SpawnFails(c)
  BY <1>0, <1>4, ReturnsType
     DEF StartRefused, StartFound, SpawnFails, Answers, Refused, CallOK, ProcOK,
         procVars
<1>5. CASE StartNotFound(c)
  BY <1>0, <1>5, AtType DEF StartNotFound, CallOK, ProcOK, procVars
<1>6. CASE Spawn(c)
  BY <1>0, <1>6, ReturnsType DEF Spawn, Answers, Refused, CallOK, ProcOK, Places
<1>7. CASE Kill(c)
  <2>1. sigterm' \in SUBSET Procs
    BY <1>0, <1>7 DEF Kill, ProcOK, Alive
  <2> QED
    BY <1>0, <1>7, <2>1, AtType DEF Kill, CallOK, ProcOK
<1>8. CASE RemovePid(c)
  BY <1>0, <1>8, ReturnsType DEF RemovePid, Answers, CallOK, ProcOK
<1> QED
  BY <1>1, <1>2, <1>3, <1>4, <1>5, <1>6, <1>7, <1>8 DEF CallNext, CallProceeds

LEMMA PageType ==
  ASSUME TypeInv, Poll \/ Remount
  PROVE  TypeInv'
<1>1. CallOK'
  BY BoundsAssumption DEF TypeInv, CallOK, Poll, Remount
<1>2. ProcOK' /\ CycleOK' /\ WorldOK' /\ RetryInv'
  BY DEF TypeInv, ProcOK, CycleOK, WorldOK, RetryInv, Poll, Remount, procVars,
     cycleVars, worldVars
<1> QED
  BY <1>1, <1>2 DEF TypeInv

-----------------------------------------------------------------------------
(* Types: the processes                                                    *)

LEMMA FreshCycle == [j \in Jobs |-> FreshJob] \in [Jobs -> JobStates]
BY FreshType

LEMMA ExitType ==
  ASSUME TypeInv, NEW p \in Procs, Exit(p)
  PROVE  CycleOK' /\ pc' \in [Procs -> Places] /\ RetryInv'
<1>0. CycleOK /\ ProcOK /\ RetryInv
  BY DEF TypeInv
<1>1. CycleOK'
  <2>1. [j \in Jobs |-> 0] \in [Jobs -> 0..MaxDue]
    BY BoundsAssumption
  <2>2. job' \in [Procs -> [Jobs -> JobStates]]
    BY <1>0, FreshCycle DEF CycleOK, Exit
  <2>3. expected' \in [Procs -> [Jobs -> 0..MaxDue]]
    BY <1>0, <2>1 DEF CycleOK, Exit
  <2> QED
    BY <1>0, <2>2, <2>3 DEF CycleOK, Exit
<1>2. pc' \in [Procs -> Places]
  BY <1>0 DEF ProcOK, Exit, Move, Places
<1>3. pc'[p] = "dead" /\ \A q \in Procs \ {p} : pc'[q] = pc[q] /\ cur'[q] = cur[q] /\ job'[q] = job[q]
  BY <1>0 DEF ProcOK, CycleOK, Exit, Move
<1> QED
  BY <1>0, <1>1, <1>2, <1>3 DEF RetryInv

\* A process that goes elsewhere without a job in hand keeps the counts.
LEMMA MoveRetry ==
  ASSUME TypeInv, NEW p \in Procs, NEW where \in Places, Move(p, where),
         UNCHANGED <<cur, job>>,
         \/ where \notin {"backoff", "gateway", "wait", "trigger"}
         \/ pc[p] \in {"backoff", "gateway", "wait", "trigger"}
  PROVE  RetryInv' /\ pc' \in [Procs -> Places]
BY DEF TypeInv, ProcOK, RetryInv, Move

LEMMA ClaimType ==
  ASSUME TypeInv, NEW p \in Procs,
         AcquireTaken(p) \/ AcquireFree(p) \/ WritePid(p)
  PROVE  TypeInv'
<1>0. CallOK /\ ProcOK /\ CycleOK /\ WorldOK
  BY DEF TypeInv
<1>5. CallOK' /\ WorldOK'
  BY <1>0 DEF AcquireTaken, AcquireFree, WritePid, CallOK, WorldOK, callVars,
     worldVars
<1>1. CASE AcquireTaken(p)
  BY <1>0, <1>1, <1>5, ExitType DEF AcquireTaken, TypeInv, ProcOK
<1>2. CASE AcquireFree(p)
  <2>1. RetryInv' /\ pc' \in [Procs -> Places]
    BY <1>2, MoveRetry DEF AcquireFree, cycleVars, Places
  <2> QED
    BY <1>0, <1>2, <1>5, <2>1 DEF AcquireFree, TypeInv, ProcOK, CycleOK, cycleVars
<1>3. CASE WritePid(p)
  <2>1. RetryInv' /\ pc' \in [Procs -> Places]
    BY <1>3, MoveRetry DEF WritePid, cycleVars, Places
  <2> QED
    BY <1>0, <1>3, <1>5, <2>1 DEF WritePid, TypeInv, ProcOK, CycleOK, cycleVars
<1> QED
  BY <1>1, <1>2, <1>3

LEMMA LeaveType ==
  ASSUME TypeInv, NEW p \in Procs, Shutdown(p) \/ Unlink(p) \/ Crash(p)
  PROVE  TypeInv'
<1>0. CallOK /\ ProcOK /\ CycleOK /\ WorldOK
  BY DEF TypeInv
<1>1. CallOK' /\ WorldOK'
  BY <1>0 DEF Shutdown, Unlink, Crash, CallOK, WorldOK, callVars, worldVars
<1>2. pidFile' \in Procs \cup {NoProc} /\ sigterm' \in SUBSET Procs
  BY <1>0 DEF Shutdown, Unlink, Crash, ProcOK
<1>3. CASE Exit(p)
  BY <1>1, <1>2, <1>3, ExitType DEF TypeInv, ProcOK
<1>4. CASE Move(p, "leaving") /\ UNCHANGED cycleVars
  <2>1. RetryInv' /\ pc' \in [Procs -> Places]
    BY <1>4, MoveRetry DEF cycleVars, Places
  <2> QED
    BY <1>0, <1>1, <1>2, <1>4, <2>1 DEF TypeInv, ProcOK, CycleOK, cycleVars
<1> QED
  BY <1>3, <1>4 DEF Shutdown, Unlink, Crash

\* Steps of a check cycle leave the calls, the pid file and most of the
\* world alone.
LEMMA CycleFrame ==
  ASSUME TypeInv, NEW p \in Procs,
         UNCHANGED <<callVars, pidFile, sigterm, mix, due, lastRun, outages>>,
         gateway' \in BOOLEAN, started' \in SUBSET Jobs
  PROVE  CallOK' /\ WorldOK' /\ pidFile' \in Procs \cup {NoProc}
           /\ sigterm' \in SUBSET Procs
BY DEF TypeInv, CallOK, ProcOK, WorldOK, callVars

\* A step that moves a process, with or without a probe of the gateway, and
\* leaves what it knows of the jobs alone.
LEMMA WalkType ==
  ASSUME TypeInv, NEW p \in Procs,
         BackedOff(p) \/ GatewayKnownUp(p) \/ OpenclawUp(p) \/ GatewayReached(p)
  PROVE  TypeInv'
<1>0. CallOK /\ ProcOK /\ CycleOK /\ WorldOK
  BY DEF TypeInv
<1>1. UNCHANGED <<callVars, pidFile, sigterm, mix, due, lastRun, outages,
                  started, cur, job, todo, expected>>
  BY DEF BackedOff, GatewayKnownUp, OpenclawUp, GatewayReached, cycleVars,
     worldVars
<1>2. gateway' \in BOOLEAN /\ started' \in SUBSET Jobs
  BY <1>0, <1>1 DEF BackedOff, GatewayKnownUp, OpenclawUp, GatewayReached,
     WorldOK, worldVars
<1>3. CallOK' /\ WorldOK' /\ pidFile' \in Procs \cup {NoProc}
        /\ sigterm' \in SUBSET Procs
  BY <1>1, <1>2, CycleFrame
<1>4. RetryInv' /\ pc' \in [Procs -> Places]
  BY <1>1, MoveRetry DEF BackedOff, GatewayKnownUp, OpenclawUp, GatewayReached,
     Places
<1>5. alive' \in [Procs -> BOOLEAN]
  BY <1>0 DEF BackedOff, GatewayKnownUp, OpenclawUp, GatewayReached, cycleVars,
     CycleOK
<1> QED
  BY <1>0, <1>1, <1>3, <1>4, <1>5 DEF TypeInv, ProcOK, CycleOK

LEMMA BoundsType ==
  ASSUME TypeInv, NEW p \in Procs, BeginCycle(p) \/ EndCycle(p)
  PROVE  TypeInv'
<1>0. CallOK /\ ProcOK /\ CycleOK /\ WorldOK
  BY DEF TypeInv
<1>1. UNCHANGED <<callVars, pidFile, sigterm, worldVars, cur, job>>
  BY DEF BeginCycle, EndCycle
<1>2. gateway' \in BOOLEAN /\ started' \in SUBSET Jobs
  BY <1>0, <1>1 DEF WorldOK, worldVars
<1>3. CallOK' /\ WorldOK' /\ pidFile' \in Procs \cup {NoProc}
        /\ sigterm' \in SUBSET Procs
  BY <1>1, <1>2, CycleFrame DEF worldVars
<1>4. RetryInv' /\ pc' \in [Procs -> Places]
  BY <1>1, MoveRetry DEF BeginCycle, EndCycle, Places
<1>5. [j \in Jobs |-> 0] \in [Jobs -> 0..MaxDue]
  BY BoundsAssumption
<1>6. expected' \in [Procs -> [Jobs -> 0..MaxDue]]
  BY <1>0, <1>5 DEF BeginCycle, EndCycle, CycleOK, WorldOK
<1>7. todo' \in [Procs -> SUBSET Jobs]
  BY <1>0 DEF BeginCycle, EndCycle, CycleOK
<1>8. \E b \in BOOLEAN : alive' = [alive EXCEPT ![p] = b]
  BY <1>0, Zenon DEF BeginCycle, EndCycle, WorldOK
<1>9. alive' \in [Procs -> BOOLEAN]
  BY <1>0, <1>8 DEF CycleOK
<1> QED
  BY <1>0, <1>1, <1>3, <1>4, <1>6, <1>7, <1>9 DEF TypeInv, ProcOK, CycleOK

\* The end of a remedy: the job in hand is let go.
LEMMA SettleType ==
  ASSUME TypeInv, NEW p \in Procs, NEW F,
         F \in [Jobs -> JobStates],
         UNCHANGED <<callVars, pidFile, sigterm, todo, expected, alive, mix,
                     due, lastRun, outages>>,
         gateway' \in BOOLEAN, started' \in SUBSET Jobs,
         job' = [job EXCEPT ![p] = F],
         cur' = [cur EXCEPT ![p] = {}],
         Move(p, "check")
  PROVE  TypeInv'
<1>0. CallOK /\ ProcOK /\ CycleOK /\ WorldOK /\ RetryInv
  BY DEF TypeInv
<1>1. CallOK' /\ WorldOK' /\ pidFile' \in Procs \cup {NoProc}
        /\ sigterm' \in SUBSET Procs
  BY CycleFrame
<1>2. pc' \in [Procs -> Places] /\ pc'[p] = "check"
  BY <1>0 DEF ProcOK, Move, Places
<1>3. job' \in [Procs -> [Jobs -> JobStates]] /\ cur' \in [Procs -> SUBSET Jobs]
  BY <1>0 DEF CycleOK
<1>4. \A q \in Procs \ {p} : pc'[q] = pc[q] /\ cur'[q] = cur[q] /\ job'[q] = job[q]
  BY <1>0 DEF ProcOK, CycleOK, Move
<1>5. RetryInv'
  BY <1>0, <1>2, <1>4 DEF RetryInv
<1> QED
  BY <1>0, <1>1, <1>2, <1>3, <1>5 DEF TypeInv, ProcOK, CycleOK

\* One more failed attempt stays within the limit.
LEMMA FailedType ==
  ASSUME NEW s \in JobStates, s.retries < MaxRetries
  PROVE  Failed(s) \in JobStates
<1>1. s.retries + 1 \in 0..MaxRetries
  BY BoundsAssumption DEF JobStates
<1> QED
  BY <1>1 DEF Failed, JobStates, Statuses

LEMMA FailType ==
  ASSUME TypeInv, NEW p \in Procs, GatewayNotReached(p) \/ TriggerFails(p)
  PROVE  TypeInv'
<1> DEFINE F == [j \in Jobs |-> IF j \in cur[p] THEN Failed(job[p][j])
                                               ELSE job[p][j]]
<1>0. CycleOK /\ WorldOK /\ RetryInv
  BY DEF TypeInv
<1>1. pc[p] \in {"wait", "trigger"}
  BY DEF GatewayNotReached, TriggerFails
<1>2. ASSUME NEW j \in Jobs PROVE F[j] \in JobStates
  <2>1. job[p][j] \in JobStates
    BY <1>0 DEF CycleOK
  <2>2. CASE j \in cur[p]
    <3>1. job[p][j].retries < MaxRetries
      BY <1>0, <1>1, <2>2 DEF RetryInv
    <3> QED
      BY <2>1, <2>2, <3>1, FailedType
  <2> QED
    BY <2>1, <2>2
<1>3. F \in [Jobs -> JobStates]
  BY <1>2
<1>4. job' = [job EXCEPT ![p] = F]
  BY <1>0 DEF GatewayNotReached, TriggerFails, CycleOK
<1>5. gateway' \in BOOLEAN /\ started' \in SUBSET Jobs
  BY <1>0 DEF GatewayNotReached, TriggerFails, worldVars, WorldOK
<1> HIDE DEF F
<1> QED
  BY <1>3, <1>4, <1>5, SettleType DEF GatewayNotReached, TriggerFails, worldVars

LEMMA TriggerType ==
  ASSUME TypeInv, NEW p \in Procs, TriggerOk(p)
  PROVE  TypeInv'
<1> DEFINE F == [j \in Jobs |-> IF j \in cur[p]
                   THEN [job[p][j] EXCEPT !.status = "triggered", !.retries = 0]
                   ELSE job[p][j]]
<1>0. CycleOK /\ WorldOK
  BY DEF TypeInv
<1>1. ASSUME NEW j \in Jobs PROVE F[j] \in JobStates
  <2>1. job[p][j] \in JobStates
    BY <1>0 DEF CycleOK
  <2>2. [job[p][j] EXCEPT !.status = "triggered", !.retries = 0] \in JobStates
    <3>1. 0 \in 0..MaxRetries /\ "triggered" \in Statuses
      BY BoundsAssumption DEF Statuses
    <3> QED
      BY <2>1, <3>1 DEF JobStates
  <2> QED
    BY <2>1, <2>2
<1>2. F \in [Jobs -> JobStates]
  BY <1>1
<1>3. job' = [job EXCEPT ![p] = F]
  BY <1>0 DEF TriggerOk, CycleOK
<1>4. gateway' \in BOOLEAN /\ started' \in SUBSET Jobs
  BY <1>0 DEF TriggerOk, WorldOK, CycleOK
<1> HIDE DEF F
<1> QED
  BY <1>2, <1>3, <1>4, SettleType DEF TriggerOk

LEMMA LiftedType ==
  ASSUME NEW s \in JobStates, NEW key \in 0..MaxDue
  PROVE  Lifted(s, key) \in JobStates
<1>1. [s EXCEPT !.key = key] \in JobStates
  BY DEF JobStates
<1>2. [FreshJob EXCEPT !.key = key] \in JobStates
  BY FreshType DEF JobStates
<1> QED
  BY <1>1, <1>2 DEF Lifted

LEMMA NoteType ==
  ASSUME TypeInv, NEW p \in Procs, NEW j \in Jobs, NEW t \in JobStates,
         job' = [job EXCEPT ![p][j] = t]
  PROVE  /\ job' \in [Procs -> [Jobs -> JobStates]]
         /\ job'[p][j] = t
         /\ \A q \in Procs \ {p} : job'[q] = job[q]
BY DEF TypeInv, CycleOK

\* What the cycle notes of a job, and where it goes with it.
LEMMA LookNotes ==
  ASSUME TypeInv, NEW p \in Procs, NEW j \in Jobs, Look(p, j)
  PROVE  \E t \in JobStates :
           /\ job' = [job EXCEPT ![p][j] = t]
           /\ \/ UNCHANGED <<pc, cur>>
              \/ /\ \E where \in {"backoff", "gateway"} : Move(p, where)
                 /\ cur' = [cur EXCEPT ![p] = {j}]
                 /\ t.retries < MaxRetries
<1> DEFINE s == Lifted(job[p][j], expected[p][j])
<1>0. job[p][j] \in JobStates /\ expected[p][j] \in 0..MaxDue
  BY DEF TypeInv, CycleOK
<1>1. s \in JobStates
  BY <1>0, LiftedType
<1>2. s.retries \in Nat /\ s.retries <= MaxRetries /\ MaxRetries > 0
  BY <1>1, BoundsAssumption DEF JobStates
<1>3. 0 \in 0..MaxRetries
  BY BoundsAssumption
<1>4. \A status \in Statuses : [s EXCEPT !.status = status] \in JobStates
  BY <1>1 DEF JobStates
<1>5. [s EXCEPT !.status = "ok", !.retries = 0] \in JobStates
  BY <1>1, <1>3 DEF JobStates, Statuses
<1>6. [s EXCEPT !.status = "escalated", !.escalated = expected[p][j]] \in JobStates
  BY <1>0, <1>1 DEF JobStates, Statuses
<1>7. \A status \in Statuses : [s EXCEPT !.status = status].retries = s.retries
  BY <1>1 DEF JobStates
<1>8. {"pending", "retrying"} \subseteq Statuses
  BY DEF Statuses
<1>9. \/ /\ job' = [job EXCEPT ![p][j] = s] /\ UNCHANGED <<pc, cur>>
      \/ /\ job' = [job EXCEPT ![p][j] = [s EXCEPT !.status = "ok", !.retries = 0]]
         /\ UNCHANGED <<pc, cur>>
      \/ /\ job' = [job EXCEPT ![p][j] = [s EXCEPT !.status = "escalated",
                                          !.escalated = expected[p][j]]]
         /\ UNCHANGED <<pc, cur>>
      \/ /\ s.retries > 0 /\ ~Exhausted(s)
         /\ job' = [job EXCEPT ![p][j] = [s EXCEPT !.status = "retrying"]]
         /\ Move(p, "backoff") /\ cur' = [cur EXCEPT ![p] = {j}]
      \/ /\ s.retries = 0
         /\ job' = [job EXCEPT ![p][j] = [s EXCEPT !.status = "pending"]]
         /\ Move(p, "gateway") /\ cur' = [cur EXCEPT ![p] = {j}]
  BY DEF Look
<1>10. ~Exhausted(s) => s.retries < MaxRetries
  BY <1>2, BoundsAssumption DEF Exhausted
<1> HIDE DEF s
<1>11. ASSUME NEW t \in JobStates, job' = [job EXCEPT ![p][j] = t],
              UNCHANGED <<pc, cur>>
       PROVE  \E u \in JobStates : /\ job' = [job EXCEPT ![p][j] = u]
                                  /\ UNCHANGED <<pc, cur>>
  BY <1>11
<1>12. ASSUME s.retries < MaxRetries,
              NEW status \in {"pending", "retrying"}, NEW where \in {"backoff", "gateway"},
              job' = [job EXCEPT ![p][j] = [s EXCEPT !.status = status]],
              Move(p, where), cur' = [cur EXCEPT ![p] = {j}]
       PROVE  \E t \in JobStates :
                /\ job' = [job EXCEPT ![p][j] = t]
                /\ \E w \in {"backoff", "gateway"} : Move(p, w)
                /\ cur' = [cur EXCEPT ![p] = {j}]
                /\ t.retries < MaxRetries
  <2>1. [s EXCEPT !.status = status] \in JobStates
    BY <1>4, <1>8
  <2>2. [s EXCEPT !.status = status].retries < MaxRetries
    BY <1>7, <1>8, <1>12
  <2> QED
    BY <2>1, <2>2, <1>12
<1> QED
  BY <1>1, <1>2, <1>5, <1>6, <1>9, <1>10, <1>11, <1>12

LEMMA LookType ==
  ASSUME TypeInv, NEW p \in Procs, NEW j \in Jobs, Look(p, j)
  PROVE  TypeInv'
<1>0. ProcOK /\ CycleOK /\ WorldOK /\ RetryInv
  BY DEF TypeInv
<1>1. UNCHANGED <<callVars, pidFile, sigterm, expected, alive, worldVars>>
  BY DEF Look
<1>2. CallOK' /\ WorldOK' /\ pidFile' \in Procs \cup {NoProc}
        /\ sigterm' \in SUBSET Procs
  BY <1>0, <1>1, CycleFrame DEF worldVars, WorldOK
<1>3. todo' \in [Procs -> SUBSET Jobs]
  BY <1>0 DEF Look, CycleOK
<1>4. PICK t \in JobStates :
        /\ job' = [job EXCEPT ![p][j] = t]
        /\ \/ UNCHANGED <<pc, cur>>
           \/ /\ \E where \in {"backoff", "gateway"} : Move(p, where)
              /\ cur' = [cur EXCEPT ![p] = {j}]
              /\ t.retries < MaxRetries
  BY LookNotes
<1>5. /\ job' \in [Procs -> [Jobs -> JobStates]]
      /\ job'[p][j] = t
      /\ \A q \in Procs \ {p} : job'[q] = job[q]
  BY <1>4, NoteType
<1>6. pc[p] = "check"
  BY DEF Look
<1>7. CASE UNCHANGED <<pc, cur>>
  <2>1. RetryInv'
    BY <1>0, <1>5, <1>6, <1>7 DEF RetryInv
  <2> QED
    BY <1>0, <1>1, <1>2, <1>3, <1>5, <1>7, <2>1 DEF TypeInv, ProcOK, CycleOK
<1>8. ASSUME NEW where \in {"backoff", "gateway"}, Move(p, where),
             cur' = [cur EXCEPT ![p] = {j}], t.retries < MaxRetries
      PROVE  TypeInv'
  <2>1. pc' \in [Procs -> Places] /\ \A q \in Procs \ {p} : pc'[q] = pc[q]
    BY <1>0, <1>8 DEF ProcOK, Move, Places
  <2>2. /\ cur' \in [Procs -> SUBSET Jobs] /\ cur'[p] = {j}
        /\ \A q \in Procs \ {p} : cur'[q] = cur[q]
    BY <1>0, <1>8 DEF CycleOK
  <2>3. RetryInv'
    BY <1>0, <1>5, <1>8, <2>1, <2>2 DEF RetryInv
  <2> QED
    BY <1>0, <1>1, <1>2, <1>3, <1>5, <2>1, <2>2, <2>3 DEF TypeInv, ProcOK, CycleOK
<1> QED
  BY <1>4, <1>7, <1>8

LEMMA WorldType ==
  ASSUME TypeInv,
         \/ \E j \in Jobs : TimePasses(j) \/ JobRecords(j)
         \/ GatewayGoesDown
  PROVE  TypeInv'
<1>0. WorldOK
  BY DEF TypeInv
<1>1. UNCHANGED <<callVars, procVars, cycleVars, mix>>
  BY DEF TimePasses, JobRecords, GatewayGoesDown
<1>2. CallOK' /\ ProcOK' /\ CycleOK' /\ RetryInv'
  BY <1>1 DEF TypeInv, CallOK, ProcOK, CycleOK, RetryInv, callVars, procVars,
     cycleVars
<1>3. ASSUME NEW j \in Jobs, TimePasses(j) PROVE WorldOK'
  <2>1. due[j] + 1 \in 0..MaxDue
    BY <1>0, <1>3, BoundsAssumption DEF WorldOK, TimePasses
  <2>2. due' \in [Jobs -> 0..MaxDue]
    BY <1>0, <1>3, <2>1 DEF WorldOK, TimePasses
  <2>3. started' \in SUBSET Jobs
    BY <1>0, <1>3 DEF WorldOK, TimePasses
  <2> QED
    BY <1>0, <1>3, <2>2, <2>3 DEF WorldOK, TimePasses
<1>4. ASSUME NEW j \in Jobs, JobRecords(j) PROVE WorldOK'
  BY <1>0, <1>4 DEF WorldOK, JobRecords
<1>5. ASSUME GatewayGoesDown PROVE WorldOK'
  <2>1. outages' \in 0..MaxOutages
    BY <1>0, <1>5, BoundsAssumption DEF WorldOK, GatewayGoesDown
  <2>2. gateway' \in BOOLEAN
    BY <1>5 DEF GatewayGoesDown
  <2> QED
    BY <1>0, <1>5, <2>1, <2>2 DEF WorldOK, GatewayGoesDown
<1>6. WorldOK'
  BY <1>3, <1>4, <1>5
<1> QED
  BY <1>2, <1>6 DEF TypeInv

-----------------------------------------------------------------------------
LEMMA NextType == TypeInv /\ [Next]_vars => TypeInv'
<1> SUFFICES ASSUME TypeInv, [Next]_vars PROVE TypeInv'
  OBVIOUS
<1>1. ASSUME NEW c \in Calls, CallNext(c) PROVE TypeInv'
  BY <1>1, CallType, CallCycle DEF TypeInv
<1>2. ASSUME NEW p \in Procs, ProcessStep(p) \/ Crash(p) PROVE TypeInv'
  BY <1>2, ClaimType, LeaveType, BoundsType, LookType, WalkType, FailType,
     TriggerType DEF ProcessStep
<1>3. CASE UNCHANGED vars
  BY <1>3 DEF vars, callVars, procVars, cycleVars, worldVars, TypeInv, CallOK,
     ProcOK, CycleOK, WorldOK, RetryInv
<1> QED
  BY <1>1, <1>2, <1>3, PageType, WorldType DEF Next

\* The watchdog's state has its types, and no job is tried once more than
\* MAX_RETRIES times in a row (remediate, runCheckCycle).
THEOREM TypeCorrect == Spec => []TypeOK
<1>1. Init => TypeInv
  BY InitType
<1>2. TypeInv /\ [Next]_vars => TypeInv'
  BY NextType
<1>3. TypeInv => TypeOK
  BY TypeParts
<1> QED
  BY <1>1, <1>2, <1>3, PTL DEF Spec

-----------------------------------------------------------------------------
(* One watchdog.  The page makes one call at a time and waits, after a     *)
(* start, until the new process has written its pid; so a process that has *)
(* not yet written it meets no other, and a call finds the pid file as it  *)
(* has read it.                                                            *)

\* What wdAction says while a command is on its way.
Asked == {"start", "deploy", "stop", "uninstall"}

\* The part of CalmInv about the page and the calls it has made.
CalmPage ==
  /\ remounts = 0
  /\ \A c \in Calls : call[c].mount = 0
  /\ \A c \in Calls : Busy(c) => /\ call[c].kind = action
                               /\ action \in Asked
  /\ \A c, d \in Calls : Busy(c) /\ Busy(d) => c = d

Claiming(p) == pc[p] \in {"boot", "claim"}

\* A process that has not yet written its pid is alone, and waited for.
BootAlone ==
  /\ \A p \in Procs : Claiming(p) => action = "poll" /\ ~Found(pidFile)
  /\ \A p, q \in Procs : Claiming(p) /\ Claiming(q) => p = q

\* The pid file names a process that has written it.
PidHolds ==
  /\ pidFile # NoProc => pc[pidFile] \notin {"unborn", "boot", "claim"}
  /\ \A p \in Procs : pc[p] # "leaving"

Named == \A p \in Procs : Running(p) /\ p \notin sigterm => pidFile = p

\* What a call has read is still so when it acts on it.
CallSees ==
  \A c \in Calls :
    /\ call[c].pc = "read" => pidFile \in {call[c].seen, NoProc}
    /\ call[c].pc = "spawn" => ~Found(pidFile)
    /\ call[c].pc = "killed" =>
         Stops(c) /\ \A p \in Procs : Running(p) => p \in sigterm

CalmInv == CalmPage /\ BootAlone /\ PidHolds /\ Named /\ CallSees

LEMMA InitCalm == Init => CalmInv
BY NoProcAssumption DEF Init, IdleCall, CalmInv, CalmPage, BootAlone, PidHolds,
   Named, CallSees, Busy, Claiming, Running

\* What a call that is not at its end becomes, the others standing still.
LEMMA CallMoves ==
  ASSUME TypeInv, NEW c \in Calls, NEW v, call' = [call EXCEPT ![c] = v]
  PROVE  call'[c] = v /\ \A d \in Calls \ {c} : call'[d] = call[d]
BY DEF TypeInv, CallOK

LEMMA CallPlace ==
  ASSUME TypeInv, NEW c \in Calls, NEW where, At(c, where)
  PROVE  /\ call'[c] = [call[c] EXCEPT !.pc = where]
         /\ call'[c].pc = where /\ call'[c].kind = call[c].kind
         /\ call'[c].seen = call[c].seen /\ call'[c].mount = call[c].mount
         /\ \A d \in Calls \ {c} : call'[d] = call[d]
BY DEF TypeInv, CallOK, CallStates, At

LEMMA CallEnds ==
  ASSUME TypeInv, NEW c \in Calls, Returns(c)
  PROVE  /\ call'[c].pc = "done" /\ call'[c].mount = 0
         /\ \A d \in Calls \ {c} : call'[d] = call[d]
BY DEF TypeInv, CallOK, CallStates, Returns, IdleCall

\* The disturbances are chosen once.
LEMMA MixKept == [Next]_vars => UNCHANGED mix
<1> SUFFICES ASSUME Next PROVE UNCHANGED mix
  BY DEF vars, worldVars
<1>1. ASSUME NEW c \in Calls, CallNext(c) PROVE UNCHANGED mix
  BY <1>1 DEF CallNext, CallProceeds, Press, PressDeploy, ReadPid, StartRefused,
     StartFound, StartNotFound, Spawn, SpawnFails, Kill, RemovePid, worldVars
<1>2. ASSUME NEW p \in Procs, ProcessStep(p) \/ Crash(p) PROVE UNCHANGED mix
  BY <1>2 DEF ProcessStep, AcquireTaken, AcquireFree, WritePid, Shutdown, Unlink,
     BeginCycle, Look, BackedOff, GatewayKnownUp, OpenclawUp, GatewayReached,
     GatewayNotReached, TriggerOk, TriggerFails, EndCycle, Crash, worldVars
<1> QED
  BY <1>1, <1>2 DEF Next, Poll, Remount, TimePasses, JobRecords, GatewayGoesDown,
     worldVars

\* A button is pressed: no other call is on its way.
LEMMA PressCalm ==
  ASSUME TypeInv, CalmInv, UNCHANGED mix, NEW c \in Calls,
         NEW kind \in Asked,
         action = "none",
         call' = [call EXCEPT ![c] = [kind |-> kind, pc |-> "called",
                                      seen |-> NoProc, mount |-> remounts]],
         action' = kind, UNCHANGED <<remounts, procVars>>
  PROVE  CalmInv'
<1>0. CalmPage /\ BootAlone /\ PidHolds /\ Named /\ CallSees
  BY DEF CalmInv
<1>1. /\ call'[c] = [kind |-> kind, pc |-> "called", seen |-> NoProc,
                     mount |-> remounts]
      /\ \A d \in Calls \ {c} : call'[d] = call[d]
  BY CallMoves
<1>2. \A d \in Calls : ~Busy(d)
  BY <1>0 DEF CalmPage, Asked
<1>3. \A p \in Procs : ~Claiming(p)
  BY <1>0 DEF BootAlone
<1>4. CalmPage'
  BY <1>0, <1>1, <1>2 DEF CalmPage, Busy
<1>5. BootAlone' /\ PidHolds' /\ Named'
  BY <1>0, <1>3 DEF BootAlone, PidHolds, Named, Claiming, Running, procVars
<1>6. CallSees'
  BY <1>0, <1>1, <1>2 DEF CallSees, Busy
<1> QED
  BY <1>4, <1>5, <1>6 DEF CalmInv

\* A deployment that fails at once leaves its name on the buttons.
LEMMA DeployCalm ==
  ASSUME TypeInv, CalmInv, UNCHANGED mix, NEW c \in Calls, action = "none",
         Returns(c), UNCHANGED <<remounts, procVars>>
  PROVE  CalmInv'
<1>0. CalmPage /\ BootAlone /\ PidHolds /\ Named /\ CallSees
  BY DEF CalmInv
<1>1. \A d \in Calls : ~Busy(d) /\ ~Busy(d)'
  BY <1>0, CallEnds DEF CalmPage, Busy, Asked
<1>2. \A p \in Procs : ~Claiming(p)
  BY <1>0 DEF BootAlone
<1>3. CalmPage' /\ CallSees'
  BY <1>0, <1>1, CallEnds DEF CalmPage, CallSees, Busy
<1>4. BootAlone' /\ PidHolds' /\ Named'
  BY <1>0, <1>2 DEF BootAlone, PidHolds, Named, Claiming, Running, procVars
<1> QED
  BY <1>3, <1>4 DEF CalmInv

\* A busy call: it is alone, and no process is about to write its pid.
LEMMA BusyAlone ==
  ASSUME CalmInv, NEW c \in Calls, Busy(c)
  PROVE  /\ call[c].kind = action /\ action \in Asked
         /\ \A d \in Calls \ {c} : ~Busy(d)
         /\ \A p \in Procs : ~Claiming(p)
         /\ call[c].mount = remounts
BY DEF CalmInv, CalmPage, BootAlone, Asked

\* The call that is under way goes on to its next place.
LEMMA GoOnCalm ==
  ASSUME TypeInv, CalmInv, NEW c \in Calls, Busy(c), Busy(c)',
         call'[c].kind = call[c].kind, call'[c].mount = call[c].mount,
         \A d \in Calls \ {c} : call'[d] = call[d],
         UNCHANGED <<action, remounts>>
  PROVE  /\ CalmPage'
         /\ \A d \in Calls \ {c} : ~Busy(d)'
BY BusyAlone DEF CalmInv, CalmPage, Busy

\* It has returned: the page is free, or polls.
LEMMA ReturnCalm ==
  ASSUME TypeInv, CalmInv, NEW c \in Calls, Busy(c), Returns(c),
         NEW next, Answers(c, next), UNCHANGED remounts
  PROVE  /\ CalmPage' /\ CallSees'
         /\ action' = next
<1>0. CalmPage
  BY DEF CalmInv
<1>1. \A d \in Calls \ {c} : ~Busy(d) /\ call'[d] = call[d]
  BY BusyAlone, CallEnds
<1>2. call'[c].pc = "done" /\ call'[c].mount = 0
  BY CallEnds
<1>3. \A d \in Calls : ~Busy(d)'
  BY <1>1, <1>2 DEF Busy
<1>4. CallSees'
  BY <1>3 DEF CallSees, Busy
<1> QED
  BY <1>0, <1>1, <1>2, <1>3, <1>4, BusyAlone DEF CalmPage, Answers

LEMMA ReadPidCalm ==
  ASSUME TypeInv, CalmInv, UNCHANGED mix, NEW c \in Calls, ReadPid(c)
  PROVE  CalmInv'
<1>0. CalmPage /\ BootAlone /\ PidHolds /\ Named /\ CallSees
  BY DEF CalmInv
<1>1. call' = [call EXCEPT ![c] = [call[c] EXCEPT !.pc = "read", !.seen = pidFile]]
  BY DEF ReadPid, TypeInv, CallOK, CallStates
<1>2. /\ call'[c].pc = "read" /\ call'[c].seen = pidFile
      /\ call'[c].kind = call[c].kind /\ call'[c].mount = call[c].mount
      /\ \A d \in Calls \ {c} : call'[d] = call[d]
  BY <1>1 DEF TypeInv, CallOK, CallStates
<1>3. Busy(c) /\ Busy(c)'
  BY <1>2 DEF ReadPid, Busy
<1>4. CalmPage' /\ \A d \in Calls \ {c} : ~Busy(d)'
  BY <1>2, <1>3, GoOnCalm DEF ReadPid
<1>5. BootAlone' /\ PidHolds' /\ Named'
  BY <1>0 DEF ReadPid, BootAlone, PidHolds, Named, Claiming, Running, procVars, Alive,
     Found
<1>6. CallSees'
  BY <1>2, <1>4 DEF CallSees, Busy, ReadPid, procVars
<1> QED
  BY <1>4, <1>5, <1>6 DEF CalmInv

LEMMA StartCalm ==
  ASSUME TypeInv, CalmInv, UNCHANGED mix, NEW c \in Calls,
         StartRefused(c) \/ StartFound(c) \/ SpawnFails(c)
  PROVE  CalmInv'
<1>0. BootAlone /\ PidHolds /\ Named
  BY DEF CalmInv
<1>1. Busy(c) /\ Returns(c) /\ UNCHANGED <<remounts, procVars>>
  BY DEF StartRefused, StartFound, SpawnFails, Starts, Busy
<1>2. \A p \in Procs : ~Claiming(p)
  BY <1>1, BusyAlone
<1>3. CalmPage' /\ CallSees'
  BY <1>1, ReturnCalm DEF StartRefused, StartFound, SpawnFails, Refused
<1>4. BootAlone' /\ PidHolds' /\ Named'
  BY <1>0, <1>1, <1>2 DEF BootAlone, PidHolds, Named, Claiming, Running, procVars
<1> QED
  BY <1>3, <1>4 DEF CalmInv

\* The pid that was read belongs to no living process: nor does the file's.
LEMMA NotFoundCalm ==
  ASSUME TypeInv, CalmInv, UNCHANGED mix, "lost" \notin mix, NEW c \in Calls,
         StartNotFound(c)
  PROVE  CalmInv'
<1>0. CalmPage /\ BootAlone /\ PidHolds /\ Named /\ CallSees
  BY DEF CalmInv
<1>1. /\ call'[c].pc = "spawn" /\ call'[c].kind = call[c].kind
      /\ call'[c].mount = call[c].mount
      /\ \A d \in Calls \ {c} : call'[d] = call[d]
  BY CallPlace DEF StartNotFound
<1>2. Busy(c) /\ Busy(c)' /\ UNCHANGED <<action, remounts, procVars>>
  BY <1>1 DEF StartNotFound, Starts, Busy
<1>3. CalmPage' /\ \A d \in Calls \ {c} : ~Busy(d)'
  BY <1>1, <1>2, GoOnCalm
<1>4. BootAlone' /\ PidHolds' /\ Named'
  BY <1>0, <1>2 DEF BootAlone, PidHolds, Named, Claiming, Running, procVars, Alive,
     Found
<1>5. ~Found(pidFile)
  BY <1>0, NoProcAssumption
     DEF CallSees, StartNotFound, Starts, MayLose, Found, Alive
<1>6. CallSees'
  BY <1>1, <1>2, <1>3, <1>5 DEF CallSees, Busy, StartNotFound, procVars, Found,
     Alive
<1> QED
  BY <1>3, <1>4, <1>6 DEF CalmInv

\* A process is born while none that runs is meant to go on.
LEMMA SpawnCalm ==
  ASSUME TypeInv, CalmInv, UNCHANGED mix, "lost" \notin mix, NEW c \in Calls,
         Spawn(c)
  PROVE  CalmInv'
<1>0. PidHolds /\ Named /\ CallSees
  BY DEF CalmInv
<1>1. Busy(c) /\ Returns(c) /\ UNCHANGED <<remounts, pidFile, sigterm>>
  BY DEF Spawn, Busy
<1>2. \A p \in Procs : ~Claiming(p)
  BY <1>1, BusyAlone
<1>3. CalmPage' /\ CallSees' /\ action' = "poll"
  BY <1>1, ReturnCalm DEF Spawn, MayLose
<1>4. ~Found(pidFile)
  BY <1>0 DEF CallSees, Spawn
<1>5. PICK b \in Procs : ~Born(b) /\ pc' = [pc EXCEPT ![b] = "boot"]
  BY DEF Spawn
<1>6. pc'[b] = "boot" /\ pc[b] = "unborn" /\ \A p \in Procs \ {b} : pc'[p] = pc[p]
  BY <1>5 DEF TypeInv, ProcOK, Born
<1>7. pidFile # b
  BY <1>0, <1>6, NoProcAssumption DEF PidHolds
<1>8. BootAlone'
  BY <1>1, <1>2, <1>3, <1>4, <1>6, <1>7 DEF BootAlone, Claiming, Found, Alive
<1>9. PidHolds'
  BY <1>0, <1>1, <1>6, <1>7, NoProcAssumption DEF PidHolds, TypeInv, ProcOK
<1>10. Named'
  BY <1>0, <1>1, <1>6 DEF Named, Running
<1> QED
  BY <1>3, <1>8, <1>9, <1>10 DEF CalmInv

\* The signal goes to the process the pid file names, and so to the only
\* one that has none yet.
LEMMA KillCalm ==
  ASSUME TypeInv, CalmInv, UNCHANGED mix, "lost" \notin mix, NEW c \in Calls, Kill(c)
  PROVE  CalmInv'
<1>0. CalmPage /\ BootAlone /\ PidHolds /\ Named /\ CallSees
  BY DEF CalmInv
<1>1. /\ call'[c].pc = "killed" /\ call'[c].kind = call[c].kind
      /\ call'[c].mount = call[c].mount
      /\ \A d \in Calls \ {c} : call'[d] = call[d]
  BY CallPlace DEF Kill
<1>2. Busy(c) /\ Busy(c)' /\ UNCHANGED <<action, remounts, pidFile, pc>>
  BY <1>1 DEF Kill, Busy
<1>3. CalmPage' /\ \A d \in Calls \ {c} : ~Busy(d)'
  BY <1>1, <1>2, GoOnCalm
<1>4. sigterm' = sigterm \cup (IF Alive(call[c].seen) THEN {call[c].seen} ELSE {})
  BY DEF Kill, MayLose
<1>5. BootAlone' /\ PidHolds' /\ Named'
  BY <1>0, <1>2, <1>4 DEF BootAlone, PidHolds, Named, Claiming, Running, Found,
     Alive
<1>6. ASSUME NEW p \in Procs, Running(p) PROVE p \in sigterm'
  <2>1. CASE p \in sigterm
    BY <1>4, <2>1
  <2>2. CASE p \notin sigterm
    <3>1. pidFile = p
      BY <1>0, <1>6, <2>2 DEF Named
    <3>2. call[c].seen = p
      BY <1>0, <3>1, NoProcAssumption DEF CallSees, Kill
    <3>3. Alive(p)
      BY <1>6 DEF Running, Alive
    <3> QED
      BY <1>4, <3>2, <3>3
  <2> QED
    BY <2>1, <2>2
<1>7. CallSees'
  BY <1>1, <1>2, <1>3, <1>6 DEF CallSees, Busy, Kill, Stops, Running
<1> QED
  BY <1>3, <1>5, <1>7 DEF CalmInv

LEMMA RemoveCalm ==
  ASSUME TypeInv, CalmInv, UNCHANGED mix, NEW c \in Calls, RemovePid(c)
  PROVE  CalmInv'
<1>0. BootAlone /\ PidHolds /\ Named /\ CallSees
  BY DEF CalmInv
<1>1. Busy(c) /\ Returns(c) /\ UNCHANGED <<remounts, pc, sigterm>>
  BY DEF RemovePid, Busy
<1>2. \A p \in Procs : ~Claiming(p)
  BY <1>1, BusyAlone
<1>3. CalmPage' /\ CallSees'
  BY <1>1, ReturnCalm DEF RemovePid
<1>4. \A p \in Procs : Running(p) => p \in sigterm
  BY <1>0 DEF CallSees, RemovePid
<1>5. BootAlone' /\ Named'
  BY <1>1, <1>2, <1>4 DEF BootAlone, Named, Claiming, Running
<1>6. PidHolds'
  BY <1>0, <1>1 DEF PidHolds, RemovePid
<1> QED
  BY <1>3, <1>5, <1>6 DEF CalmInv

\* The page stops polling: the process has written its pid, or there is none.
LEMMA PollCalm ==
  ASSUME TypeInv, CalmInv, UNCHANGED mix, "slow" \notin mix, Poll
  PROVE  CalmInv'
<1>0. CalmPage /\ BootAlone /\ PidHolds /\ Named /\ CallSees
  BY DEF CalmInv
<1>1. \A p \in Procs : ~Claiming(p)
  BY <1>0 DEF Poll, BootAlone, Seen, Claiming
<1>2. \A c \in Calls : ~Busy(c)
  BY <1>0 DEF CalmPage, Poll, Asked
<1>3. CalmPage' /\ CallSees'
  BY <1>0, <1>2 DEF CalmPage, CallSees, Busy, Poll
<1>4. BootAlone' /\ PidHolds' /\ Named'
  BY <1>0, <1>1 DEF BootAlone, PidHolds, Named, Claiming, Running, Poll, procVars
<1> QED
  BY <1>3, <1>4 DEF CalmInv

\* A process goes from one place of its cycle to another.
LEMMA WalkCalm ==
  ASSUME TypeInv, CalmInv, UNCHANGED mix, NEW p \in Procs,
         Running(p), pc'[p] \in Places, Running(p)', pc'[p] # "leaving",
         \A q \in Procs \ {p} : pc'[q] = pc[q],
         UNCHANGED <<callVars, pidFile, sigterm>>
  PROVE  CalmInv'
<1>0. CalmPage /\ BootAlone /\ PidHolds /\ Named /\ CallSees
  BY DEF CalmInv
<1>1. CalmPage'
  BY <1>0 DEF CalmPage, Busy, callVars
<1>2. \A q \in Procs : (Running(q)' <=> Running(q)) /\ (Claiming(q)' <=> Claiming(q))
  BY DEF Running, Claiming
<1>3. Found(pidFile)' <=> Found(pidFile)
  <2>1. \A q \in Procs : (pc'[q] \in {"unborn", "dead"} <=> pc[q] \in {"unborn", "dead"})
    BY DEF Running
  <2>2. \A q \in Procs : (pc'[q] = "dead" <=> pc[q] = "dead")
    BY DEF Running
  <2> QED
    BY <2>1, <2>2 DEF Found, Alive
<1>4. BootAlone' /\ Named'
  BY <1>0, <1>2, <1>3 DEF BootAlone, Named, callVars
<1>5. PidHolds'
  BY <1>0 DEF PidHolds, Running, TypeInv, ProcOK
<1>6. CallSees'
  BY <1>0, <1>2, <1>3 DEF CallSees, Stops, callVars
<1> QED
  BY <1>1, <1>4, <1>5, <1>6 DEF CalmInv

\* A process ends; its pid file may go with it.
LEMMA EndCalm ==
  ASSUME TypeInv, CalmInv, UNCHANGED mix, NEW p \in Procs, Alive(p), Exit(p),
         sigterm' = sigterm \ {p} \/ UNCHANGED sigterm,
         pidFile' = pidFile \/ (pidFile = p /\ pidFile' = NoProc),
         UNCHANGED callVars
  PROVE  CalmInv'
<1>0. CalmPage /\ BootAlone /\ PidHolds /\ Named /\ CallSees
  BY DEF CalmInv
<1>1. pc'[p] = "dead" /\ \A q \in Procs \ {p} : pc'[q] = pc[q]
  BY DEF TypeInv, ProcOK, Exit, Move
<1>2. CalmPage'
  BY <1>0 DEF CalmPage, Busy, callVars
<1>3. ~Found(pidFile) => ~Found(pidFile)'
  BY <1>1, NoProcAssumption DEF Found, Alive, Exit
<1>4. BootAlone' /\ Named'
  BY <1>0, <1>1, <1>3 DEF BootAlone, Named, Claiming, Running, callVars
<1>5. PidHolds'
  BY <1>0, <1>1 DEF PidHolds, TypeInv, ProcOK
<1>6. CallSees'
  BY <1>0, <1>1, <1>3 DEF CallSees, Stops, Running, callVars
<1> QED
  BY <1>2, <1>4, <1>5, <1>6 DEF CalmInv

LEMMA ClaimCalm ==
  ASSUME TypeInv, CalmInv, UNCHANGED mix, NEW p \in Procs, AcquireFree(p)
  PROVE  CalmInv'
<1>0. CalmPage /\ BootAlone /\ PidHolds /\ Named /\ CallSees
  BY DEF CalmInv
<1>1. pc[p] = "boot" /\ pc'[p] = "claim" /\ \A q \in Procs \ {p} : pc'[q] = pc[q]
  BY DEF AcquireFree, TypeInv, ProcOK, Move
<1>2. UNCHANGED <<callVars, pidFile, sigterm>>
  BY DEF AcquireFree
<1>3. pidFile # p
  BY <1>0, <1>1, NoProcAssumption DEF PidHolds
<1>4. CalmPage'
  BY <1>0, <1>2 DEF CalmPage, Busy, callVars
<1>5. \A q \in Procs : (Running(q)' <=> Running(q)) /\ (Claiming(q)' <=> Claiming(q))
  BY <1>1 DEF Running, Claiming
<1>6. Found(pidFile)' <=> Found(pidFile)
  BY <1>1, <1>2, <1>3 DEF Found, Alive
<1>7. BootAlone' /\ Named' /\ CallSees'
  BY <1>0, <1>2, <1>5, <1>6 DEF BootAlone, Named, CallSees, Stops, callVars
<1>8. PidHolds'
  BY <1>0, <1>1, <1>2, <1>3 DEF PidHolds, TypeInv, ProcOK
<1> QED
  BY <1>4, <1>7, <1>8 DEF CalmInv

\* A process writes its pid: no other runs that has not been told to stop.
LEMMA WriteCalm ==
  ASSUME TypeInv, CalmInv, UNCHANGED mix, NEW p \in Procs, WritePid(p)
  PROVE  CalmInv'
<1>0. CalmPage /\ BootAlone /\ PidHolds /\ Named /\ CallSees
  BY DEF CalmInv
<1>1. pc'[p] = "rest" /\ \A q \in Procs \ {p} : pc'[q] = pc[q]
  BY DEF WritePid, TypeInv, ProcOK, Move
<1>2. UNCHANGED <<callVars, sigterm>> /\ pidFile' = p
  BY DEF WritePid
<1>3. Claiming(p) /\ ~Found(pidFile) /\ action = "poll"
  BY <1>0 DEF BootAlone, WritePid, Claiming
<1>4. \A q \in Procs \ {p} : ~Claiming(q)
  BY <1>0, <1>3 DEF BootAlone
<1>5. \A q \in Procs \ {p} : Running(q) => q \in sigterm
  BY <1>0, <1>3 DEF Named, Running, Found, Alive
<1>6. \A c \in Calls : ~Busy(c)
  BY <1>0, <1>3 DEF CalmPage, Asked
<1>7. CalmPage' /\ CallSees'
  BY <1>0, <1>2, <1>6 DEF CalmPage, CallSees, Busy, callVars
<1>8. BootAlone' /\ Named'
  BY <1>1, <1>2, <1>4, <1>5 DEF BootAlone, Named, Claiming, Running
<1>9. PidHolds'
  BY <1>0, <1>1, <1>2 DEF PidHolds
<1> QED
  BY <1>7, <1>8, <1>9 DEF CalmInv

\* What a process does between its start and its end is a walk.
LEMMA CycleCalm ==
  ASSUME TypeInv, CalmInv, UNCHANGED mix, NEW p \in Procs,
         \/ BeginCycle(p) \/ (\E j \in Jobs : Look(p, j)) \/ BackedOff(p)
         \/ GatewayKnownUp(p) \/ OpenclawUp(p) \/ GatewayReached(p)
         \/ GatewayNotReached(p) \/ TriggerOk(p) \/ TriggerFails(p) \/ EndCycle(p)
  PROVE  CalmInv'
<1> DEFINE Halts == {"rest", "check", "backoff", "gateway", "wait", "trigger"}
<1>0. pc \in [Procs -> Places]
  BY DEF TypeInv, ProcOK
<1>1. UNCHANGED <<callVars, pidFile, sigterm>>
  BY DEF BeginCycle, Look, BackedOff, GatewayKnownUp, OpenclawUp, GatewayReached,
     GatewayNotReached, TriggerOk, TriggerFails, EndCycle
<1>2. pc[p] \in Halts
  BY DEF BeginCycle, Look, BackedOff, GatewayKnownUp, OpenclawUp, GatewayReached,
     GatewayNotReached, TriggerOk, TriggerFails, EndCycle
<1>3. (\E where \in Halts : Move(p, where)) \/ UNCHANGED pc
  <2>1. ASSUME NEW j \in Jobs, Look(p, j)
        PROVE  (\E where \in Halts : Move(p, where)) \/ UNCHANGED pc
    BY <2>1, LookNotes
  <2> QED
    BY <2>1 DEF BeginCycle, BackedOff, GatewayKnownUp, OpenclawUp, GatewayReached,
       GatewayNotReached, TriggerOk, TriggerFails, EndCycle
<1>4. /\ pc'[p] \in Halts
      /\ \A q \in Procs \ {p} : pc'[q] = pc[q]
  BY <1>0, <1>2, <1>3 DEF Move
<1>5. Running(p) /\ Running(p)' /\ pc'[p] # "leaving" /\ pc'[p] \in Places
  BY <1>2, <1>4 DEF Running, Places
<1> QED
  BY <1>1, <1>4, <1>5, WalkCalm

LEMMA ProcessCalm ==
  ASSUME TypeInv, CalmInv, UNCHANGED mix, "pause" \notin mix, NEW p \in Procs,
         ProcessStep(p) \/ Crash(p)
  PROVE  CalmInv'
<1>1. CASE AcquireTaken(p)
  BY <1>1, EndCalm DEF AcquireTaken, Alive
<1>2. CASE Shutdown(p)
  BY <1>2, EndCalm DEF Shutdown, Awaiting, Alive
<1>3. CASE Unlink(p)
  BY <1>3 DEF Unlink, CalmInv, PidHolds
<1>4. CASE Crash(p)
  BY <1>4, EndCalm DEF Crash
<1> QED
  BY <1>1, <1>2, <1>3, <1>4, ClaimCalm, WriteCalm, CycleCalm DEF ProcessStep

LEMMA CallCalm ==
  ASSUME TypeInv, CalmInv, UNCHANGED mix, "lost" \notin mix, NEW c \in Calls, CallNext(c)
  PROVE  CalmInv'
<1>1. CASE \E kind \in {"start", "stop", "uninstall"} : Press(c, kind)
  BY <1>1, PressCalm DEF Press, Asked
<1>2. CASE PressDeploy(c)
  BY <1>2, PressCalm, DeployCalm DEF PressDeploy, Asked
<1> QED
  BY <1>1, <1>2, ReadPidCalm, StartCalm, NotFoundCalm, SpawnCalm, KillCalm,
     RemoveCalm DEF CallNext, CallProceeds

LEMMA NextCalm == TypeInv /\ Calm /\ CalmInv /\ [Next]_vars => CalmInv'
<1> SUFFICES ASSUME TypeInv, Calm, CalmInv, [Next]_vars PROVE CalmInv'
  OBVIOUS
<1>0. {"remount", "slow", "lost", "pause"} \cap mix = {} /\ UNCHANGED mix
  BY MixKept DEF Calm
<1>1. ASSUME NEW c \in Calls, CallNext(c) PROVE CalmInv'
  BY <1>0, <1>1, CallCalm
<1>2. ASSUME NEW p \in Procs, ProcessStep(p) \/ Crash(p) PROVE CalmInv'
  BY <1>0, <1>2, ProcessCalm
<1>3. CASE Poll
  BY <1>0, <1>3, PollCalm
<1>4. CASE Remount
  BY <1>0, <1>4 DEF Remount
<1>5. ASSUME UNCHANGED <<callVars, procVars>> PROVE CalmInv'
  BY <1>0, <1>5 DEF callVars, procVars, CalmInv, CalmPage, BootAlone, PidHolds,
     Named, CallSees, Busy, Claiming, Running, Found, Alive, Stops
<1>6. CASE \/ \E j \in Jobs : TimePasses(j) \/ JobRecords(j)
           \/ GatewayGoesDown \/ UNCHANGED vars
  BY <1>5, <1>6 DEF TimePasses, JobRecords, GatewayGoesDown, vars
<1> QED
  BY <1>1, <1>2, <1>3, <1>4, <1>6 DEF Next

\* One watchdog at a time, the one the pid file names: for any number of
\* processes and calls, a page that stays open and waits for the pid file
\* never leaves a second process running that nobody has told to stop
\* (acquirePidFile, start_watchdog, stop_watchdog, Cron.tsx).
THEOREM OneWatchdogRuns == Spec => []OneWatchdog
<1> DEFINE Inv == TypeInv /\ (Calm => CalmInv)
<1>1. Init => Inv
  BY InitType, InitCalm
<1>2. Inv /\ [Next]_vars => Inv'
  <2>1. [Next]_vars => (Calm' => Calm)
    BY MixKept DEF Calm
  <2> QED
    BY <2>1, NextType, NextCalm
<1>3. Inv => OneWatchdog
  BY DEF OneWatchdog, CalmInv, Named
<1> QED
  BY <1>1, <1>2, <1>3, PTL DEF Spec
=============================================================================
