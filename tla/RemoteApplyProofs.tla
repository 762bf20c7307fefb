-------------------------- MODULE RemoteApplyProofs --------------------------
(***************************************************************************)
(* Proofs about RemoteApply, for any number of commands, applies and       *)
(* faults: the types, that no command is started twice, and what the       *)
(* answers of an apply and its snapshot are worth.                         *)
(***************************************************************************)
EXTENDS RemoteApply, TLAPS

-----------------------------------------------------------------------------
(* The jobs on the host and the calls that wait for them.                  *)

Files == {"config", "snap", "index"}
Whole(file) == IF file = "index" THEN IndexTexts ELSE Texts
JobSet == [by : Applies, cmd : (Cmds \ Writes) \cup {None}, file : Files,
           text : Texts \cup IndexTexts, stage : {"sent", "read", "open"},
           live : BOOLEAN]
CallSet == [way : {"none", "sftp", "tee", "cli"}, file : Files,
            text : Texts \cup IndexTexts, answer : {"none", "ok", "error", "failed"}]

\* What a job may be: a command works on openclaw.json.
GoodJob(j) ==
  /\ j \in JobSet
  /\ j.text \in Whole(j.file)
  /\ j.cmd = None => j.stage \in {"sent", "open"}
  /\ j.cmd # None => j.stage \in {"sent", "read"} /\ j.file = "config"
GoodCall(k) == k \in CallSet /\ k.text \in Whole(k.file)

\* A job that is waited for does what the call that waits has asked for.
Serves(j, k) ==
  /\ k.way # "none" /\ k.answer = "none"
  /\ j.file = k.file
  /\ j.cmd = None => j.text = k.text /\ k.way \in {"sftp", "tee"}
  /\ j.cmd # None => k.way = "cli"

\* Every apply waits for one job at most.
JobInv ==
  /\ \A j \in jobs : GoodJob(j)
  /\ call \in [Applies -> CallSet] /\ \A a \in Applies : GoodCall(call[a])
  /\ \A j \in jobs : j.live => Serves(j, call[j.by])
  /\ \A i, j \in jobs : i.live /\ j.live /\ i.by = j.by => i = j

Idle(a) == call[a].way = "none" \/ call[a].answer # "none"

LEMMA SendJob ==
  ASSUME JobInv, NEW a \in Applies, Idle(a),
         NEW way \in {"sftp", "tee", "cli"}, NEW c \in (Cmds \ Writes) \cup {None},
         NEW file \in Files, NEW text \in Whole(file),
         c = None => way # "cli", c # None => way = "cli" /\ file = "config",
         Send(a, way, c, file, text)
  PROVE  JobInv'
<1> DEFINE job == Job(a, c, file, text)
<1>1. jobs' = jobs \cup {job} /\ text \in Texts \cup IndexTexts
  BY DEF Send, Whole
<1>2. job = [by |-> a, cmd |-> c, file |-> file, text |-> text, stage |-> "sent",
             live |-> TRUE]
  BY DEF Job
<1>3. GoodJob(job)
  BY <1>1, <1>2 DEF GoodJob, JobSet
<1>4. /\ call' \in [Applies -> CallSet]
      /\ call'[a] = [way |-> way, file |-> file, text |-> text, answer |-> "none"]
      /\ \A b \in Applies \ {a} : call'[b] = call[b]
  BY <1>1 DEF Send, JobInv, CallSet
<1>5. \A b \in Applies : GoodCall(call'[b])
  BY <1>4 DEF JobInv, GoodCall
<1>6. \A j \in jobs : j.live => j.by # a
  BY DEF JobInv, Serves, Idle
<1>7. Serves(job, call'[a])
  BY <1>2, <1>4 DEF Serves
<1>8. \A j \in jobs : j.by \in Applies
  BY DEF JobInv, GoodJob, JobSet
<1>9. job.by = a
  BY <1>2
<1> HIDE DEF job
<1> QED
  BY <1>1, <1>3, <1>4, <1>5, <1>6, <1>7, <1>8, <1>9 DEF JobInv

\* A job that is answered goes, or goes on for nobody.
LEMMA AnswerJob ==
  ASSUME JobInv, NEW j \in jobs, j.live, NEW r \in {"ok", "error", "failed"},
         Answer(j.by, r), jobs' = jobs \ {j} \/ jobs' = Orphan(j)
  PROVE  JobInv'
<1> DEFINE k == [j EXCEPT !.live = FALSE]
<1>1. GoodJob(j) /\ j.by \in Applies
  BY DEF JobInv, GoodJob, JobSet
<1>2. GoodJob(k) /\ k.live = FALSE
  BY <1>1 DEF GoodJob, JobSet
<1>3. jobs' \subseteq (jobs \ {j}) \cup {k}
  BY DEF Orphan
<1>4. /\ call' \in [Applies -> CallSet]
      /\ \A b \in Applies : GoodCall(call'[b])
      /\ \A b \in Applies \ {j.by} : call'[b] = call[b]
  BY <1>1 DEF Answer, JobInv, GoodCall, CallSet
<1>5. \A i \in jobs \ {j} : i.live => i.by # j.by
  BY DEF JobInv
<1>6. \A i \in jobs : i.by \in Applies
  BY DEF JobInv, GoodJob, JobSet
<1> HIDE DEF k
<1> QED
  BY <1>2, <1>3, <1>4, <1>5, <1>6 DEF JobInv

LEMMA ForgetJob ==
  ASSUME JobInv, NEW a \in Applies, Idle(a), Forget(a), jobs' = jobs
  PROVE  JobInv'
<1>1. NoCall \in CallSet /\ GoodCall(NoCall)
  BY DEF NoCall, CallSet, GoodCall, Whole, Texts, IndexTexts, Files
<1>2. /\ call' \in [Applies -> CallSet]
      /\ \A b \in Applies : GoodCall(call'[b])
      /\ \A b \in Applies \ {a} : call'[b] = call[b]
  BY <1>1 DEF Forget, JobInv
<1>3. \A j \in jobs : j.live => j.by # a
  BY DEF JobInv, Serves, Idle
<1>4. \A i \in jobs : i.by \in Applies
  BY DEF JobInv, GoodJob, JobSet
<1> QED
  BY <1>2, <1>3, <1>4 DEF JobInv

\* A job gets on.
LEMMA AdvanceJob ==
  ASSUME JobInv, NEW j \in jobs, NEW k, GoodJob(k), k.by = j.by, k.cmd = j.cmd,
         k.file = j.file, k.live = j.live, j.cmd = None => k.text = j.text,
         jobs' = (jobs \ {j}) \cup {k}, call' = call
  PROVE  JobInv'
BY DEF JobInv, Serves

\* A job nobody waits for goes, and a crash leaves only such jobs.
LEMMA DropJob ==
  ASSUME JobInv, NEW j \in jobs, jobs' = jobs \ {j}, call' = call
  PROVE  JobInv'
BY DEF JobInv

LEMMA CrashJobs == ASSUME JobInv, Crash PROVE JobInv'
<1>1. \A j \in jobs : GoodJob([j EXCEPT !.live = FALSE])
  BY DEF JobInv, GoodJob, JobSet
<1>2. \A j \in jobs : [j EXCEPT !.live = FALSE].live = FALSE
  BY DEF JobInv, GoodJob, JobSet
<1>3. \A j \in jobs' : GoodJob(j) /\ ~j.live
  BY <1>1, <1>2 DEF Crash
<1>4. NoCall \in CallSet /\ GoodCall(NoCall)
  BY DEF NoCall, CallSet, GoodCall, Whole, Texts, IndexTexts, Files
<1>5. call' \in [Applies -> CallSet] /\ \A b \in Applies : GoodCall(call'[b])
  BY <1>4 DEF Crash
<1> QED
  BY <1>3, <1>5 DEF JobInv

-----------------------------------------------------------------------------
(* Type correctness.                                                       *)

Pcs == {"idle", "called", "listed", "saving", "indexing", "exec", "executing",
        "restoring", "done"}
QueueState == /\ queue \in Seq(Cmds)
              /\ accepted \in SUBSET Cmds /\ ended \in SUBSET Cmds
              /\ started \in [Cmds -> Nat]
FileState == config \in Texts /\ snap \in [Applies -> Texts] /\ index \in IndexTexts
ApplyState == /\ pc \in [Applies -> Pcs]
              /\ batch \in [Applies -> Seq(Cmds)]
              /\ before \in [Applies -> Texts]
              /\ done \in [Applies -> Nat]
              /\ res \in [Applies -> {"none", "ok", "error", "rolled back"}]
              /\ last \in Applies \cup {None}
FaultState == /\ refused \in Nat /\ timeouts \in Nat /\ losses \in Nat
              /\ cuts \in Nat /\ crashes \in Nat
StateInv == QueueState /\ FileState /\ ApplyState /\ FaultState

LEMMA StateFrame ==
  /\ StateInv /\ UNCHANGED <<queue, ghosts>> => QueueState'
  /\ StateInv /\ UNCHANGED files => FileState'
  /\ StateInv /\ UNCHANGED <<pc, local>> => ApplyState'
  /\ StateInv /\ UNCHANGED faults => FaultState'
BY DEF StateInv, QueueState, FileState, ApplyState, FaultState, ghosts, files, local,
   faults

\* Where an apply waits for no call, and how far it is in its batch.
Quiet == {"idle", "called", "listed", "exec", "done"}
PlaceInv ==
  \A a \in Applies :
    /\ pc[a] \in Quiet => call[a].way = "none"
    /\ done[a] <= Len(batch[a])
    /\ pc[a] \in {"idle", "called"} => done[a] = 0
    /\ pc[a] = "executing" => done[a] < Len(batch[a])

\* Under the guard one apply is in progress, and it has listed the queue last.
Listed(a) == pc[a] \notin {"idle", "called", "done"}
AloneInv ==
  guarded =>
    /\ \A a, b \in Applies : InProgress(a) /\ InProgress(b) => a = b
    /\ \A a \in Applies : Listed(a) => last = a

Inv == JobInv /\ StateInv /\ PlaceInv /\ AloneInv

LEMMA InitInv == Init => Inv
<1> SUFFICES ASSUME Init PROVE Inv
  OBVIOUS
<1>1. NoCall \in CallSet /\ GoodCall(NoCall)
  BY DEF NoCall, CallSet, GoodCall, Whole, Texts, IndexTexts, Files
<1>2. JobInv
  BY <1>1 DEF Init, JobInv
<1>3. StateInv
  BY DEF Init, StateInv, QueueState, FileState, ApplyState, FaultState, Texts,
     IndexTexts, Pcs
<1>4. PlaceInv /\ AloneInv
  BY DEF Init, PlaceInv, AloneInv, Listed, NoCall, InProgress
<1> QED
  BY <1>2, <1>3, <1>4 DEF Inv

\* The answer the caller has come for leaves it idle.
LEMMA ReturnedIdle ==
  ASSUME NEW a, NEW r \in {"ok", "error", "failed"}, Returned(a, r)
  PROVE  Idle(a)
BY DEF Returned, Idle

LEMMA PutJob ==
  ASSUME JobInv, NEW a \in Applies, Idle(a), NEW file \in Files,
         NEW text \in Whole(file), StartPut(a, file, text)
  PROVE  JobInv' /\ \A b \in Applies \ {a} : call'[b] = call[b]
<1>1. PICK way \in {"sftp", "tee"} : Send(a, way, None, file, text)
  BY DEF StartPut
<1>2. JobInv'
  BY <1>1, SendJob
<1>3. \A b \in Applies \ {a} : call'[b] = call[b]
  BY <1>1 DEF Send, JobInv
<1> QED
  BY <1>2, <1>3

\* The next command of a batch.
LEMMA NextIn ==
  ASSUME Inv, NEW a \in Applies, done[a] < Len(batch[a])
  PROVE  batch[a][done[a] + 1] \in Cmds /\ done[a] + 1 \in DOMAIN batch[a]
<1>1. done[a] \in Nat /\ batch[a] \in Seq(Cmds)
  BY DEF Inv, StateInv, ApplyState
<1> QED
  BY <1>1

\* Taking one element out of a sequence.
LEMMA WithoutSeq ==
  ASSUME NEW S, NEW s \in Seq(S), NEW i \in DOMAIN s
  PROVE  Without(s, i) \in Seq(S) /\ Elems(Without(s, i)) \subseteq Elems(s)
<1>1. /\ Len(s) \in Nat /\ Len(s) >= 1 /\ DOMAIN s = 1 .. Len(s)
      /\ \A j \in 1 .. Len(s) : s[j] \in S
  OBVIOUS
<1>2. \A j \in 1 .. (Len(s) - 1) : j \in DOMAIN s /\ j + 1 \in DOMAIN s
  BY <1>1
<1>3. Without(s, i) \in [1 .. (Len(s) - 1) -> S]
  BY <1>1, <1>2 DEF Without
<1>4. Without(s, i) \in Seq(S)
  BY <1>1, <1>3
<1>5. DOMAIN Without(s, i) = 1 .. (Len(s) - 1)
  BY DEF Without
<1>6. \A j \in 1 .. (Len(s) - 1) : Without(s, i)[j] \in Elems(s)
  BY <1>1, <1>2 DEF Without, Elems
<1> QED
  BY <1>4, <1>5, <1>6 DEF Elems

\* What an apply does to the jobs and the calls.
LEMMA ApplyJobs ==
  ASSUME Inv, NEW a \in Applies, Press(a) \/ Apply(a)
  PROVE  JobInv' /\ \A b \in Applies \ {a} : call'[b] = call[b]
<1> USE DEF Inv
<1>1. CASE ReadConfig(a)
  <2>1. Idle(a) /\ config \in Whole("snap") /\ "snap" \in Files
    BY <1>1 DEF ReadConfig, PlaceInv, Quiet, StateInv, FileState, Idle, Whole, Files
  <2> QED
    BY <1>1, <2>1, PutJob DEF ReadConfig
<1>2. CASE Record(a)
  <2>1. Idle(a) /\ "index" \in Files
    BY <1>2, ReturnedIdle DEF Record, Files
  <2>2. CASE index # Torn /\ StartPut(a, "index", index \cup {a})
    <3>1. index \cup {a} \in Whole("index")
      BY <2>2 DEF StateInv, FileState, Whole, IndexTexts
    <3> QED
      BY <2>1, <2>2, <3>1, PutJob
  <2>3. CASE Forget(a) /\ UNCHANGED jobs
    <3>1. JobInv'
      BY <2>1, <2>3, ForgetJob
    <3> QED
      BY <2>3, <3>1 DEF Forget, JobInv
  <2> QED
    BY <1>2, <2>2, <2>3 DEF Record
<1>3. CASE Recorded(a) \/ Succeeded(a) \/ Cut(a) \/ RolledBack(a)
  <2>1. Idle(a) /\ Forget(a) /\ jobs' = jobs
    BY <1>3, ReturnedIdle DEF Recorded, Succeeded, Cut, RolledBack
  <2>2. JobInv'
    BY <2>1, ForgetJob
  <2> QED
    BY <2>1, <2>2 DEF Forget, JobInv
<1>4. CASE Execute(a)
  <2> DEFINE c == batch[a][done[a] + 1]
  <2>1. Idle(a) /\ c \in Cmds
    BY <1>4, NextIn DEF Execute, PlaceInv, Quiet, Idle
  <2>2. CASE c \in Writes
    <3>1. {c} \in Whole("config") /\ "config" \in Files
      BY <2>1 DEF Whole, Texts, Files
    <3> QED
      BY <1>4, <2>1, <2>2, <3>1, PutJob DEF Execute
  <2>3. CASE c \notin Writes
    <3>1. {} \in Whole("config") /\ "config" \in Files /\ c # None
      BY <2>1, SetsAssumption DEF Whole, Texts, Files
    <3>2. Send(a, "cli", c, "config", {})
      BY <1>4, <2>3 DEF Execute
    <3>3. JobInv'
      <4> HIDE DEF c
      <4> QED
        BY <2>1, <2>3, <3>1, <3>2, SendJob
    <3> QED
      BY <3>2, <3>3 DEF Send, JobInv
  <2> QED
    BY <2>2, <2>3
<1>5. CASE Restore(a)
  <2>1. Idle(a) /\ before[a] \in Whole("config") /\ "config" \in Files
    BY <1>5, ReturnedIdle DEF Restore, StateInv, ApplyState, Whole, Files
  <2> QED
    BY <1>5, <2>1, PutJob DEF Restore
<1>6. CASE Fallback(a)
  <2>1. /\ Idle(a) /\ call[a].text \in Whole(call[a].file) /\ call[a].file \in Files
        /\ Send(a, "tee", None, call[a].file, call[a].text)
    BY <1>6 DEF Fallback, Idle, JobInv, GoodCall, CallSet
  <2>2. JobInv'
    BY <2>1, SendJob
  <2> QED
    BY <2>1, <2>2 DEF Send, JobInv
<1>7. CASE Press(a) \/ List(a) \/ ListNothing(a) \/ ReadFails(a) \/ Finish(a)
  BY <1>7 DEF Press, List, ListNothing, ReadFails, Finish, JobInv
<1> QED
  BY <1>1, <1>2, <1>3, <1>4, <1>5, <1>6, <1>7 DEF Apply

\* What the steps of an apply change besides.
LEMMA ApplyTypes ==
  ASSUME Inv, NEW a \in Applies, Press(a) \/ Apply(a)
  PROVE  StateInv'
<1>0. StateInv
  BY DEF Inv
<1>1. QueueState'
  <2>1. (queue' = queue \/ queue' = <<>>) /\ UNCHANGED ghosts
    BY DEF Press, Apply, List, ListNothing, Cut, ReadConfig, ReadFails, Record,
       Recorded, Execute, Succeeded, Restore, RolledBack, Finish, Fallback
  <2>2. queue \in Seq(Cmds) /\ <<>> \in Seq(Cmds)
    BY <1>0 DEF StateInv, QueueState
  <2> QED
    BY <1>0, <2>1, <2>2 DEF StateInv, QueueState, ghosts
<1>2. FileState'
  <2>1. UNCHANGED files
    BY DEF Press, Apply, List, ListNothing, Cut, ReadConfig, ReadFails, Record,
       Recorded, Execute, Succeeded, Restore, RolledBack, Finish, Fallback
  <2> QED
    BY <1>0, <2>1, StateFrame
<1>3. FaultState'
  <2>1. CASE UNCHANGED faults
    BY <1>0, <2>1, StateFrame
  <2>2. CASE ReadFails(a) \/ Cut(a)
    BY <1>0, <2>2 DEF ReadFails, Cut, StateInv, FaultState
  <2> QED
    BY <2>1, <2>2 DEF Press, Apply, List, ListNothing, ReadConfig, Record, Recorded,
       Execute, Succeeded, Restore, RolledBack, Finish, Fallback
<1>4. ApplyState'
  <2> USE <1>0 DEF StateInv, ApplyState, local, Goto, Pcs
  <2>1. CASE Press(a) \/ List(a) \/ ListNothing(a)
    BY <2>1 DEF Press, List, ListNothing, QueueState
  <2>2. CASE ReadConfig(a)
    BY <2>2 DEF ReadConfig, FileState
  <2>3. CASE ReadFails(a) \/ Cut(a) \/ RolledBack(a) \/ Finish(a)
    BY <2>3 DEF ReadFails, Cut, RolledBack, Finish
  <2>4. CASE Record(a) \/ Recorded(a) \/ Execute(a) \/ Restore(a) \/ Fallback(a)
    BY <2>4 DEF Record, Recorded, Execute, Restore, Fallback
  <2>5. CASE Succeeded(a)
    <3>1. done' \in [Applies -> Nat]
      <4>1. done' = [done EXCEPT ![a] = @ + 1]
        BY <2>5 DEF Succeeded
      <4>2. done \in [Applies -> Nat]
        BY <1>0
      <4> QED
        BY ONLY <4>1, <4>2, a \in Applies
    <3>2. pc' = [pc EXCEPT ![a] = "exec"] /\ UNCHANGED <<batch, before, res, last>>
      BY <2>5 DEF Succeeded
    <3> QED
      BY <3>1, <3>2
  <2> QED
    BY <2>1, <2>2, <2>3, <2>4, <2>5 DEF Apply
<1> QED
  BY <1>1, <1>2, <1>3, <1>4 DEF StateInv

\* The moves of an apply.
LEMMA ApplyMoves ==
  ASSUME Inv, NEW a \in Applies, Press(a) \/ Apply(a)
  PROVE  /\ \A b \in Applies \ {a} :
              pc'[b] = pc[b] /\ done'[b] = done[b] /\ batch'[b] = batch[b]
         /\ done'[a] = done[a] \/ (pc[a] = "executing" /\ done'[a] = done[a] + 1)
         /\ batch'[a] = batch[a] \/ (pc[a] = "called" /\ batch'[a] = queue)
         /\ guarded' = guarded
         /\ last' = IF List(a) THEN a ELSE last
         /\ pc'[a] = "executing" => done'[a] = done[a] /\ done[a] < Len(batch'[a])
         /\ pc'[a] # "idle" /\ (pc'[a] = "called" => done'[a] = 0)
         /\ ~Press(a) => InProgress(a)
         /\ Listed(a)' => Listed(a) \/ List(a)
<1> USE DEF Inv, StateInv, ApplyState, PlaceInv, Quiet, local, Goto, InProgress, Listed
<1>1. CASE Press(a) \/ List(a) \/ ListNothing(a)
  BY <1>1 DEF Press, List, ListNothing
<1>2. CASE ReadConfig(a) \/ ReadFails(a) \/ Record(a) \/ Recorded(a)
  BY <1>2 DEF ReadConfig, ReadFails, Record, Recorded, List, Press
<1>3. CASE Execute(a)
  BY <1>3 DEF Execute, List, Press
<1>4. CASE Succeeded(a)
  BY <1>4 DEF Succeeded, List, Press
<1>5. CASE Cut(a) \/ Restore(a) \/ RolledBack(a) \/ Finish(a)
  BY <1>5 DEF Cut, Restore, RolledBack, Finish, List, Press
<1>6. CASE Fallback(a)
  <2>1. call[a].way = "sftp"
    BY <1>6 DEF Fallback
  <2>2. pc[a] \notin Quiet
    BY <2>1
  <2> QED
    BY <1>6, <2>2 DEF Fallback, List, Press
<1> QED
  BY <1>1, <1>2, <1>3, <1>4, <1>5, <1>6 DEF Apply

\* Where an apply waits for no call.
LEMMA ApplyCalls ==
  ASSUME Inv, NEW a \in Applies, Press(a) \/ Apply(a)
  PROVE  pc'[a] \in Quiet => call'[a].way = "none"
<1> USE DEF Inv, StateInv, ApplyState, PlaceInv, Quiet, JobInv, Goto
<1>1. CASE Press(a) \/ List(a) \/ ListNothing(a) \/ ReadFails(a) \/ Finish(a)
  BY <1>1 DEF Press, List, ListNothing, ReadFails, Finish
<1>2. CASE ReadConfig(a) \/ Execute(a) \/ Restore(a)
  BY <1>2 DEF ReadConfig, Execute, Restore
<1>3. CASE Record(a) \/ Recorded(a) \/ Succeeded(a) \/ Cut(a) \/ RolledBack(a)
  <2>1. Forget(a) \/ (pc[a] = "saving" /\ pc' = [pc EXCEPT ![a] = "indexing"])
    BY <1>3 DEF Record, Recorded, Succeeded, Cut, RolledBack
  <2>2. CASE Forget(a)
    BY <2>2 DEF Forget, NoCall
  <2> QED
    BY <2>1, <2>2
<1>4. CASE Fallback(a)
  BY <1>4 DEF Fallback
<1> QED
  BY <1>1, <1>2, <1>3, <1>4 DEF Apply

LEMMA ApplyInv == ASSUME Inv, NEW a \in Applies, Press(a) \/ Apply(a) PROVE Inv'
<1>0. JobInv' /\ \A b \in Applies \ {a} : call'[b] = call[b]
  BY ApplyJobs
<1>1. StateInv'
  BY ApplyTypes
<1>2. ASSUME NEW b \in Applies
      PROVE  /\ pc'[b] \in Quiet => call'[b].way = "none"
             /\ done'[b] <= Len(batch'[b])
             /\ pc'[b] \in {"idle", "called"} => done'[b] = 0
             /\ pc'[b] = "executing" => done'[b] < Len(batch'[b])
  <2>1. CASE b # a
    <3>1. pc'[b] = pc[b] /\ done'[b] = done[b] /\ batch'[b] = batch[b] /\ call'[b] = call[b]
      BY <1>0, <2>1, ApplyMoves
    <3> QED
      BY <3>1 DEF Inv, PlaceInv
  <2>2. CASE b = a
    <3>1. done'[a] <= Len(batch'[a])
      <4>0. done[a] \in Nat /\ batch[a] \in Seq(Cmds) /\ queue \in Seq(Cmds)
        BY DEF Inv, StateInv, ApplyState, QueueState
      <4>1. Len(batch[a]) \in Nat /\ Len(queue) \in Nat
        BY <4>0
      <4>2. /\ done[a] <= Len(batch[a])
            /\ pc[a] = "called" => done[a] = 0
            /\ pc[a] = "executing" => done[a] < Len(batch[a])
        BY DEF Inv, PlaceInv
      <4> QED
        BY <4>0, <4>1, <4>2, ApplyMoves
    <3> QED
      BY <2>2, <3>1, ApplyMoves, ApplyCalls
  <2> QED
    BY <2>1, <2>2
<1>3. AloneInv'
  <2> SUFFICES ASSUME guarded'
               PROVE  /\ \A b, c \in Applies : InProgress(b)' /\ InProgress(c)' => b = c
                      /\ \A b \in Applies : Listed(b)' => last' = b
    BY DEF AloneInv
  <2>1. /\ \A b, c \in Applies : InProgress(b) /\ InProgress(c) => b = c
        /\ \A b \in Applies : Listed(b) => last = b
        /\ \A b \in Applies \ {a} : (InProgress(b)' <=> InProgress(b)) /\ (Listed(b)' <=> Listed(b))
    BY ApplyMoves DEF Inv, AloneInv, InProgress, Listed
  <2>2. \A b \in Applies \ {a} : ~InProgress(b)
    BY <2>1, ApplyMoves DEF Press
  <2>3. \A b \in Applies \ {a} : ~Listed(b)
    BY <2>2 DEF InProgress, Listed
  <2>4. Listed(a)' => last' = a
    BY <2>1, ApplyMoves
  <2> QED
    BY <2>1, <2>2, <2>3, <2>4
<1> QED
  BY <1>0, <1>1, <1>2, <1>3 DEF Inv, PlaceInv

\* Steps that leave the applies alone, but for an answer to a call.
LEMMA PlaceFrame ==
  ASSUME PlaceInv, AloneInv, UNCHANGED <<guarded, pc, batch, done, last>>,
         \A a \in Applies : call'[a].way = call[a].way
  PROVE  PlaceInv' /\ AloneInv'
BY DEF PlaceInv, AloneInv, Listed, InProgress

LEMMA AnswerWay ==
  ASSUME JobInv, NEW b \in Applies, NEW r, Answer(b, r)
  PROVE  \A a \in Applies : call'[a].way = call[a].way
BY DEF JobInv, CallSet, Answer

LEMMA FaultInv ==
  ASSUME Inv, NEW a \in Applies, NEW j \in jobs,
         Refuse(a, j) \/ TimeOut(a, j) \/ Lose(a, j)
  PROVE  Inv'
<1>1. PICK r \in {"ok", "error", "failed"} :
        Answer(j.by, r) /\ j.live /\ (jobs' = jobs \ {j} \/ jobs' = Orphan(j))
  BY DEF Refuse, TimeOut, Lose, JobOf
<1>2. j.by \in Applies
  BY DEF Inv, JobInv, GoodJob, JobSet
<1>3. JobInv' /\ \A b \in Applies : call'[b].way = call[b].way
  BY <1>1, <1>2, AnswerJob, AnswerWay DEF Inv
<1>4. StateInv'
  <2>1. UNCHANGED <<queue, files, pc, local, ghosts>>
    BY DEF Refuse, TimeOut, Lose
  <2>2. FaultState'
    BY DEF Refuse, TimeOut, Lose, Inv, StateInv, FaultState
  <2> QED
    BY <2>1, <2>2, StateFrame DEF Inv, StateInv
<1>5. UNCHANGED <<guarded, pc, batch, done, last>>
  BY DEF Refuse, TimeOut, Lose, local
<1> QED
  BY <1>3, <1>4, <1>5, PlaceFrame DEF Inv

LEMMA EndJob ==
  ASSUME JobInv, NEW j \in jobs, NEW r \in {"ok", "error", "failed"}, End(j, r)
  PROVE  JobInv' /\ \A a \in Applies : call'[a].way = call[a].way
<1>1. j.by \in Applies
  BY DEF JobInv, GoodJob, JobSet
<1>2. CASE j.live
  BY <1>1, <1>2, AnswerJob, AnswerWay DEF End
<1>3. CASE ~j.live
  BY <1>3, DropJob DEF End
<1> QED
  BY <1>2, <1>3

LEMMA FillFiles ==
  ASSUME Inv, NEW j \in jobs, NEW t \in Whole(j.file), Fill(j, t)
  PROVE  config' \in Texts /\ snap' \in [Applies -> Texts] /\ index' \in IndexTexts
<1>1. j.file \in Files /\ j.by \in Applies
  BY DEF Inv, JobInv, GoodJob, JobSet
<1> QED
  BY <1>1 DEF Fill, Whole, Inv, StateInv, FileState, Files

LEMMA HostInv == ASSUME Inv, Host PROVE Inv'
<1>0. PICK j \in jobs : \/ CommandReads(j) \/ CommandWrites(j) \/ CommandFails(j)
                        \/ PutOpens(j) \/ PutFills(j) \/ Dies(j)
  BY DEF Host
<1>1. GoodJob(j) /\ JobInv /\ StateInv
  BY DEF Inv, JobInv
<1>2. UNCHANGED <<guarded, queue, pc, batch, before, done, res, last, accepted,
                  refused, timeouts, losses, cuts, crashes>>
  BY <1>0 DEF CommandReads, CommandWrites, CommandFails, PutOpens, PutFills, Dies,
     local, faults, ghosts
<1>3. JobInv' /\ \A a \in Applies : call'[a].way = call[a].way
  <2>1. CASE CommandReads(j) /\ config = Torn
    BY <1>1, <2>1, EndJob DEF CommandReads
  <2>2. CASE CommandReads(j) /\ config # Torn
    <3> DEFINE k == [j EXCEPT !.stage = "read", !.text = config \cup {j.cmd}]
    <3>1. config \cup {j.cmd} \in Texts /\ j.cmd # None /\ j.file = "config"
      BY <1>1, <2>2 DEF CommandReads, GoodJob, JobSet, StateInv, FileState, Texts
    <3>2. /\ GoodJob(k) /\ k.by = j.by /\ k.cmd = j.cmd /\ k.file = j.file
          /\ k.live = j.live
      BY <1>1, <3>1 DEF GoodJob, JobSet, Whole
    <3>3. jobs' = (jobs \ {j}) \cup {k} /\ call' = call
      BY <2>2 DEF CommandReads
    <3> HIDE DEF k
    <3> QED
      BY <1>1, <3>1, <3>2, <3>3, AdvanceJob
  <2>3. CASE CommandWrites(j) \/ CommandFails(j) \/ PutFills(j)
    BY <1>1, <2>3, EndJob DEF CommandWrites, CommandFails, PutFills
  <2>4. CASE PutOpens(j)
    <3> DEFINE k == [j EXCEPT !.stage = "open"]
    <3>1. /\ GoodJob(k) /\ k.by = j.by /\ k.cmd = j.cmd /\ k.file = j.file
          /\ k.live = j.live /\ k.text = j.text
      BY <1>1, <2>4 DEF PutOpens, GoodJob, JobSet
    <3>2. jobs' = (jobs \ {j}) \cup {k} /\ call' = call
      BY <2>4 DEF PutOpens
    <3> HIDE DEF k
    <3> QED
      BY <1>1, <3>1, <3>2, AdvanceJob
  <2>5. CASE Dies(j)
    BY <1>1, <2>5, DropJob DEF Dies
  <2> QED
    BY <1>0, <2>1, <2>2, <2>3, <2>4, <2>5
<1>4. config' \in Texts /\ snap' \in [Applies -> Texts] /\ index' \in IndexTexts
  <2>1. CASE UNCHANGED files
    BY <1>1, <2>1 DEF files, StateInv, FileState
  <2>2. CASE PutOpens(j)
    <3>1. Torn \in Whole(j.file)
      BY DEF Whole, Texts, IndexTexts
    <3> QED
      BY <2>2, <3>1, FillFiles DEF PutOpens
  <2>3. CASE ~UNCHANGED files /\ ~PutOpens(j)
    <3>1. Fill(j, j.text)
      BY <1>0, <2>3 DEF CommandReads, CommandWrites, CommandFails, PutFills, Dies
    <3> QED
      BY <1>1, <3>1, FillFiles DEF GoodJob
  <2> QED
    BY <2>1, <2>2, <2>3
<1>5. ended' \in SUBSET Cmds /\ started' \in [Cmds -> Nat]
  <2> USE DEF StateInv, QueueState, ghosts
  <2>1. j.cmd # None => j.cmd \in Cmds
    BY <1>1 DEF GoodJob, JobSet
  <2>2. CASE CommandReads(j)
    <3>1. /\ j.cmd \in Cmds /\ started' = [started EXCEPT ![j.cmd] = @ + 1]
          /\ ended' = ended
      BY <2>1, <2>2 DEF CommandReads
    <3> QED
      BY <1>1, <3>1
  <2>3. CASE CommandWrites(j)
    <3>1. j.cmd # None
      BY <1>1, <2>3 DEF CommandWrites, GoodJob
    <3> QED
      BY <1>1, <2>1, <2>3, <3>1 DEF CommandWrites
  <2>4. CASE CommandFails(j) \/ PutOpens(j) \/ PutFills(j) \/ Dies(j)
    BY <1>1, <2>4 DEF CommandFails, PutOpens, PutFills, Dies
  <2> QED
    BY <1>0, <2>2, <2>3, <2>4
<1>6. StateInv'
  <2>1. QueueState' /\ FileState'
    BY <1>1, <1>2, <1>4, <1>5 DEF StateInv, QueueState, FileState
  <2>2. ApplyState' /\ FaultState'
    BY <1>1, <1>2, StateFrame DEF local, faults
  <2> QED
    BY <2>1, <2>2 DEF StateInv
<1> QED
  BY <1>2, <1>3, <1>6, PlaceFrame DEF Inv

LEMMA NextInv == Inv /\ [Next]_vars => Inv'
<1> SUFFICES ASSUME Inv, [Next]_vars PROVE Inv'
  OBVIOUS
<1>1. ASSUME NEW c \in Cmds, QueueCommand(c) \/ RemoveCommand(c) PROVE Inv'
  <2>1. UNCHANGED <<jobs, call>>
    BY <1>1 DEF QueueCommand, RemoveCommand
  <2>2. StateInv'
    <3>1. queue' \in Seq(Cmds)
      <4>1. queue \in Seq(Cmds)
        BY DEF Inv, StateInv, QueueState
      <4>2. CASE QueueCommand(c)
        BY <4>1, <4>2 DEF QueueCommand
      <4>3. CASE RemoveCommand(c)
        BY <4>1, <4>3, WithoutSeq DEF RemoveCommand
      <4> QED
        BY <1>1, <4>2, <4>3
    <3>2. QueueState'
      BY <1>1, <3>1 DEF QueueCommand, RemoveCommand, Inv, StateInv, QueueState, ghosts
    <3>3. UNCHANGED <<files, pc, local, faults>>
      BY <1>1 DEF QueueCommand, RemoveCommand
    <3> QED
      BY <3>2, <3>3, StateFrame DEF Inv, StateInv
  <2>3. PlaceInv' /\ AloneInv'
    BY <1>1, PlaceFrame DEF QueueCommand, RemoveCommand, Inv, local
  <2> QED
    BY <2>1, <2>2, <2>3 DEF Inv, JobInv
<1>2. CASE Crash
  <2>1. StateInv'
    <3>1. QueueState' /\ FileState'
      BY <1>2 DEF Crash, Inv, StateInv, QueueState, FileState, files, ghosts
    <3>2. ApplyState'
      BY <1>2 DEF Crash, Inv, StateInv, ApplyState, local, Pcs
    <3>3. FaultState'
      BY <1>2 DEF Crash, Inv, StateInv, FaultState
    <3> QED
      BY <3>1, <3>2, <3>3 DEF StateInv
  <2>2. PlaceInv' /\ AloneInv'
    BY <1>2 DEF Crash, Inv, StateInv, ApplyState, PlaceInv, AloneInv, Quiet, Listed,
       NoCall, InProgress, local
  <2> QED
    BY <1>2, <2>1, <2>2, CrashJobs DEF Inv
<1>3. CASE UNCHANGED vars
  <2>1. StateInv'
    BY <1>3, StateFrame DEF vars, Inv, StateInv
  <2>2. PlaceInv' /\ AloneInv'
    BY <1>3, PlaceFrame DEF vars, local, Inv
  <2> QED
    BY <1>3, <2>1, <2>2 DEF vars, Inv, JobInv
<1> QED
  BY <1>1, <1>2, <1>3, ApplyInv, FaultInv, HostInv DEF Next

LEMMA InvAlways == Spec => []Inv
BY InitInv, NextInv, PTL DEF Spec

\* RemoteApply is type correct, with any number of faults, and a job on the
\* host that is waited for has an apply that waits (run_openclaw_remote,
\* sftp_write).
THEOREM TypeCorrect == Spec => []TypeOK
<1>1. Inv => TypeOK
  <2> SUFFICES ASSUME Inv PROVE TypeOK
    OBVIOUS
  <2>1. JobsOK
    BY DEF Inv, JobInv, GoodJob, JobSet, Serves, Waiting, Whole, JobsOK
  <2>2. Elems(queue) \subseteq Cmds
    <3>1. queue \in Seq(Cmds)
      BY DEF Inv, StateInv, QueueState
    <3> QED
      BY <3>1 DEF Elems
  <2>3. \A a \in Applies : done[a] \in 0 .. Len(batch[a])
    <3>1. done \in [Applies -> Nat] /\ batch \in [Applies -> Seq(Cmds)]
      BY DEF Inv, StateInv, ApplyState
    <3>2. \A a \in Applies : done[a] <= Len(batch[a])
      BY DEF Inv, PlaceInv
    <3> QED
      BY <3>1, <3>2
  <2> QED
    BY <2>1, <2>2, <2>3 DEF Inv, StateInv, QueueState, FileState, ApplyState, TypeOK,
       Pcs
<1> QED
  BY <1>1, InvAlways, PTL

-----------------------------------------------------------------------------
(* No command is started twice.                                            *)

Injective(s) == \A i, j \in DOMAIN s : s[i] = s[j] => i = j

\* Not started, and not on its way.
Fresh(c) == started[c] = 0 /\ \A j \in jobs : j.cmd # c

Ready == {"listed", "saving", "indexing", "exec"}
Busy == {"exec", "executing", "restoring"}

\* Commands are listed once.
ListInv ==
  /\ Injective(queue) /\ Elems(queue) \subseteq accepted
  /\ \A a \in Applies : Injective(batch[a]) /\ Elems(batch[a]) \subseteq accepted

\* What is not queued yet, what is queued while no apply executes, and what an
\* apply has still to execute, is fresh.
FreshInv ==
  /\ \A c \in Cmds \ accepted : Fresh(c)
  /\ (\A a \in Applies : pc[a] \notin Busy) => \A c \in Elems(queue) : Fresh(c)
  /\ \A a \in Applies : \A k \in DOMAIN batch[a] :
       /\ pc[a] \in Ready /\ k > done[a] => Fresh(batch[a][k])
       /\ pc[a] = "executing" /\ k > done[a] + 1 => Fresh(batch[a][k])

\* A command on its way has not been started, and is on its way once.
SentInv ==
  /\ \A j \in jobs : j.cmd # None /\ j.stage = "sent" => started[j.cmd] = 0
  /\ \A i, j \in jobs : i.cmd # None /\ i.cmd = j.cmd => i = j
  /\ \A c \in Cmds : started[c] <= 1

OnceLine == ListInv /\ FreshInv /\ SentInv

\* Two applies at once, or one that panics and keeps its queue, break it.
OnceInv == guarded /\ cuts = 0 => OnceLine

LEMMA InitOnce == Init => OnceInv
<1> SUFFICES ASSUME Init PROVE OnceLine
  BY DEF OnceInv
<1>1. ListInv
  BY DEF Init, ListInv, Injective, Elems
<1>2. FreshInv /\ SentInv
  BY DEF Init, FreshInv, SentInv, Fresh, Elems
<1> QED
  BY <1>1, <1>2 DEF OnceLine

\* What is in a queue or a batch is a command.
LEMMA InCmds ==
  ASSUME Inv
  PROVE  /\ None \notin Cmds
         /\ Elems(queue) \subseteq Cmds
         /\ \A a \in Applies : \A k \in DOMAIN batch[a] : batch[a][k] \in Cmds
<1>1. queue \in Seq(Cmds) /\ \A a \in Applies : batch[a] \in Seq(Cmds)
  BY DEF Inv, StateInv, QueueState, ApplyState
<1> QED
  BY <1>1, SetsAssumption DEF Elems

\* No job is there that was not, but for puts.
NoNewCommand ==
  /\ \A i \in jobs' : \/ i.cmd = None
                      \/ \E j \in jobs : /\ i.cmd = j.cmd
                                         /\ i.stage = "sent" => j.stage = "sent"
  /\ \A i, j \in jobs' : i.cmd # None /\ i.cmd = j.cmd => i = j

\* And no apply has more to execute than it had.
Calm ==
  /\ NoNewCommand
  /\ UNCHANGED <<started, accepted, batch, done>>
  /\ \/ queue' = <<>>
     \/ queue' = queue /\ \A b \in Applies : pc[b] \in Busy => pc'[b] \in Busy
  /\ \A b \in Applies : /\ pc'[b] \in Ready => pc[b] \in Ready
                        /\ pc'[b] = "executing" => pc[b] \in {"exec", "executing"}

LEMMA OnceQuiet == ASSUME Inv, OnceLine, Calm PROVE OnceLine'
<1> USE DEF Calm
<1>1. \A c \in Cmds : Fresh(c) => Fresh(c)'
  BY InCmds DEF NoNewCommand, Fresh
<1>2. Injective(<<>>) /\ Elems(<<>>) = {}
  BY DEF Injective, Elems
<1>3. ListInv'
  BY <1>2 DEF OnceLine, ListInv
<1>4. \A c \in Cmds \ accepted : Fresh(c)'
  BY <1>1 DEF OnceLine, FreshInv
<1>5. (\A a \in Applies : pc'[a] \notin Busy) => \A c \in Elems(queue') : Fresh(c)'
  BY <1>1, <1>2, InCmds DEF OnceLine, FreshInv
<1>6. ASSUME NEW a \in Applies, NEW k \in DOMAIN batch[a]
      PROVE  /\ pc'[a] \in Ready /\ k > done[a] => Fresh(batch[a][k])'
             /\ pc'[a] = "executing" /\ k > done[a] + 1 => Fresh(batch[a][k])'
  <2>1. batch[a][k] \in Cmds /\ (Fresh(batch[a][k]) => Fresh(batch[a][k])')
    BY <1>1, InCmds DEF Fresh
  <2>2. k \in Nat /\ done[a] \in Nat
    <3>1. batch[a] \in Seq(Cmds) /\ done[a] \in Nat
      BY DEF Inv, StateInv, ApplyState
    <3> QED
      BY <3>1
  <2>3. k > done[a] + 1 => k > done[a]
    BY <2>2
  <2> QED
    BY <2>1, <2>3 DEF OnceLine, FreshInv, Ready
<1>7. SentInv'
  BY DEF OnceLine, SentInv, NoNewCommand
<1> QED
  BY <1>3, <1>4, <1>5, <1>6, <1>7 DEF OnceLine, FreshInv

\* A put is no command, and a job that goes, gets on or goes on for nobody is
\* not a new one.
LEMMA PutNoNew ==
  ASSUME Inv, OnceLine, NEW a, NEW file, NEW text, NEW way,
         Send(a, way, None, file, text)
  PROVE  NoNewCommand
<1>1. Job(a, None, file, text).cmd = None
  BY DEF Job
<1> QED
  BY <1>1 DEF Send, NoNewCommand, OnceLine, SentInv

LEMMA GoneNoNew ==
  ASSUME OnceLine, NEW j \in jobs, NEW k, k.cmd = j.cmd,
         k.stage = "sent" => j.stage = "sent",
         jobs' \subseteq (jobs \ {j}) \cup {k}
  PROVE  NoNewCommand
BY DEF NoNewCommand, OnceLine, SentInv

LEMMA SameNoNew == ASSUME OnceLine, jobs' = jobs PROVE NoNewCommand
BY DEF NoNewCommand, OnceLine, SentInv

LEMMA OnceApply ==
  ASSUME Inv, OnceLine, NEW a \in Applies, Press(a) \/ Apply(a),
         ~List(a), ~Succeeded(a), ~Cut(a), Execute(a) => batch[a][done[a] + 1] \in Writes
  PROVE  OnceLine'
<1>1. NoNewCommand
  <2>1. CASE jobs' = jobs
    BY <2>1, SameNoNew
  <2>2. CASE \E file, text : StartPut(a, file, text)
    BY <2>2, PutNoNew DEF StartPut
  <2>3. CASE Fallback(a)
    BY <2>3, PutNoNew DEF Fallback
  <2> QED
    BY <2>1, <2>2, <2>3 DEF Press, Apply, ListNothing, ReadConfig, ReadFails, Record,
       Recorded, Execute, Restore, RolledBack, Finish
<1>2. UNCHANGED <<started, accepted, batch, done>>
  BY DEF Press, Apply, ListNothing, ReadConfig, ReadFails, Record, Recorded, Execute,
     Restore, RolledBack, Finish, Fallback, ghosts, local
<1>3. \/ queue' = <<>>
      \/ queue' = queue /\ \A b \in Applies : pc[b] \in Busy => pc'[b] \in Busy
  BY DEF Press, Apply, ListNothing, ReadConfig, ReadFails, Record, Recorded, Execute,
     Restore, RolledBack, Finish, Fallback, Goto, Busy, Inv, StateInv, ApplyState
<1>4. \A b \in Applies : /\ pc'[b] \in Ready => pc[b] \in Ready
                         /\ pc'[b] = "executing" => pc[b] \in {"exec", "executing"}
  BY DEF Press, Apply, ListNothing, ReadConfig, ReadFails, Record, Recorded, Execute,
     Restore, RolledBack, Finish, Fallback, Goto, Ready, Inv, StateInv, ApplyState
<1>5. Calm
  BY <1>1, <1>2, <1>3, <1>4 DEF Calm
<1> QED
  BY <1>5, OnceQuiet

LEMMA OnceSucceeded ==
  ASSUME Inv, OnceLine, NEW a \in Applies, Succeeded(a)
  PROVE  OnceLine'
<1>1. /\ UNCHANGED <<queue, jobs, batch, started, accepted>>
      /\ pc[a] = "executing" /\ pc'[a] = "exec" /\ done'[a] = done[a] + 1
      /\ \A b \in Applies \ {a} : pc'[b] = pc[b] /\ done'[b] = done[b]
  BY DEF Succeeded, ghosts, Goto, Inv, StateInv, ApplyState
<1>2. \A c : Fresh(c)' <=> Fresh(c)
  BY <1>1 DEF Fresh
<1>3. ListInv' /\ SentInv'
  BY <1>1 DEF OnceLine, ListInv, SentInv
<1>4. FreshInv'
  BY <1>1, <1>2 DEF OnceLine, FreshInv, Busy
<1> QED
  BY <1>3, <1>4 DEF OnceLine

LEMMA OnceList ==
  ASSUME Inv, OnceLine, guarded, NEW a \in Applies, List(a)
  PROVE  OnceLine'
<1>1. /\ UNCHANGED <<queue, jobs, started, accepted, done>>
      /\ pc[a] = "called" /\ pc'[a] = "listed" /\ batch'[a] = queue
      /\ \A b \in Applies \ {a} : pc'[b] = pc[b] /\ batch'[b] = batch[b]
      /\ \A b \in Applies \ {a} : ~InProgress(b)
  BY DEF List, ghosts, Goto, Inv, StateInv, ApplyState, AloneInv, InProgress
<1>2. \A c : Fresh(c)' <=> Fresh(c)
  BY <1>1 DEF Fresh
<1>3. ListInv' /\ SentInv'
  BY <1>1 DEF OnceLine, ListInv, SentInv
<1>4. \A c \in Elems(queue) : Fresh(c)
  BY <1>1 DEF OnceLine, FreshInv, InProgress, Busy
<1>5. FreshInv'
  <2>1. \A k \in DOMAIN queue : Fresh(queue[k])
    BY <1>4 DEF Elems
  <2> QED
    BY <1>1, <1>2, <1>4, <2>1 DEF OnceLine, FreshInv
<1> QED
  BY <1>3, <1>5 DEF OnceLine

\* The next command is fresh, and from now on it is on its way.
LEMMA OnceSend ==
  ASSUME Inv, OnceLine, guarded, NEW a \in Applies, Execute(a), batch[a][done[a] + 1] \notin Writes
  PROVE  OnceLine'
<1> DEFINE c == batch[a][done[a] + 1]
           job == Job(a, c, "config", {})
<1>0. c \in Cmds /\ done[a] + 1 \in DOMAIN batch[a] /\ c # None
  BY NextIn, SetsAssumption DEF Execute
<1>1. /\ UNCHANGED <<queue, batch, done, started, accepted>>
      /\ jobs' = jobs \cup {job}
      /\ pc[a] = "exec" /\ pc'[a] = "executing"
      /\ \A b \in Applies \ {a} : pc'[b] = pc[b]
  BY DEF Execute, Send, ghosts, local, Goto, Inv, StateInv, ApplyState
<1>2. job.cmd = c /\ job.stage = "sent"
  BY DEF Job
<1>3. Fresh(c)
  <2>1. done[a] \in Nat
    BY DEF Inv, StateInv, ApplyState
  <2>2. done[a] + 1 > done[a]
    BY <2>1
  <2> QED
    BY <1>0, <1>1, <2>2 DEF OnceLine, FreshInv, Ready
<1> HIDE DEF job
<1>4. \A d : Fresh(d) /\ d # c => Fresh(d)'
  BY <1>1, <1>2 DEF Fresh
<1>5. c \in accepted
  BY <1>0 DEF OnceLine, ListInv, Elems
<1>6. ListInv'
  BY <1>1 DEF OnceLine, ListInv
<1>7. SentInv'
  BY <1>0, <1>1, <1>2, <1>3 DEF OnceLine, SentInv, Fresh
<1>8. \A b \in Applies : InProgress(b) => b = a
  BY <1>1 DEF Inv, AloneInv, InProgress
<1>9. FreshInv'
  <2>1. \A d \in Cmds \ accepted : Fresh(d)'
    BY <1>4, <1>5 DEF OnceLine, FreshInv
  <2>2. pc'[a] \in Busy
    BY <1>1 DEF Busy
  <2>3. ASSUME NEW b \in Applies, NEW k \in DOMAIN batch[b]
        PROVE  /\ pc'[b] \in Ready /\ k > done[b] => Fresh(batch[b][k])'
               /\ pc'[b] = "executing" /\ k > done[b] + 1 => Fresh(batch[b][k])'
    <3>1. CASE b # a
      BY <1>1, <1>8, <3>1 DEF InProgress, Ready
    <3>2. CASE b = a
      <4>1. done[a] \in Nat /\ batch[a] \in Seq(Cmds)
        BY DEF Inv, StateInv, ApplyState
      <4>2. k \in Nat
        BY <3>2, <4>1
      <4>3. k > done[a] + 1 => k > done[a] /\ batch[a][k] # c
        BY <1>0, <3>2, <4>1, <4>2 DEF OnceLine, ListInv, Injective
      <4>4. k > done[a] + 1 => Fresh(batch[a][k])
        BY <1>1, <3>2, <4>3 DEF OnceLine, FreshInv, Ready
      <4>5. k > done[a] + 1 => Fresh(batch[a][k])'
        BY <1>4, <1>1, <4>3, <4>4 DEF Fresh
      <4> QED
        BY <1>1, <3>2, <4>5 DEF Ready
    <3> QED
      BY <3>1, <3>2
  <2> QED
    BY <1>1, <2>1, <2>2, <2>3 DEF FreshInv
<1> QED
  BY <1>6, <1>7, <1>9 DEF OnceLine

\* A command starts: it was on its way, so that it is neither queued nor left
\* in a batch.
LEMMA OnceReads ==
  ASSUME Inv, OnceLine, NEW j \in jobs, CommandReads(j)
  PROVE  OnceLine'
<1>1. /\ UNCHANGED <<queue, pc, batch, done, accepted>>
      /\ started' = [started EXCEPT ![j.cmd] = @ + 1]
      /\ j.cmd # None /\ j.stage = "sent"
  BY DEF CommandReads, local
<1>2. GoodJob(j) /\ started \in [Cmds -> Nat]
  BY DEF Inv, JobInv, StateInv, QueueState
<1>3. j.cmd \in Cmds /\ started[j.cmd] = 0
  BY <1>1, <1>2 DEF OnceLine, SentInv, GoodJob, JobSet
<1>4. /\ started'[j.cmd] = 1
      /\ \A c \in Cmds \ {j.cmd} : started'[c] = started[c]
  BY <1>1, <1>2, <1>3
<1>5. PICK k : /\ jobs' \subseteq (jobs \ {j}) \cup {k} /\ k.cmd = j.cmd
               /\ k.stage = "read"
  <2> DEFINE k == [j EXCEPT !.stage = "read", !.text = config \cup {j.cmd}]
  <2>1. k.cmd = j.cmd /\ k.stage = "read"
    BY <1>2 DEF GoodJob, JobSet
  <2>2. jobs' \subseteq (jobs \ {j}) \cup {k}
    BY DEF CommandReads, End
  <2> HIDE DEF k
  <2> QED
    BY <2>1, <2>2
<1>6. \A c \in Cmds : Fresh(c) => Fresh(c)'
  BY <1>4, <1>5 DEF Fresh
<1>7. SentInv'
  <2>1. \A i \in jobs' : i.cmd # None /\ i.stage = "sent" => i \in jobs /\ i.cmd # j.cmd
    BY <1>1, <1>5 DEF OnceLine, SentInv
  <2>2. \A i \in jobs : GoodJob(i)
    BY DEF Inv, JobInv
  <2>3. \A i \in jobs' : i.cmd # None /\ i.stage = "sent" => started'[i.cmd] = 0
    BY <1>4, <2>1, <2>2 DEF OnceLine, SentInv, GoodJob, JobSet
  <2>4. \A h, i \in jobs' : h.cmd # None /\ h.cmd = i.cmd => h = i
    BY <1>1, <1>5 DEF OnceLine, SentInv
  <2>5. \A c \in Cmds : started'[c] <= 1
    BY <1>4 DEF OnceLine, SentInv
  <2> QED
    BY <2>3, <2>4, <2>5 DEF SentInv
<1>8. ListInv'
  BY <1>1 DEF OnceLine, ListInv
<1>9. FreshInv'
  <2>1. \A c \in Cmds \ accepted : Fresh(c)'
    BY <1>6 DEF OnceLine, FreshInv
  <2>2. (\A a \in Applies : pc[a] \notin Busy) => \A c \in Elems(queue) : Fresh(c)'
    BY <1>6, InCmds DEF OnceLine, FreshInv
  <2>3. ASSUME NEW a \in Applies, NEW n \in DOMAIN batch[a]
        PROVE  Fresh(batch[a][n]) => Fresh(batch[a][n])'
    <3>1. batch[a][n] \in Cmds /\ batch' = batch
      BY <1>1, InCmds
    <3> QED
      BY <1>6, <3>1 DEF Fresh
  <2> QED
    BY <1>1, <2>1, <2>2, <2>3 DEF OnceLine, FreshInv
<1> QED
  BY <1>7, <1>8, <1>9 DEF OnceLine

\* Faults, and what else happens on the host.
LEMMA OnceJobs ==
  ASSUME Inv, OnceLine, NEW j \in jobs,
         \/ \E a \in Applies : Refuse(a, j) \/ TimeOut(a, j) \/ Lose(a, j)
         \/ CommandWrites(j) \/ CommandFails(j) \/ PutOpens(j) \/ PutFills(j)
         \/ Dies(j)
  PROVE  OnceLine'
<1>1. NoNewCommand
  <2>1. GoodJob(j)
    BY DEF Inv, JobInv
  <2>2. CASE jobs' = Orphan(j)
    <3> DEFINE k == [j EXCEPT !.live = FALSE]
    <3>1. k.cmd = j.cmd /\ k.stage = j.stage
      BY <2>1 DEF GoodJob, JobSet
    <3>2. jobs' \subseteq (jobs \ {j}) \cup {k}
      BY <2>2 DEF Orphan
    <3> HIDE DEF k
    <3> QED
      BY <3>1, <3>2, GoneNoNew
  <2>3. CASE PutOpens(j)
    <3> DEFINE k == [j EXCEPT !.stage = "open"]
    <3>1. k.cmd = j.cmd /\ k.stage = "open"
      BY <2>1 DEF GoodJob, JobSet
    <3>2. jobs' \subseteq (jobs \ {j}) \cup {k}
      BY <2>3 DEF PutOpens
    <3> HIDE DEF k
    <3> QED
      BY <3>1, <3>2, GoneNoNew
  <2>4. CASE jobs' = jobs \ {j}
    BY <2>4, GoneNoNew
  <2> QED
    BY <2>2, <2>3, <2>4 DEF Refuse, TimeOut, Lose, CommandWrites, CommandFails,
       PutFills, Dies, End
<1>2. UNCHANGED <<queue, pc, started, accepted, batch, done>>
  BY DEF Refuse, TimeOut, Lose, CommandWrites, CommandFails, PutOpens, PutFills, Dies,
     ghosts, local
<1>3. Calm
  BY <1>1, <1>2 DEF Calm
<1> QED
  BY <1>3, OnceQuiet

\* The queue, and a crash.
LEMMA OnceQueue ==
  ASSUME Inv, OnceLine, NEW c \in Cmds, QueueCommand(c)
  PROVE  OnceLine'
<1>1. /\ UNCHANGED <<jobs, pc, batch, done, started>>
      /\ c \notin accepted /\ accepted' = accepted \cup {c} /\ queue' = Append(queue, c)
  BY DEF QueueCommand, local
<1>2. queue \in Seq(Cmds) /\ c \notin Elems(queue)
  BY <1>1 DEF Inv, StateInv, QueueState, OnceLine, ListInv
<1>3. /\ Len(queue) \in Nat /\ DOMAIN queue = 1 .. Len(queue)
      /\ DOMAIN queue' = 1 .. (Len(queue) + 1)
      /\ queue'[Len(queue) + 1] = c
      /\ \A i \in 1 .. Len(queue) : queue'[i] = queue[i]
  BY <1>1, <1>2
<1>4. Injective(queue')
  BY <1>2, <1>3 DEF OnceLine, ListInv, Injective, Elems
<1>5. Elems(queue') \subseteq Elems(queue) \cup {c}
  BY <1>3 DEF Elems
<1>6. ListInv'
  BY <1>1, <1>4, <1>5 DEF OnceLine, ListInv
<1>7. \A d : Fresh(d)' <=> Fresh(d)
  BY <1>1 DEF Fresh
<1>8. FreshInv'
  BY <1>1, <1>5, <1>7 DEF OnceLine, FreshInv
<1>9. SentInv'
  BY <1>1 DEF OnceLine, SentInv
<1> QED
  BY <1>6, <1>8, <1>9 DEF OnceLine

LEMMA OnceRemove ==
  ASSUME Inv, OnceLine, NEW c \in Cmds, RemoveCommand(c)
  PROVE  OnceLine'
<1>1. UNCHANGED <<jobs, pc, batch, done, started, accepted>>
  BY DEF RemoveCommand, local, ghosts
<1>2. PICK i \in DOMAIN queue : queue' = Without(queue, i)
  BY DEF RemoveCommand
<1>3. queue \in Seq(Cmds) /\ Injective(queue)
  BY DEF Inv, StateInv, QueueState, OnceLine, ListInv
<1>4. Elems(queue') \subseteq Elems(queue)
  BY <1>2, <1>3, WithoutSeq
<1>5. Injective(queue')
  <2>1. /\ Len(queue) \in Nat /\ DOMAIN queue = 1 .. Len(queue)
        /\ DOMAIN queue' = 1 .. (Len(queue) - 1)
    BY <1>2, <1>3 DEF Without
  <2> DEFINE at(l) == IF l < i THEN l ELSE l + 1
  <2>2. \A l \in 1 .. (Len(queue) - 1) : queue'[l] = queue[at(l)] /\ at(l) \in DOMAIN queue
    BY <1>2, <2>1 DEF Without
  <2>3. \A l, m \in 1 .. (Len(queue) - 1) : at(l) = at(m) => l = m
    BY <2>1
  <2> HIDE DEF at
  <2> QED
    BY <1>3, <2>1, <2>2, <2>3 DEF Injective
<1>6. ListInv'
  BY <1>1, <1>4, <1>5 DEF OnceLine, ListInv
<1>7. \A d : Fresh(d)' <=> Fresh(d)
  BY <1>1 DEF Fresh
<1>8. FreshInv'
  BY <1>1, <1>4, <1>7 DEF OnceLine, FreshInv
<1>9. SentInv'
  BY <1>1 DEF OnceLine, SentInv
<1> QED
  BY <1>6, <1>8, <1>9 DEF OnceLine

LEMMA OnceCrash == ASSUME Inv, OnceLine, Crash PROVE OnceLine'
<1>1. NoNewCommand
  <2>1. \A j \in jobs : /\ [j EXCEPT !.live = FALSE].cmd = j.cmd
                        /\ [j EXCEPT !.live = FALSE].stage = j.stage
    BY DEF Inv, JobInv, GoodJob, JobSet
  <2>2. jobs' = {[j EXCEPT !.live = FALSE] : j \in jobs}
    BY DEF Crash
  <2>3. \A i \in jobs' : \E j \in jobs : i.cmd = j.cmd /\ i.stage = j.stage
    BY <2>1, <2>2
  <2>4. ASSUME NEW h \in jobs', NEW i \in jobs', h.cmd # None, h.cmd = i.cmd
        PROVE  h = i
    <3>1. PICK j \in jobs : h = [j EXCEPT !.live = FALSE]
      BY <2>2
    <3>2. PICK k \in jobs : i = [k EXCEPT !.live = FALSE]
      BY <2>2
    <3>3. j.cmd = h.cmd /\ k.cmd = i.cmd
      BY <2>1, <3>1, <3>2
    <3>4. j = k
      BY <2>4, <3>3 DEF OnceLine, SentInv
    <3> QED
      BY <3>1, <3>2, <3>4
  <2> QED
    BY <2>3, <2>4 DEF NoNewCommand
<1>2. /\ UNCHANGED <<started, accepted, batch, done>> /\ queue' = <<>>
      /\ \A b \in Applies : pc'[b] \in {"idle", "done"}
  BY DEF Crash, ghosts, local, InProgress
<1>3. Calm
  BY <1>1, <1>2 DEF Calm, Ready
<1> QED
  BY <1>3, OnceQuiet

LEMMA OnceStep == Inv /\ OnceInv /\ [Next]_vars => OnceInv'
<1> SUFFICES ASSUME Inv, OnceInv, [Next]_vars, guarded', cuts' = 0 PROVE OnceLine'
  BY DEF OnceInv
<1>0. OnceLine /\ guarded
  <2>1. guarded' = guarded /\ (cuts' = cuts \/ cuts' = cuts + 1)
    BY DEF Next, QueueCommand, RemoveCommand, Press, Apply, List, ListNothing, Cut,
       ReadConfig, ReadFails, Record, Recorded, Execute, Succeeded, Restore, RolledBack,
       Finish, Fallback, Refuse, TimeOut, Lose, Host, CommandReads, CommandWrites,
       CommandFails, PutOpens, PutFills, Dies, Crash, vars, faults
  <2>2. cuts \in Nat
    BY DEF Inv, StateInv, FaultState
  <2> QED
    BY <2>1, <2>2 DEF OnceInv
<1>1. ASSUME NEW a \in Applies, Press(a) \/ Apply(a) PROVE OnceLine'
  <2>1. CASE Execute(a) /\ batch[a][done[a] + 1] \notin Writes
    BY <1>0, <2>1, OnceSend
  <2>2. ~Cut(a)
    <3>1. cuts \in Nat /\ cuts' = 0
      BY DEF Inv, StateInv, FaultState
    <3>2. Cut(a) => cuts' = cuts + 1
      BY DEF Cut
    <3> QED
      BY ONLY <3>1, <3>2
  <2>3. CASE ~(Execute(a) /\ batch[a][done[a] + 1] \notin Writes)
    BY <1>0, <1>1, <2>2, <2>3, OnceList, OnceApply, OnceSucceeded
  <2> QED
    BY <2>1, <2>3
<1>2. CASE UNCHANGED vars
  <2>1. UNCHANGED <<queue, jobs, pc, started, accepted, batch, done>>
    BY <1>2 DEF vars, ghosts, local
  <2>2. Calm
    BY <1>0, <2>1, SameNoNew DEF Calm
  <2> QED
    BY <1>0, <2>2, OnceQuiet
<1> QED
  BY <1>0, <1>1, <1>2, OnceJobs, OnceReads, OnceQueue, OnceRemove, OnceCrash
     DEF Next, Host

\* Under the guard of the bar no command is started twice on the host, by any
\* number of applies and crashes and whatever is refused, lost or given up, as
\* long as no apply panics over an output it cannot cut (on every other way out
\* of an apply that has executed a command the queue is cleared).
THEOREM NeverTwice == Spec => []StartedOnce
<1>1. OnceInv => StartedOnce
  BY DEF OnceInv, OnceLine, SentInv, StartedOnce
<1> QED
  BY <1>1, InitOnce, OnceStep, InvAlways, PTL DEF Spec

-----------------------------------------------------------------------------
(* Success means that every command has run to its end.                    *)

Current(a) == batch[a][done[a] + 1]

\* What an apply has counted as done has ended on the host, or is a put; and
\* the answer to a command comes from the job of that command.
OkLine(a) ==
  /\ \A k \in 1 .. done[a] : batch[a][k] \in Writes \cup ended
  /\ res[a] = "ok" => pc[a] = "done" /\ done[a] = Len(batch[a])
  /\ pc[a] = "executing" /\ Current(a) \notin Writes =>
       /\ call[a].way = "cli"
       /\ call[a].answer = "ok" => Current(a) \in ended
       /\ \A j \in jobs : j.live /\ j.by = a => j.cmd = Current(a)

OkInv == losses = 0 => \A a \in Applies : OkLine(a)

\* Steps of others.
LEMMA OkFrame ==
  ASSUME NEW b \in Applies, OkLine(b), pc'[b] = pc[b], batch'[b] = batch[b],
         done'[b] = done[b], res'[b] = res[b], ended \subseteq ended',
         call'[b].way = call[b].way,
         call'[b].answer = "ok" =>
           call[b].answer = "ok" \/ Current(b) \in ended' \cup Writes \/ pc[b] # "executing",
         \A i \in jobs' : i.live /\ i.by = b =>
           \E j \in jobs : j.live /\ j.by = b /\ j.cmd = i.cmd
  PROVE  OkLine(b)'
<1>1. Current(b)' = Current(b)
  BY DEF Current
<1> QED
  BY <1>1 DEF OkLine

\* The jobs of the others after a step of an apply.
LEMMA OtherJobs ==
  ASSUME Inv, NEW a \in Applies, Press(a) \/ Apply(a),
         NEW i \in jobs', i.by # a
  PROVE  i \in jobs
<1>1. CASE jobs' = jobs
  BY <1>1
<1>2. CASE \E way, c, file, text : Send(a, way, c, file, text)
  BY <1>2 DEF Send, Job
<1>3. CASE \E file, text : StartPut(a, file, text)
  BY <1>2, <1>3 DEF StartPut
<1>4. CASE Execute(a)
  BY <1>2, <1>3, <1>4 DEF Execute
<1> QED
  BY <1>1, <1>2, <1>3, <1>4 DEF Press, Apply, List, ListNothing, Cut, ReadConfig,
     ReadFails, Record, Recorded, Succeeded, Restore, RolledBack, Finish, Fallback

LEMMA OkApply ==
  ASSUME Inv, NEW a \in Applies, Press(a) \/ Apply(a), NEW b \in Applies, OkLine(b)
  PROVE  OkLine(b)'
<1>0. ended' = ended /\ pc \in [Applies -> Pcs] /\ res' \in [Applies -> {"none", "ok", "error", "rolled back"}]
  BY ApplyTypes DEF Press, Apply, List, ListNothing, Cut, ReadConfig, ReadFails, Record,
     Recorded, Execute, Succeeded, Restore, RolledBack, Finish, Fallback, ghosts, Inv,
     StateInv, ApplyState
<1>1. CASE b # a
  <2>1. /\ pc'[b] = pc[b] /\ batch'[b] = batch[b] /\ done'[b] = done[b]
        /\ call'[b] = call[b]
    BY <1>1, ApplyMoves, ApplyJobs
  <2>2. res'[b] = res[b]
    BY <1>1 DEF Press, Apply, List, ListNothing, Cut, ReadConfig, ReadFails, Record,
       Recorded, Execute, Succeeded, Restore, RolledBack, Finish, Fallback, local, Inv,
       StateInv, ApplyState
  <2>3. \A i \in jobs' : i.by = b => i \in jobs
    BY <1>1, OtherJobs
  <2> QED
    BY <1>0, <2>1, <2>2, <2>3, OkFrame
<1>2. CASE b = a /\ (Press(a) \/ List(a))
  <2>1. /\ done'[a] = 0 /\ pc[a] \in {"idle", "called"}
        /\ pc'[a] \in {"called", "listed"} /\ res'[a] = res[a]
    BY <1>2 DEF Press, List, local, Goto, Inv, StateInv, ApplyState, PlaceInv
  <2>2. 1 .. done'[a] = {} /\ res[a] # "ok"
    BY <1>2, <2>1 DEF OkLine
  <2> QED
    BY <1>2, <2>1, <2>2 DEF OkLine
<1>3. CASE b = a /\ Execute(a)
  <2>1. /\ UNCHANGED <<done, batch, res>> /\ pc[a] = "exec" /\ pc'[a] = "executing"
    BY <1>3 DEF Execute, local, Goto, Inv, StateInv, ApplyState
  <2>2. Current(a)' = Current(a) /\ res[a] # "ok"
    BY <1>3, <2>1 DEF Current, OkLine
  <2>3. ASSUME Current(a) \notin Writes
        PROVE  /\ call'[a].way = "cli" /\ call'[a].answer = "none"
               /\ \A i \in jobs' : i.live /\ i.by = a => i.cmd = Current(a)
    <3>1. Send(a, "cli", Current(a), "config", {})
      BY <1>3, <2>3 DEF Execute, Current
    <3>2. call'[a].way = "cli" /\ call'[a].answer = "none"
      BY <3>1 DEF Send, Inv, JobInv
    <3>3. Job(a, Current(a), "config", {}) \in jobs'
      BY <3>1 DEF Send
    <3>4. \A i \in jobs' : i.live /\ i.by = a => i = Job(a, Current(a), "config", {})
      BY <3>3, ApplyJobs DEF JobInv, Job
    <3> QED
      BY <3>2, <3>4 DEF Job
  <2> QED
    BY <1>0, <1>3, <2>1, <2>2, <2>3 DEF OkLine
<1>4. CASE b = a /\ Succeeded(a)
  <2>1. /\ UNCHANGED <<batch, res>> /\ pc[a] = "executing" /\ pc'[a] = "exec"
        /\ done'[a] = done[a] + 1 /\ done[a] \in Nat /\ call[a].answer = "ok"
    BY <1>4 DEF Succeeded, Goto, Returned, Inv, StateInv, ApplyState
  <2>2. Current(a) \in Writes \cup ended /\ res[a] # "ok"
    BY <1>4, <2>1 DEF OkLine
  <2>3. \A k \in 1 .. (done[a] + 1) : k \in 1 .. done[a] \/ k = done[a] + 1
    BY <2>1
  <2> QED
    BY <1>0, <1>4, <2>1, <2>2, <2>3 DEF OkLine, Current
<1>5. CASE b = a /\ Finish(a)
  <2>1. /\ UNCHANGED <<batch, done>> /\ pc'[a] = "done" /\ done[a] = Len(batch[a])
    BY <1>5 DEF Finish, Goto, Inv, StateInv, ApplyState
  <2> QED
    BY <1>0, <1>5, <2>1 DEF OkLine
<1>6. CASE /\ b = a
           /\ \/ ListNothing(a) \/ ReadConfig(a) \/ ReadFails(a) \/ Record(a)
              \/ Recorded(a) \/ Cut(a) \/ Restore(a) \/ RolledBack(a)
  <2>1. /\ UNCHANGED <<batch, done>> /\ pc[a] # "done" /\ pc'[a] # "executing"
        /\ res'[a] = res[a] \/ res'[a] \in {"error", "rolled back"}
    BY <1>6 DEF ListNothing, ReadConfig, ReadFails, Record, Recorded, Cut, Restore,
       RolledBack, local, Goto, Inv, StateInv, ApplyState
  <2> QED
    BY <1>0, <1>6, <2>1 DEF OkLine
<1>7. CASE b = a /\ Fallback(a)
  <2>1. UNCHANGED <<pc, batch, done, res>> /\ call[a].way = "sftp"
    BY <1>7 DEF Fallback, local
  <2>2. Current(a)' = Current(a)
    BY <2>1 DEF Current
  <2>3. pc[a] = "executing" => Current(a) \in Writes
    BY <1>7, <2>1 DEF OkLine
  <2> QED
    BY <1>0, <1>7, <2>1, <2>2, <2>3 DEF OkLine
<1> QED
  BY <1>1, <1>2, <1>3, <1>4, <1>5, <1>6, <1>7 DEF Apply

\* A job is answered.
LEMMA OkAnswer ==
  ASSUME Inv, NEW j \in jobs, j.live, NEW r \in {"ok", "error", "failed"}, Answer(j.by, r),
         jobs' = jobs \ {j} \/ jobs' = Orphan(j),
         UNCHANGED <<pc, batch, done, res>>, ended \subseteq ended',
         r = "ok" /\ j.cmd # None => j.cmd \in ended',
         NEW b \in Applies, OkLine(b)
  PROVE  OkLine(b)'
<1>1. GoodJob(j) /\ j.by \in Applies
  BY DEF Inv, JobInv, GoodJob, JobSet
<1>2. call'[b].way = call[b].way
  BY <1>1, AnswerWay DEF Inv
<1>3. \A i \in jobs' : i.live /\ i.by = b => i \in jobs
  BY <1>1 DEF Orphan, GoodJob, JobSet
<1>4. CASE b # j.by
  <2>1. call'[b] = call[b]
    BY <1>4 DEF Answer, Inv, JobInv
  <2> QED
    BY <1>2, <1>3, <2>1, OkFrame
<1>5. CASE b = j.by
  <2>1. call'[b].answer = r
    BY <1>1, <1>5 DEF Answer, Inv, JobInv, CallSet
  <2>2. ASSUME r = "ok", pc[b] = "executing", Current(b) \notin Writes
        PROVE  Current(b) \in ended'
    <3>1. j.cmd = Current(b)
      BY <1>5, <2>2 DEF OkLine
    <3>2. j.cmd # None
      <4>1. done[b] < Len(batch[b])
        BY <2>2 DEF Inv, PlaceInv
      <4> QED
        BY <3>1, <4>1, NextIn, SetsAssumption DEF Current
    <3> QED
      BY <2>2, <3>1, <3>2
  <2> QED
    BY <1>2, <1>3, <2>1, <2>2, OkFrame
<1> QED
  BY <1>4, <1>5

LEMMA OkHost ==
  ASSUME Inv, NEW j \in jobs,
         \/ CommandReads(j) \/ CommandWrites(j) \/ CommandFails(j) \/ PutOpens(j)
         \/ PutFills(j) \/ Dies(j),
         NEW b \in Applies, OkLine(b)
  PROVE  OkLine(b)'
<1>0. UNCHANGED <<pc, batch, done, res>> /\ GoodJob(j)
  BY DEF CommandReads, CommandWrites, CommandFails, PutOpens, PutFills, Dies, local,
     Inv, JobInv
<1>1. ended \subseteq ended' /\ (CommandWrites(j) => j.cmd \in ended')
  BY DEF CommandReads, CommandWrites, CommandFails, PutOpens, PutFills, Dies, ghosts
<1>2. CASE \E r \in {"ok", "error", "failed"} :
             /\ End(j, r)
             /\ r = "ok" => CommandWrites(j) \/ PutFills(j)
  <2>1. PICK r \in {"ok", "error", "failed"} :
          End(j, r) /\ (r = "ok" => CommandWrites(j) \/ PutFills(j))
    BY <1>2
  <2>2. r = "ok" /\ j.cmd # None => j.cmd \in ended'
    <3>1. PutFills(j) => j.cmd = None
      BY <1>0 DEF PutFills, GoodJob
    <3> QED
      BY <1>1, <2>1, <3>1
  <2>3. CASE j.live
    BY <1>0, <1>1, <2>1, <2>2, <2>3, OkAnswer DEF End
  <2>4. CASE ~j.live
    <3>1. jobs' = jobs \ {j} /\ call' = call
      BY <2>1, <2>4 DEF End
    <3> QED
      BY <1>0, <1>1, <3>1, OkFrame
  <2> QED
    BY <2>3, <2>4
<1>3. CASE call' = call /\ \E k : /\ k.by = j.by /\ k.cmd = j.cmd /\ k.live = j.live
                                  /\ jobs' \subseteq (jobs \ {j}) \cup {k}
  BY <1>0, <1>1, <1>3, OkFrame
<1>4. CASE CommandReads(j) /\ config # Torn
  <2> DEFINE k == [j EXCEPT !.stage = "read", !.text = config \cup {j.cmd}]
  <2>1. /\ k.by = j.by /\ k.cmd = j.cmd /\ k.live = j.live /\ call' = call
        /\ jobs' \subseteq (jobs \ {j}) \cup {k}
    BY <1>0, <1>4 DEF CommandReads, GoodJob, JobSet
  <2> HIDE DEF k
  <2> QED
    BY <1>3, <2>1
<1>5. CASE PutOpens(j)
  <2> DEFINE k == [j EXCEPT !.stage = "open"]
  <2>1. /\ k.by = j.by /\ k.cmd = j.cmd /\ k.live = j.live /\ call' = call
        /\ jobs' \subseteq (jobs \ {j}) \cup {k}
    BY <1>0, <1>5 DEF PutOpens, GoodJob, JobSet
  <2> HIDE DEF k
  <2> QED
    BY <1>3, <2>1
<1>6. CASE Dies(j)
  <2>1. jobs' \subseteq (jobs \ {j}) \cup {j} /\ call' = call
    BY <1>6 DEF Dies
  <2> QED
    BY <1>3, <2>1
<1>7. CASE CommandReads(j) /\ config = Torn
  BY <1>2, <1>7 DEF CommandReads
<1>8. CASE CommandWrites(j) \/ CommandFails(j) \/ PutFills(j)
  BY <1>2, <1>8 DEF CommandWrites, CommandFails, PutFills
<1> QED
  BY <1>4, <1>5, <1>6, <1>7, <1>8

LEMMA OkStep == Inv /\ OkInv /\ [Next]_vars => OkInv'
<1> SUFFICES ASSUME Inv, OkInv, [Next]_vars, losses' = 0, NEW b \in Applies
             PROVE  OkLine(b)'
  BY DEF OkInv
<1>1. ASSUME NEW a \in Applies, Press(a) \/ Apply(a) PROVE OkLine(b)'
  <2>1. losses = 0
    BY <1>1 DEF Press, Apply, List, ListNothing, Cut, ReadConfig, ReadFails, Record,
       Recorded, Execute, Succeeded, Restore, RolledBack, Finish, Fallback, faults
  <2> QED
    BY <1>1, <2>1, OkApply DEF OkInv
<1>2. ASSUME NEW a \in Applies, NEW j \in jobs, Refuse(a, j) \/ TimeOut(a, j)
      PROVE  OkLine(b)'
  <2>1. /\ losses = 0 /\ j.live /\ Answer(j.by, "error")
        /\ (jobs' = jobs \ {j} \/ jobs' = Orphan(j))
        /\ UNCHANGED <<pc, batch, done, res, ended>>
    BY <1>2 DEF Refuse, TimeOut, JobOf, local, ghosts
  <2> QED
    BY <2>1, OkAnswer DEF OkInv
<1>3. ASSUME NEW a \in Applies, NEW j \in jobs, Lose(a, j) PROVE FALSE
  BY <1>3 DEF Lose, Inv, StateInv, FaultState
<1>4. ASSUME NEW j \in jobs,
             \/ CommandReads(j) \/ CommandWrites(j) \/ CommandFails(j)
             \/ PutOpens(j) \/ PutFills(j) \/ Dies(j)
      PROVE  OkLine(b)'
  <2>1. losses = 0
    BY <1>4 DEF CommandReads, CommandWrites, CommandFails, PutOpens, PutFills, Dies,
       faults
  <2> QED
    BY <1>4, <2>1, OkHost DEF OkInv
<1>5. CASE Crash
  <2>1. OkLine(b)
    BY <1>5 DEF OkInv, Crash
  <2>2. /\ UNCHANGED <<batch, done, res, ended>>
        /\ pc'[b] \in {"idle", "done"} /\ (pc[b] = "done" => pc'[b] = "done")
    BY <1>5 DEF Crash, local, ghosts, InProgress
  <2> QED
    BY <2>1, <2>2 DEF OkLine
<1>6. ASSUME NEW c \in Cmds, QueueCommand(c) \/ RemoveCommand(c) PROVE OkLine(b)'
  <2>1. UNCHANGED <<jobs, call, pc, batch, done, res, ended, losses>>
    BY <1>6 DEF QueueCommand, RemoveCommand, local, faults, ghosts
  <2> QED
    BY <2>1, OkFrame DEF OkInv
<1>7. CASE UNCHANGED vars
  <2>1. UNCHANGED <<jobs, call, pc, batch, done, res, ended, losses>>
    BY <1>7 DEF vars, local, faults, ghosts
  <2> QED
    BY <2>1, OkFrame DEF OkInv
<1> QED
  BY <1>1, <1>2, <1>3, <1>4, <1>5, <1>6, <1>7 DEF Next, Host

\* An apply that reports success has run every command of its batch to its
\* end on the host, whatever was refused or given up and wherever the
\* application stopped before; only a lost connection is taken for success
\* (remote_apply_queued_commands_with_services, SshSession::exec).
THEOREM SuccessIsReal == Spec => []OkMeansAllRan
<1>1. Init => OkInv
  <2> SUFFICES ASSUME Init, NEW a \in Applies PROVE OkLine(a)
    BY DEF OkInv
  <2>1. done[a] = 0 /\ res[a] = "none" /\ pc[a] = "idle"
    BY DEF Init
  <2> QED
    BY <2>1 DEF OkLine
<1>2. Inv /\ OkInv => OkMeansAllRan
  <2> SUFFICES ASSUME Inv, OkInv, losses = 0, NEW a \in Applies, res[a] = "ok"
               PROVE  Elems(batch[a]) \ Writes \subseteq ended
    BY DEF OkMeansAllRan
  <2>1. /\ done[a] = Len(batch[a])
        /\ \A k \in 1 .. done[a] : batch[a][k] \in Writes \cup ended
    BY DEF OkInv, OkLine
  <2>2. batch[a] \in Seq(Cmds)
    BY DEF Inv, StateInv, ApplyState
  <2>3. DOMAIN batch[a] = 1 .. Len(batch[a])
    BY <2>2
  <2> QED
    BY <2>1, <2>3 DEF Elems
<1> QED
  BY <1>1, <1>2, OkStep, InvAlways, PTL DEF Spec

-----------------------------------------------------------------------------
(* What an apply asks the host for.                                        *)

\* A put of the file is what a waits for, or has waited for.
Puts(a, file) == call[a].way \in {"sftp", "tee"} /\ call[a].file = file

AskLine(a) ==
  /\ pc[a] = "saving" => Puts(a, "snap") /\ call[a].text = before[a]
  /\ pc[a] = "indexing" => Puts(a, "index")
  /\ pc[a] = "executing" => call[a].file = "config"
  /\ pc[a] = "restoring" => Puts(a, "config") /\ call[a].text = before[a]
  /\ pc[a] \in {"idle", "called", "listed", "saving"} => done[a] = 0
  /\ res[a] = "rolled back" => pc[a] = "done"
AskInv == \A a \in Applies : AskLine(a)

\* An answer, and nothing else of a call, changes in the steps of others.
SameCalls ==
  \A a \in Applies :
    /\ call'[a].way = call[a].way
    /\ call'[a].file = call[a].file
    /\ call'[a].text = call[a].text

LEMMA AnswerCall ==
  ASSUME JobInv, NEW b \in Applies, NEW r, Answer(b, r)
  PROVE  /\ SameCalls
         /\ call'[b].answer = r
         /\ \A a \in Applies \ {b} : call'[a] = call[a]
BY DEF JobInv, CallSet, Answer, SameCalls

\* The steps that are neither of an apply nor a crash.
Outside ==
  \/ \E c \in Cmds : QueueCommand(c) \/ RemoveCommand(c)
  \/ \E a \in Applies, j \in jobs : Refuse(a, j) \/ TimeOut(a, j) \/ Lose(a, j)
  \/ Host

LEMMA OutsideCalls ==
  ASSUME Inv, Outside
  PROVE  UNCHANGED <<pc, local>> /\ SameCalls
<1>1. CASE \E c \in Cmds : QueueCommand(c) \/ RemoveCommand(c)
  BY <1>1 DEF QueueCommand, RemoveCommand, SameCalls
<1>2. ASSUME NEW a \in Applies, NEW j \in jobs, Refuse(a, j) \/ TimeOut(a, j) \/ Lose(a, j)
      PROVE  UNCHANGED <<pc, local>> /\ SameCalls
  <2>1. UNCHANGED <<pc, local>> /\ \E r : Answer(a, r)
    BY <1>2 DEF Refuse, TimeOut, Lose
  <2> QED
    BY <2>1, AnswerCall DEF Inv
<1>3. ASSUME NEW j \in jobs,
             \/ CommandReads(j) \/ CommandWrites(j) \/ CommandFails(j)
             \/ PutOpens(j) \/ PutFills(j) \/ Dies(j)
      PROVE  UNCHANGED <<pc, local>> /\ SameCalls
  <2>1. UNCHANGED <<pc, local>> /\ (call' = call \/ \E r : Answer(j.by, r))
    BY <1>3 DEF CommandReads, CommandWrites, CommandFails, PutOpens, PutFills, Dies, End
  <2>2. j.by \in Applies
    BY DEF Inv, JobInv, GoodJob, JobSet
  <2>3. CASE call' = call
    BY <2>1, <2>3 DEF SameCalls
  <2> QED
    BY <2>1, <2>2, <2>3, AnswerCall DEF Inv
<1> QED
  BY <1>1, <1>2, <1>3 DEF Outside, Host

LEMMA AskFrame ==
  ASSUME AskInv, SameCalls, UNCHANGED <<pc, local>>
  PROVE  AskInv'
BY DEF AskInv, AskLine, Puts, SameCalls, local

\* The put an apply starts.
LEMMA PutAsks ==
  ASSUME Inv, NEW a \in Applies, NEW file, NEW text, StartPut(a, file, text)
  PROVE  Puts(a, file)' /\ call'[a].text = text /\ call'[a].answer = "none"
BY DEF StartPut, Send, Inv, JobInv, Puts

LEMMA AskApply ==
  ASSUME Inv, AskInv, NEW a \in Applies, Press(a) \/ Apply(a)
  PROVE  AskInv'
<1>1. \A b \in Applies \ {a} : /\ call'[b] = call[b] /\ pc'[b] = pc[b]
                               /\ done'[b] = done[b]
  BY ApplyJobs, ApplyMoves
<1>2. \A b \in Applies \ {a} : res'[b] = res[b] /\ before'[b] = before[b]
  BY DEF Press, Apply, List, ListNothing, Cut, ReadConfig, ReadFails, Record, Recorded,
     Execute, Succeeded, Restore, RolledBack, Finish, Fallback, local, Inv, StateInv,
     ApplyState
<1>3. \A b \in Applies \ {a} : AskLine(b)'
  <2> SUFFICES ASSUME NEW b \in Applies \ {a} PROVE AskLine(b)'
    OBVIOUS
  <2>1. AskLine(b)
    BY DEF AskInv
  <2> QED
    BY <1>1, <1>2, <2>1 DEF AskLine, Puts
<1>4. AskLine(a)'
  <2>0. AskLine(a)
    BY DEF AskInv
  <2> USE DEF Inv, StateInv, ApplyState, Goto, local
  <2>1. CASE ReadConfig(a)
    <3>1. /\ pc[a] = "listed" /\ pc'[a] = "saving" /\ before'[a] = config
          /\ UNCHANGED <<done, res>> /\ StartPut(a, "snap", config)
      BY <2>1 DEF ReadConfig
    <3> QED
      BY <2>0, <3>1, PutAsks DEF AskLine
  <2>2. CASE Record(a)
    <3>1. /\ pc[a] = "saving" /\ UNCHANGED <<done, res, before>>
          /\ pc'[a] = "exec" \/ (pc'[a] = "indexing" /\ StartPut(a, "index", index \cup {a}))
      BY <2>2 DEF Record
    <3> QED
      BY <2>0, <3>1, PutAsks DEF AskLine
  <2>3. CASE Restore(a)
    <3>1. /\ pc[a] = "executing" /\ pc'[a] = "restoring"
          /\ UNCHANGED <<done, res, before>> /\ StartPut(a, "config", before[a])
      BY <2>3 DEF Restore
    <3> QED
      BY <2>0, <3>1, PutAsks DEF AskLine
  <2>4. CASE Execute(a)
    <3>1. /\ pc[a] = "exec" /\ pc'[a] = "executing" /\ UNCHANGED <<done, res, before>>
      BY <2>4 DEF Execute
    <3>2. call'[a].file = "config"
      <4> DEFINE c == batch[a][done[a] + 1]
      <4>1. CASE Send(a, "cli", c, "config", {})
        BY <4>1 DEF Send, JobInv
      <4>2. CASE StartPut(a, "config", {c})
        BY <4>2, PutAsks DEF Puts
      <4> QED
        BY <2>4, <4>1, <4>2 DEF Execute
    <3> QED
      BY <2>0, <3>1, <3>2 DEF AskLine
  <2>5. CASE Press(a) \/ List(a) \/ Recorded(a) \/ Succeeded(a)
    <3>1. /\ pc'[a] \in {"called", "listed", "exec"} /\ res' = res /\ pc[a] # "done"
          /\ pc'[a] # "exec" => done'[a] = 0
      BY <2>5 DEF Press, List, Recorded, Succeeded, PlaceInv
    <3> QED
      BY <2>0, <3>1 DEF AskLine
  <2>6. CASE ListNothing(a) \/ ReadFails(a) \/ Cut(a) \/ RolledBack(a) \/ Finish(a)
    <3>1. pc'[a] = "done"
      BY <2>6 DEF ListNothing, ReadFails, Cut, RolledBack, Finish
    <3> QED
      BY <3>1 DEF AskLine
  <2>7. CASE Fallback(a)
    <3>1. UNCHANGED <<pc, before, done, res>>
      BY <2>7 DEF Fallback
    <3>2. /\ call'[a].way = "tee" /\ call'[a].file = call[a].file
          /\ call'[a].text = call[a].text
      BY <2>7 DEF Fallback, Send, JobInv
    <3> QED
      BY <2>0, <3>1, <3>2 DEF AskLine, Puts
  <2> QED
    BY <2>1, <2>2, <2>3, <2>4, <2>5, <2>6, <2>7 DEF Apply
<1> QED
  BY <1>3, <1>4 DEF AskInv

LEMMA AskStep == Inv /\ AskInv /\ [Next]_vars => AskInv'
<1> SUFFICES ASSUME Inv, AskInv, [Next]_vars PROVE AskInv'
  OBVIOUS
<1>1. CASE Outside
  BY <1>1, OutsideCalls, AskFrame
<1>2. CASE Crash
  <2>1. \A a \in Applies : /\ pc'[a] \in {"idle", "done"}
                           /\ pc'[a] = "idle" => pc[a] = "idle"
                           /\ done'[a] = done[a] /\ res'[a] = res[a]
                           /\ pc[a] = "done" => pc'[a] = "done"
    BY <1>2 DEF Crash, InProgress, local
  <2> QED
    BY <2>1 DEF AskInv, AskLine
<1>3. CASE UNCHANGED vars
  <2>1. SameCalls
    BY <1>3 DEF vars, SameCalls
  <2> QED
    BY <1>3, <2>1, AskFrame DEF vars
<1> QED
  BY <1>1, <1>2, <1>3, AskApply DEF Next, Outside

LEMMA AskAlways == Spec => []AskInv
<1>1. Init => AskInv
  BY DEF Init, AskInv, AskLine
<1> QED
  BY <1>1, AskStep, InvAlways, PTL DEF Spec

-----------------------------------------------------------------------------
(* The snapshot and the restored file, while one apply runs at a time,     *)
(* nothing is given up or lost and one refusal at most has hit them.       *)

Few == timeouts = 0 /\ losses = 0 /\ refused <= 1
Steady == guarded /\ Few

LEMMA SteadyFew == Steady => Few
BY DEF Steady

\* A steady run has given up and lost nothing.
LEMMA FewFaults ==
  ASSUME Inv, Few', NEW a, NEW j, Refuse(a, j) \/ TimeOut(a, j) \/ Lose(a, j)
  PROVE  Refuse(a, j)
BY DEF TimeOut, Lose, Few, Inv, StateInv, FaultState

\* The refusal has cost a put its SFTP session; the put through the shell
\* comes to its end.
TryLine(a) ==
  pc[a] \in {"saving", "restoring"} =>
    /\ call[a].way = "tee" => refused = 1
    /\ call[a].answer = "error" => call[a].way = "sftp" /\ refused = 1
TryInv == Steady => \A a \in Applies : TryLine(a)

LEMMA SteadyBefore ==
  ASSUME Inv, [Next]_vars, Steady'
  PROVE  /\ Steady
         /\ refused = 1 => refused' = 1
         /\ crashes' = 0 => crashes = 0
<1> USE DEF Inv, StateInv, FaultState, Steady, Few
<1>1. /\ guarded' = guarded
      /\ \/ UNCHANGED faults
         \/ refused' = refused + 1 /\ UNCHANGED <<timeouts, losses, crashes>>
         \/ timeouts' = timeouts + 1
         \/ losses' = losses + 1
         \/ cuts' = cuts + 1 /\ UNCHANGED <<refused, timeouts, losses, crashes>>
         \/ crashes' = crashes + 1 /\ UNCHANGED <<refused, timeouts, losses>>
  BY DEF Next, QueueCommand, RemoveCommand, Press, Apply, List, ListNothing, Cut,
     ReadConfig, ReadFails, Record, Recorded, Execute, Succeeded, Restore, RolledBack,
     Finish, Fallback, Refuse, TimeOut, Lose, Host, CommandReads, CommandWrites,
     CommandFails, PutOpens, PutFills, Dies, Crash, vars
<1> QED
  BY <1>1 DEF faults

\* The faults a steady run has left, and the host's answers: an error is a
\* refusal.
LEMMA SteadyAnswers ==
  ASSUME Inv, Outside, Steady'
  PROVE  \/ call' = call
         \/ \E j \in jobs :
              /\ j.live /\ jobs' = jobs \ {j}
              /\ \E r \in {"ok", "error", "failed"} :
                   /\ Answer(j.by, r)
                   /\ r = "error" => refused = 0 /\ refused' = 1
                   /\ r = "ok" => CommandWrites(j) \/ PutFills(j)
<1> USE DEF Inv, StateInv, FaultState
<1>0. Few'
  BY DEF Steady
<1>1. CASE \E c \in Cmds : QueueCommand(c) \/ RemoveCommand(c)
  BY <1>1 DEF QueueCommand, RemoveCommand
<1>2. ASSUME NEW a \in Applies, NEW j \in jobs, Refuse(a, j)
      PROVE  /\ j.live /\ jobs' = jobs \ {j} /\ Answer(j.by, "error")
             /\ refused = 0 /\ refused' = 1
  BY <1>0, <1>2 DEF Refuse, JobOf, Few
<1>3. ASSUME NEW a \in Applies, NEW j \in jobs, TimeOut(a, j) \/ Lose(a, j)
      PROVE  FALSE
  BY <1>0, <1>3 DEF TimeOut, Lose, Few
<1>4. ASSUME NEW j \in jobs,
             \/ CommandReads(j) \/ CommandWrites(j) \/ CommandFails(j)
             \/ PutOpens(j) \/ PutFills(j) \/ Dies(j),
             call' # call
      PROVE  /\ j.live /\ jobs' = jobs \ {j}
             /\ \E r \in {"ok", "error", "failed"} :
                   /\ Answer(j.by, r)
                   /\ r # "error"
                   /\ r = "ok" => CommandWrites(j) \/ PutFills(j)
  <2>2. CASE CommandWrites(j) \/ PutFills(j)
    BY <1>4, <2>2 DEF CommandWrites, PutFills, End
  <2>3. CASE CommandReads(j) \/ CommandFails(j)
    <3>1. j.live /\ jobs' = jobs \ {j} /\ Answer(j.by, "failed")
      BY <1>4, <2>3 DEF CommandReads, CommandFails, End
    <3> QED
      BY <3>1
  <2>4. CASE PutOpens(j) \/ Dies(j)
    BY <1>4, <2>4 DEF PutOpens, Dies
  <2> QED
    BY <1>4, <2>2, <2>3, <2>4
<1> QED
  BY <1>1, <1>2, <1>3, <1>4 DEF Outside, Host

LEMMA TryApply ==
  ASSUME Inv, AskInv, Steady, \A b \in Applies : TryLine(b),
         refused = 1 => refused' = 1,
         NEW a \in Applies, Press(a) \/ Apply(a), NEW b \in Applies
  PROVE  TryLine(b)'
<1>1. CASE b # a
  <2>1. call'[b] = call[b] /\ pc'[b] = pc[b]
    BY <1>1, ApplyJobs, ApplyMoves
  <2> QED
    BY <2>1 DEF TryLine
<1>2. CASE b = a /\ (ReadConfig(a) \/ Restore(a))
  <2>0. ~(timeouts > 0)
    BY SteadyFew DEF Few
  <2>1. \E file, text : Send(a, "sftp", None, file, text)
    BY <1>2, <2>0 DEF ReadConfig, Restore, StartPut
  <2>2. call'[a].way = "sftp" /\ call'[a].answer = "none"
    BY <2>1 DEF Send, Inv, JobInv
  <2> QED
    BY <1>2, <2>2 DEF TryLine
<1>3. CASE b = a /\ Fallback(a)
  <2>1. /\ pc' = pc /\ call[a].answer = "error"
        /\ call'[a].way = "tee" /\ call'[a].answer = "none"
    BY <1>3 DEF Fallback, Send, Inv, JobInv
  <2> QED
    BY <1>3, <2>1 DEF TryLine
<1>4. CASE /\ b = a
           /\ \/ Press(a) \/ List(a) \/ ListNothing(a) \/ ReadFails(a) \/ Record(a)
              \/ Recorded(a) \/ Execute(a) \/ Succeeded(a) \/ Cut(a) \/ RolledBack(a)
              \/ Finish(a)
  <2>1. pc'[a] \notin {"saving", "restoring"}
    BY <1>4 DEF Press, List, ListNothing, ReadFails, Record, Recorded, Execute,
       Succeeded, Cut, RolledBack, Finish, Goto, Inv, StateInv, ApplyState
  <2> QED
    BY <1>4, <2>1 DEF TryLine
<1> QED
  BY <1>1, <1>2, <1>3, <1>4 DEF Apply

LEMMA TryOutside ==
  ASSUME Inv, AskInv, Steady', \A b \in Applies : TryLine(b),
         refused = 1 => refused' = 1,
         Outside, NEW b \in Applies
  PROVE  TryLine(b)'
<1>0. pc' = pc /\ SameCalls
  BY OutsideCalls
<1>1. CASE call'[b] = call[b]
  BY <1>0, <1>1 DEF TryLine
<1>2. CASE call'[b] # call[b]
  <2>1. PICK j \in jobs, r \in {"ok", "error", "failed"} :
          /\ Answer(j.by, r)
          /\ r = "error" => refused = 0 /\ refused' = 1
    BY <1>2, SteadyAnswers
  <2>2. j.by = b /\ call'[b].answer = r
    <3>1. j.by \in Applies
      BY DEF Inv, JobInv, GoodJob, JobSet
    <3> QED
      BY <1>2, <2>1, <3>1, AnswerCall DEF Inv
  <2>3. pc[b] \in {"saving", "restoring"} => call[b].way \in {"sftp", "tee"}
    BY DEF AskInv, AskLine, Puts
  <2> QED
    BY <1>0, <2>1, <2>2, <2>3 DEF TryLine, SameCalls
<1> QED
  BY <1>1, <1>2

LEMMA TryStep == Inv /\ AskInv /\ TryInv /\ [Next]_vars => TryInv'
<1> SUFFICES ASSUME Inv, AskInv, TryInv, [Next]_vars, Steady', NEW b \in Applies
             PROVE  TryLine(b)'
  BY DEF TryInv
<1>0. /\ Steady /\ (refused = 1 => refused' = 1)
      /\ \A a \in Applies : TryLine(a)
  BY SteadyBefore DEF TryInv
<1>1. CASE Outside
  BY <1>0, <1>1, TryOutside
<1>2. ASSUME NEW a \in Applies, Press(a) \/ Apply(a) PROVE TryLine(b)'
  BY <1>0, <1>2, TryApply
<1>3. CASE Crash
  BY <1>3 DEF Crash, InProgress, TryLine
<1>4. CASE UNCHANGED vars
  BY <1>0, <1>4 DEF vars, TryLine
<1> QED
  BY <1>1, <1>2, <1>3, <1>4 DEF Next, Outside

LEMMA TryAlways == Spec => []TryInv
<1>1. Init => TryInv
  BY DEF Init, TryInv, TryLine
<1> QED
  BY <1>1, TryStep, InvAlways, AskAlways, PTL DEF Spec

\* The snapshot of a stands, and nothing on the host touches it any more.
Past(a) == done[a] # 0 \/ pc[a] \in {"indexing", "exec", "executing", "restoring"}
NoSnapJob(a) == \A j \in jobs : j.by = a => j.file # "snap"
SnapLine(a) ==
  /\ Past(a) => snap[a] = before[a] /\ NoSnapJob(a)
  /\ pc[a] \in {"idle", "called", "listed"} => NoSnapJob(a)
  /\ pc[a] = "saving" =>
       /\ call[a].answer = "ok" => snap[a] = before[a]
       /\ \A j \in jobs : j.by = a /\ j.file = "snap" => j.live
SnapInv == Steady => \A a \in Applies : SnapLine(a)

\* The job that is new after a step of an apply.
LEMMA NewJobs ==
  ASSUME Inv, AskInv, NEW a \in Applies, Press(a) \/ Apply(a), NEW i \in jobs', i \notin jobs
  PROVE  i.live /\ i.by = a /\ (i.file = "snap" => pc'[a] = "saving")
<1>1. ASSUME NEW way, NEW c, NEW file, NEW text, Send(a, way, c, file, text),
             file = "snap" => pc'[a] = "saving"
      PROVE  i.live /\ i.by = a /\ (i.file = "snap" => pc'[a] = "saving")
  <2>1. i = Job(a, c, file, text)
    BY <1>1 DEF Send
  <2> QED
    BY <1>1, <2>1 DEF Job
<1>2. ASSUME NEW file, NEW text, StartPut(a, file, text), file = "snap" => pc'[a] = "saving"
      PROVE  i.live /\ i.by = a /\ (i.file = "snap" => pc'[a] = "saving")
  BY <1>1, <1>2 DEF StartPut
<1> USE DEF Inv, StateInv, ApplyState, Goto
<1>3. CASE ReadConfig(a)
  <2>1. pc'[a] = "saving" /\ StartPut(a, "snap", config)
    BY <1>3 DEF ReadConfig
  <2> QED
    BY <1>2, <2>1
<1>4. CASE Record(a) \/ Restore(a)
  <2>1. \/ StartPut(a, "index", index \cup {a})
        \/ StartPut(a, "config", before[a])
    BY <1>4 DEF Record, Restore
  <2>2. "index" # "snap" /\ "config" # "snap"
    OBVIOUS
  <2> QED
    BY <1>2, <2>1, <2>2
<1>5. CASE Execute(a)
  <2> DEFINE c == batch[a][done[a] + 1]
  <2>1. StartPut(a, "config", {c}) \/ Send(a, "cli", c, "config", {})
    BY <1>5 DEF Execute
  <2>2. "config" # "snap"
    OBVIOUS
  <2> HIDE DEF c
  <2> QED
    BY <1>1, <1>2, <2>1, <2>2
<1>6. CASE Fallback(a)
  <2>1. /\ pc' = pc /\ call[a].way = "sftp"
        /\ Send(a, "tee", None, call[a].file, call[a].text)
    BY <1>6 DEF Fallback
  <2>2. pc[a] \in {"saving", "indexing", "executing", "restoring"}
    BY <2>1 DEF PlaceInv, Quiet, Pcs
  <2>3. call[a].file = "snap" => pc'[a] = "saving"
    BY <2>1, <2>2 DEF AskInv, AskLine, Puts
  <2> QED
    BY <1>1, <2>1, <2>3
<1>7. CASE \/ Press(a) \/ List(a) \/ ListNothing(a) \/ ReadFails(a) \/ Recorded(a)
           \/ Succeeded(a) \/ Cut(a) \/ RolledBack(a) \/ Finish(a)
  BY <1>7 DEF Press, List, ListNothing, ReadFails, Recorded, Succeeded, Cut, RolledBack,
     Finish
<1> QED
  BY <1>3, <1>4, <1>5, <1>6, <1>7 DEF Apply

LEMMA SnapApply ==
  ASSUME Inv, AskInv, NEW a \in Applies, Press(a) \/ Apply(a), TryLine(a),
         NEW b \in Applies, SnapLine(b)
  PROVE  SnapLine(b)'
<1> USE DEF Inv, StateInv, ApplyState, Goto
<1>0. snap' = snap
  BY DEF Press, Apply, List, ListNothing, Cut, ReadConfig, ReadFails, Record, Recorded,
     Execute, Succeeded, Restore, RolledBack, Finish, Fallback, files
<1>1. CASE b # a
  <2>1. call'[b] = call[b] /\ pc'[b] = pc[b] /\ done'[b] = done[b]
    BY <1>1, ApplyJobs, ApplyMoves
  <2>2. before'[b] = before[b]
    BY <1>1 DEF Press, Apply, List, ListNothing, Cut, ReadConfig, ReadFails, Record,
       Recorded, Execute, Succeeded, Restore, RolledBack, Finish, Fallback, local
  <2>3. \A i \in jobs' : i.by = b => i \in jobs
    BY <1>1, OtherJobs
  <2> QED
    BY <1>0, <2>1, <2>2, <2>3 DEF SnapLine, Past, NoSnapJob
<1>2. CASE b = a
  <2>1. \A i \in jobs' : i \notin jobs => i.live /\ (i.file = "snap" => pc'[a] = "saving")
    BY NewJobs
  <2>2. CASE Press(a) \/ List(a)
    <3>1. /\ pc[a] \in {"idle", "called"} /\ pc'[a] \in {"called", "listed"}
          /\ done'[a] = 0 /\ jobs' = jobs
      BY <2>2 DEF Press, List, PlaceInv, local
    <3> QED
      BY <1>2, <3>1 DEF SnapLine, Past, NoSnapJob
  <2>3. CASE ReadConfig(a)
    <3>1. pc[a] = "listed" /\ pc'[a] = "saving" /\ done'[a] = 0
      BY <2>3 DEF ReadConfig, AskInv, AskLine
    <3>2. call'[a].answer = "none"
      BY <2>3, PutAsks DEF ReadConfig
    <3> QED
      BY <1>2, <2>1, <3>1, <3>2 DEF SnapLine, Past, NoSnapJob
  <2>4. CASE ReadFails(a) \/ ListNothing(a)
    <3>1. pc'[a] = "done" /\ done'[a] = 0
      BY <2>4 DEF ReadFails, ListNothing, AskInv, AskLine
    <3> QED
      BY <1>2, <3>1 DEF SnapLine, Past
  <2>5. CASE Record(a)
    <3>1. /\ pc[a] = "saving" /\ pc'[a] \in {"indexing", "exec"} /\ before'[a] = before[a]
          /\ Returned(a, "ok") \/ Returned(a, "error")
      BY <2>5 DEF Record, local
    <3>2. snap[a] = before[a]
      BY <1>2, <3>1 DEF SnapLine, TryLine, Returned
    <3>3. NoSnapJob(a)
      BY <1>2, <3>1 DEF SnapLine, NoSnapJob, Returned, JobInv, Serves
    <3>4. NoSnapJob(a)'
      BY <2>1, <3>1, <3>3 DEF NoSnapJob
    <3> QED
      BY <1>0, <1>2, <3>1, <3>2, <3>4 DEF SnapLine
  <2>6. CASE \/ Recorded(a) \/ Execute(a) \/ Succeeded(a) \/ Cut(a) \/ Restore(a)
             \/ RolledBack(a) \/ Finish(a)
    <3>1. /\ pc[a] \in {"indexing", "exec", "executing", "restoring"}
          /\ pc'[a] \in {"exec", "executing", "restoring", "done"}
          /\ before'[a] = before[a]
      BY <2>6 DEF Recorded, Execute, Succeeded, Cut, Restore, RolledBack, Finish, local
    <3>2. snap[a] = before[a] /\ NoSnapJob(a)
      BY <1>2, <3>1 DEF SnapLine, Past
    <3>3. NoSnapJob(a)'
      BY <2>1, <3>1, <3>2 DEF NoSnapJob
    <3> QED
      BY <1>0, <1>2, <3>1, <3>2, <3>3 DEF SnapLine
  <2>7. CASE Fallback(a)
    <3>1. UNCHANGED <<pc, done, before>> /\ call'[a].answer = "none" /\ call[a].way = "sftp"
      BY <2>7 DEF Fallback, Send, JobInv, local
    <3>2. pc[a] \notin {"idle", "called", "listed"}
      BY <3>1 DEF PlaceInv, Quiet
    <3>3. pc[a] # "saving" => (NoSnapJob(a) => NoSnapJob(a)')
      BY <2>1, <3>1 DEF NoSnapJob
    <3>4. pc[a] = "saving" => ~Past(a)
      BY DEF AskInv, AskLine, Past
    <3> QED
      BY <1>0, <1>2, <2>1, <3>1, <3>2, <3>3, <3>4 DEF SnapLine, Past
  <2> QED
    BY <2>2, <2>3, <2>4, <2>5, <2>6, <2>7 DEF Apply
<1> QED
  BY <1>1, <1>2

\* A step of the host: the jobs that are there were there, and what it writes
\* is the file of its job.
LEMMA HostJobs ==
  ASSUME Inv, NEW j \in jobs,
         \/ CommandReads(j) \/ CommandWrites(j) \/ CommandFails(j) \/ PutOpens(j)
         \/ PutFills(j) \/ Dies(j)
  PROVE  /\ \A i \in jobs' : \E k \in jobs : k.by = i.by /\ k.file = i.file /\ k.live = i.live
         /\ \A b \in Applies : snap'[b] # snap[b] => j.by = b /\ j.file = "snap"
         /\ config' # config => j.file = "config"
         /\ PutFills(j) /\ j.file = "snap" => snap'[j.by] = j.text
         /\ PutFills(j) /\ j.file = "config" => config' = j.text
<1>0. GoodJob(j) /\ snap \in [Applies -> Texts]
  BY DEF Inv, JobInv, StateInv, FileState
<1>1. \A i \in jobs' : \E k \in jobs : k.by = i.by /\ k.file = i.file /\ k.live = i.live
  <2>1. CASE jobs' \subseteq jobs
    BY <2>1
  <2>2. CASE \E i : /\ jobs' = (jobs \ {j}) \cup {i}
                    /\ i.by = j.by /\ i.file = j.file /\ i.live = j.live
    BY <2>2
  <2>3. CASE CommandReads(j) /\ config # Torn
    <3> DEFINE k == [j EXCEPT !.stage = "read", !.text = config \cup {j.cmd}]
    <3>1. /\ jobs' = (jobs \ {j}) \cup {k}
          /\ k.by = j.by /\ k.file = j.file /\ k.live = j.live
      BY <1>0, <2>3 DEF CommandReads, GoodJob, JobSet
    <3> HIDE DEF k
    <3> QED
      BY <2>2, <3>1
  <2>4. CASE PutOpens(j)
    <3> DEFINE k == [j EXCEPT !.stage = "open"]
    <3>1. /\ jobs' = (jobs \ {j}) \cup {k}
          /\ k.by = j.by /\ k.file = j.file /\ k.live = j.live
      BY <1>0, <2>4 DEF PutOpens, GoodJob, JobSet
    <3> HIDE DEF k
    <3> QED
      BY <2>2, <3>1
  <2> QED
    BY <2>1, <2>3, <2>4 DEF CommandReads, CommandWrites, CommandFails, PutFills, Dies, End
<1>2. UNCHANGED files \/ \E t : Fill(j, t)
  BY DEF CommandReads, CommandWrites, CommandFails, PutOpens, PutFills, Dies
<1>3. /\ \A b \in Applies : snap'[b] # snap[b] => j.by = b /\ j.file = "snap"
      /\ config' # config => j.file = "config"
  BY <1>0, <1>2 DEF files, Fill
<1>4. PutFills(j) => Fill(j, j.text) /\ j.by \in Applies
  BY <1>0 DEF PutFills, GoodJob, JobSet
<1> QED
  BY <1>0, <1>1, <1>3, <1>4 DEF Fill

\* A job that is waited for is of an apply in progress: under the guard the
\* only one.
LEMMA LiveJob ==
  ASSUME Inv, NEW j \in jobs, j.live
  PROVE  /\ j.by \in Applies /\ InProgress(j.by) /\ (guarded => last = j.by)
         /\ call[j.by].answer = "none" /\ j.file = call[j.by].file
         /\ call[j.by].way \in {"sftp", "tee"} => j.cmd = None /\ j.text = call[j.by].text
<1>1. GoodJob(j) /\ Serves(j, call[j.by]) /\ j.by \in Applies
  BY DEF Inv, JobInv, GoodJob, JobSet
<1>2. InProgress(j.by) /\ Listed(j.by)
  BY <1>1 DEF Serves, Inv, PlaceInv, Quiet, Listed, InProgress
<1> QED
  BY <1>1, <1>2 DEF Serves, Inv, AloneInv

\* Steps outside that leave the files alone.
LEMMA SnapFrame ==
  ASSUME NEW b \in Applies, SnapLine(b), snap'[b] = snap[b], before'[b] = before[b],
         pc'[b] = pc[b], done'[b] = done[b],
         call'[b].answer = "ok" => call[b].answer = "ok" \/ pc[b] # "saving",
         \A i \in jobs' : \E k \in jobs : k.by = i.by /\ k.file = i.file /\ k.live = i.live
  PROVE  SnapLine(b)'
BY DEF SnapLine, Past, NoSnapJob

LEMMA SnapHost ==
  ASSUME Inv, AskInv, Steady', NEW j \in jobs,
         \/ CommandReads(j) \/ CommandWrites(j) \/ CommandFails(j) \/ PutOpens(j)
         \/ PutFills(j) \/ Dies(j),
         NEW b \in Applies, SnapLine(b)
  PROVE  SnapLine(b)'
<1>0. Outside
  BY DEF Outside, Host
<1>1. UNCHANGED <<pc, before, done>> /\ SameCalls
  BY <1>0, OutsideCalls DEF local
<1>2. /\ \A i \in jobs' : \E k \in jobs : k.by = i.by /\ k.file = i.file /\ k.live = i.live
      /\ snap'[b] # snap[b] => j.by = b /\ j.file = "snap"
      /\ PutFills(j) /\ j.file = "snap" => snap'[j.by] = j.text
  BY HostJobs
<1>3. GoodJob(j) /\ j.by \in Applies
  BY DEF Inv, JobInv, GoodJob, JobSet
<1>4. call'[b] = call[b] \/ (j.live /\ j.by = b)
  <2>1. call' = call \/ (j.live /\ \E r : Answer(j.by, r))
    BY DEF CommandReads, CommandWrites, CommandFails, PutOpens, PutFills, Dies, End
  <2> QED
    BY <1>3, <2>1, AnswerCall DEF Inv
<1>5. CASE j.by = b /\ j.file = "snap" /\ pc[b] = "saving"
  <2>1. j.live
    BY <1>5 DEF SnapLine
  <2>2. /\ call[b].answer = "none" /\ j.cmd = None /\ j.text = before[b]
        /\ done[b] = 0
    <3>1. AskLine(b)
      BY DEF AskInv
    <3>2. call[b].way \in {"sftp", "tee"} /\ call[b].text = before[b] /\ done[b] = 0
      BY <1>5, <3>1 DEF AskLine, Puts
    <3> QED
      BY <1>5, <2>1, <3>2, LiveJob
  <2>3. ~Past(b)'
    BY <1>1, <1>5, <2>2 DEF Past
  <2>4. CASE PutFills(j)
    <3>1. snap'[b] = before[b]
      BY <1>2, <1>5, <2>2, <2>4
    <3>2. \A i \in jobs' : i.by = b /\ i.file = "snap" => i.live
      BY <1>2, <1>5 DEF SnapLine
    <3> QED
      BY <1>1, <1>5, <2>3, <3>1, <3>2 DEF SnapLine
  <2>5. CASE ~PutFills(j)
    <3>1. call' = call
      BY <1>3, <2>1, <2>2, <2>5 DEF CommandReads, CommandWrites, CommandFails, PutOpens,
         PutFills, Dies, GoodJob
    <3>2. \A i \in jobs' : i.by = b /\ i.file = "snap" => i.live
      BY <1>2, <1>5 DEF SnapLine
    <3> QED
      BY <1>1, <1>5, <2>2, <2>3, <3>1, <3>2 DEF SnapLine
  <2> QED
    BY <2>4, <2>5
<1>6. CASE j.by = b /\ j.file = "snap" /\ pc[b] # "saving"
  <2>1. ~Past(b) /\ pc[b] \notin {"idle", "called", "listed"}
    BY <1>6 DEF SnapLine, NoSnapJob
  <2> QED
    BY <1>1, <1>6, <2>1 DEF SnapLine, Past
<1>7. CASE ~(j.by = b /\ j.file = "snap")
  <2>1. j.live /\ j.by = b => pc[b] # "saving"
    <3>1. pc[b] = "saving" => call[b].file = "snap"
      BY DEF AskInv, AskLine, Puts
    <3> QED
      BY <1>7, <3>1, LiveJob
  <2>2. snap'[b] = snap[b]
    BY <1>2, <1>7
  <2> QED
    BY <1>1, <1>2, <1>4, <2>1, <2>2, SnapFrame
<1> QED
  BY <1>5, <1>6, <1>7

LEMMA SnapStep == Inv /\ AskInv /\ TryInv /\ SnapInv /\ [Next]_vars => SnapInv'
<1> SUFFICES ASSUME Inv, AskInv, TryInv, SnapInv, [Next]_vars, Steady', NEW b \in Applies
             PROVE  SnapLine(b)'
  BY DEF SnapInv
<1>0. Steady /\ SnapLine(b) /\ \A a \in Applies : TryLine(a)
  BY SteadyBefore DEF SnapInv, TryInv
<1>1. ASSUME NEW a \in Applies, Press(a) \/ Apply(a) PROVE SnapLine(b)'
  BY <1>0, <1>1, SnapApply
<1>2. CASE Host
  BY <1>0, <1>2, SnapHost DEF Host
<1>3. ASSUME NEW a \in Applies, NEW j \in jobs, Refuse(a, j) \/ TimeOut(a, j) \/ Lose(a, j)
      PROVE  SnapLine(b)'
  <2>1. Refuse(a, j)
    BY <1>3, FewFaults DEF Steady
  <2>2. UNCHANGED <<snap, before, pc, done>> /\ jobs' \subseteq jobs /\ Answer(a, "error")
    BY <2>1 DEF Refuse, files, local
  <2>3. call'[b] = call[b] \/ call'[b].answer = "error"
    BY <2>2, AnswerCall DEF Inv
  <2> QED
    BY <1>0, <2>2, <2>3, SnapFrame
<1>4. ASSUME NEW c \in Cmds, QueueCommand(c) \/ RemoveCommand(c) PROVE SnapLine(b)'
  <2>1. UNCHANGED <<snap, before, pc, done, jobs, call>>
    BY <1>4 DEF QueueCommand, RemoveCommand, files, local
  <2> QED
    BY <1>0, <2>1, SnapFrame
<1>5. CASE Crash
  <2>1. /\ UNCHANGED <<snap, before, done>>
        /\ pc'[b] \in {"idle", "done"} /\ (pc'[b] = "idle" => pc[b] = "idle")
    BY <1>5 DEF Crash, files, local, InProgress
  <2>2. \A i \in jobs' : \E k \in jobs : k.by = i.by /\ k.file = i.file
    <3>1. \A k \in jobs : k \in JobSet
      BY DEF Inv, JobInv, GoodJob
    <3> QED
      BY <1>5, <3>1 DEF Crash, JobSet
  <2>3. NoSnapJob(b) => NoSnapJob(b)'
    BY <2>2 DEF NoSnapJob
  <2> QED
    BY <1>0, <2>1, <2>3 DEF SnapLine, Past
<1>6. CASE UNCHANGED vars
  <2>1. UNCHANGED <<snap, before, pc, done, jobs, call>>
    BY <1>6 DEF vars, files, local
  <2> QED
    BY <1>0, <2>1, SnapFrame
<1> QED
  BY <1>1, <1>2, <1>3, <1>4, <1>5, <1>6 DEF Next

\* From its first command on, the snapshot of an apply is whole and has the
\* text from before it, and stays that when the application stops: the put of
\* it that was refused once has been made through the shell before the first
\* command runs (remote_apply_queued_commands_with_services, sftp_write).
THEOREM SnapshotIsWhole == Spec => []SnapshotStands
<1>1. Init => SnapInv
  BY DEF Init, SnapInv, SnapLine, Past, NoSnapJob
<1>2. Inv /\ SnapInv => SnapshotStands
  <2> SUFFICES ASSUME Inv, SnapInv, Steady, NEW a \in Applies,
                      done[a] > 0 \/ pc[a] \in {"exec", "executing", "restoring"}
               PROVE  snap[a] = before[a]
    BY DEF SnapshotStands, Steady, Few
  <2>1. done[a] \in Nat
    BY DEF Inv, StateInv, ApplyState
  <2>2. done[a] > 0 => done[a] # 0
    BY <2>1
  <2> QED
    BY <2>2 DEF SnapInv, SnapLine, Past
<1> QED
  BY <1>1, <1>2, SnapStep, InvAlways, AskAlways, TryAlways, PTL DEF Spec

\* What has been written back is there.
RestLine(a) ==
  /\ pc[a] = "restoring" /\ call[a].answer = "ok" => config = before[a]
  /\ res[a] = "rolled back" /\ last = a => config = before[a]
RestInv ==
  Steady /\ crashes = 0 => /\ \A j \in jobs : j.live
                           /\ \A a \in Applies : RestLine(a)

LEMMA RestApply ==
  ASSUME Inv, AskInv, NEW a \in Applies, Press(a) \/ Apply(a), TryLine(a),
         NEW b \in Applies, RestLine(b)
  PROVE  RestLine(b)'
<1> USE DEF Inv, StateInv, ApplyState, Goto
<1>0. config' = config
  BY DEF Press, Apply, List, ListNothing, Cut, ReadConfig, ReadFails, Record, Recorded,
     Execute, Succeeded, Restore, RolledBack, Finish, Fallback, files
<1>1. CASE b # a
  <2>1. call'[b] = call[b] /\ pc'[b] = pc[b] /\ (last' = b => last = b)
    BY <1>1, ApplyJobs, ApplyMoves
  <2>2. before'[b] = before[b] /\ res'[b] = res[b]
    BY <1>1 DEF Press, Apply, List, ListNothing, Cut, ReadConfig, ReadFails, Record,
       Recorded, Execute, Succeeded, Restore, RolledBack, Finish, Fallback, local
  <2> QED
    BY <1>0, <2>1, <2>2 DEF RestLine
<1>2. CASE b = a
  <2>1. pc[a] # "done"
    BY ApplyMoves DEF Press, InProgress
  <2>2. res[a] # "rolled back"
    BY <2>1 DEF AskInv, AskLine
  <2>3. CASE RolledBack(a)
    <3>1. /\ pc[a] = "restoring" /\ pc'[a] = "done" /\ before'[a] = before[a]
          /\ Returned(a, "ok") \/ Returned(a, "error")
      BY <2>3 DEF RolledBack
    <3>2. config = before[a]
      BY <1>2, <3>1 DEF RestLine, TryLine, Returned
    <3> QED
      BY <1>0, <1>2, <3>1, <3>2 DEF RestLine
  <2>4. CASE Restore(a)
    <3>1. call'[a].answer = "none" /\ res'[a] = res[a]
      BY <2>4, PutAsks DEF Restore, local
    <3> QED
      BY <1>2, <2>2, <3>1 DEF RestLine
  <2>5. CASE Fallback(a)
    <3>1. call'[a].answer = "none" /\ res'[a] = res[a]
      BY <2>5 DEF Fallback, Send, JobInv, local
    <3> QED
      BY <1>2, <2>2, <3>1 DEF RestLine
  <2>6. CASE \/ Press(a) \/ List(a) \/ ListNothing(a) \/ ReadConfig(a) \/ ReadFails(a)
             \/ Record(a) \/ Recorded(a) \/ Execute(a) \/ Succeeded(a) \/ Cut(a)
             \/ Finish(a)
    <3>1. pc'[a] # "restoring" /\ res'[a] # "rolled back"
      BY <2>2, <2>6 DEF Press, List, ListNothing, ReadConfig, ReadFails, Record, Recorded,
         Execute, Succeeded, Cut, Finish, local
    <3> QED
      BY <1>2, <3>1 DEF RestLine
  <2> QED
    BY <2>3, <2>4, <2>5, <2>6 DEF Apply
<1> QED
  BY <1>1, <1>2

LEMMA RestHost ==
  ASSUME Inv, AskInv, Steady, Steady', \A i \in jobs : i.live, NEW j \in jobs,
         \/ CommandReads(j) \/ CommandWrites(j) \/ CommandFails(j) \/ PutOpens(j)
         \/ PutFills(j) \/ Dies(j),
         NEW b \in Applies, RestLine(b)
  PROVE  RestLine(b)'
<1>0. Outside
  BY DEF Outside, Host
<1>1. UNCHANGED <<pc, before, res, last>>
  BY <1>0, OutsideCalls DEF local
<1>2. j.by \in Applies /\ InProgress(j.by) /\ last = j.by /\ call[j.by].answer = "none"
  BY LiveJob DEF Steady
<1>3. res[b] = "rolled back" /\ last = b => FALSE
  BY <1>2 DEF AskInv, AskLine, InProgress
<1>4. ASSUME pc[b] = "restoring", call'[b].answer = "ok" PROVE config' = before[b]
  <2>1. j.by = b
    BY <1>1, <1>2, <1>4 DEF Inv, AloneInv, InProgress, Steady
  <2>2. /\ j.cmd = None /\ j.text = before[b] /\ j.file = "config"
        /\ call[b].way \in {"sftp", "tee"}
    <3>1. AskLine(b) /\ pc[b] = "restoring"
      BY <1>1, <1>4 DEF AskInv
    <3>2. /\ call[b].way \in {"sftp", "tee"} /\ call[b].file = "config"
          /\ call[b].text = before[b]
      BY <3>1 DEF AskLine, Puts
    <3> QED
      BY <2>1, <3>2, LiveJob
  <2>3. PutFills(j)
    <3>1. GoodJob(j) /\ call' # call
      BY <1>2, <1>4, <2>1 DEF Inv, JobInv
    <3> QED
      BY <2>2, <3>1 DEF CommandReads, CommandWrites, CommandFails, PutOpens, Dies, GoodJob
  <2> QED
    BY <2>2, <2>3, HostJobs
<1> QED
  BY <1>1, <1>3, <1>4 DEF RestLine

LEMMA RestStep == Inv /\ AskInv /\ TryInv /\ RestInv /\ [Next]_vars => RestInv'
<1> SUFFICES ASSUME Inv, AskInv, TryInv, RestInv, [Next]_vars, Steady', crashes' = 0
             PROVE  (\A j \in jobs' : j.live) /\ \A b \in Applies : RestLine(b)'
  BY DEF RestInv
<1>0. /\ Steady /\ crashes = 0 /\ \A a \in Applies : TryLine(a) /\ RestLine(a)
      /\ \A j \in jobs : j.live
  BY SteadyBefore DEF RestInv, TryInv
<1>1. ASSUME NEW a \in Applies, Press(a) \/ Apply(a)
      PROVE  (\A j \in jobs' : j.live) /\ \A b \in Applies : RestLine(b)'
  BY <1>0, <1>1, RestApply, NewJobs
<1>2. ASSUME NEW j \in jobs, \/ CommandReads(j) \/ CommandWrites(j) \/ CommandFails(j)
                             \/ PutOpens(j) \/ PutFills(j) \/ Dies(j)
      PROVE  (\A i \in jobs' : i.live) /\ \A b \in Applies : RestLine(b)'
  <2>1. \A i \in jobs' : i.live
    BY <1>0, <1>2, HostJobs
  <2> QED
    BY <1>0, <1>2, <2>1, RestHost
<1>3. ASSUME NEW a \in Applies, NEW j \in jobs, Refuse(a, j) \/ TimeOut(a, j) \/ Lose(a, j)
      PROVE  (\A i \in jobs' : i.live) /\ \A b \in Applies : RestLine(b)'
  <2>1. Refuse(a, j)
    BY <1>3, FewFaults DEF Steady
  <2>2. /\ UNCHANGED <<config, before, pc, res, last>> /\ jobs' \subseteq jobs
        /\ Answer(a, "error")
    BY <2>1 DEF Refuse, files, local
  <2>3. \A b \in Applies : call'[b] = call[b] \/ call'[b].answer = "error"
    BY <2>2, AnswerCall DEF Inv
  <2> QED
    BY <1>0, <2>2, <2>3 DEF RestLine
<1>4. CASE Crash
  BY <1>4 DEF Crash, Inv, StateInv, FaultState
<1>5. CASE UNCHANGED <<config, before, pc, res, last, jobs, call>>
  BY <1>0, <1>5 DEF RestLine
<1>6. CASE (\E c \in Cmds : QueueCommand(c) \/ RemoveCommand(c)) \/ UNCHANGED vars
  BY <1>5, <1>6 DEF QueueCommand, RemoveCommand, vars, files, local
<1> QED
  BY <1>1, <1>2, <1>3, <1>4, <1>6 DEF Next, Host

\* Under the guard, and as long as nothing is given up, lost or cut off and one
\* refusal at most has hit it, an apply that reports its changes rolled back has
\* left openclaw.json as it found it, until another apply begins
\* (remote_apply_queued_commands_with_services).
THEOREM RollbackIsReal == Spec => []RestoredExactly
<1>1. Init => RestInv
  BY DEF Init, RestInv, RestLine
<1>2. RestInv => RestoredExactly
  BY DEF RestInv, RestLine, RestoredExactly, RestoredAlways, Steady, Few
<1> QED
  BY <1>1, <1>2, RestStep, InvAlways, AskAlways, TryAlways, PTL DEF Spec
=============================================================================
