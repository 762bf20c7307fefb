-------------------------- MODULE CommandApplyProofs --------------------------
(***************************************************************************)
(* Proofs about CommandApply, for every set of commands, applies, readers, *)
(* writers and cache keys: first the apply, its guard and its rollback,    *)
(* then the commands, for any number of applies and recipe executions at   *)
(* once: none is lost, one that was taken out in time never runs, and,     *)
(* under the guard of the bar, they run in the order they were queued, an  *)
(* apply that answers ok has made their changes, and the cache over the    *)
(* CLI shows the file as it is.                                            *)
(***************************************************************************)
EXTENDS CommandApply, TLAPS

SequenceFacts == INSTANCE SequenceTheorems

\* The disturbances of a behaviour are chosen once.
LEMMA MixStays ==
  [Next]_vars => /\ mix' = mix
                 /\ Guarded' = Guarded /\ Alone' = Alone /\ Uncut' = Uncut
                 /\ Atomic' = Atomic
  <1> SUFFICES ASSUME [Next]_vars PROVE mix' = mix
    BY DEF Guarded, Alone, Uncut, Atomic
  <1> USE DEF otherVars
  <1>1. ASSUME NEW c \in Cmds, QueueCommand(c) \/ RemoveQueued(c) PROVE mix' = mix
    BY <1>1 DEF QueueCommand, RemoveQueued
  <1>2. ASSUME NEW a \in Applies, UiApply(a) \/ CookExecute(a) PROVE mix' = mix
    BY <1>2 DEF UiApply, CookExecute
  <1>3. ASSUME NEW a \in Applies, ApplyStep(a) PROVE mix' = mix
    BY <1>3 DEF ApplyStep, CookEnqueue, CookCall, List, ListNothing, ReadBefore,
       ReadBeforeError, AddSnapshot, ExecOk, ExecFail, ExecCut, Restore,
       ClearFailed, ClearOk, Invalidate, RestartGateway, Settle
  <1>4. ASSUME NEW r \in Readers, ReaderStep(r) \/ \E k \in Keys : ReadMiss(r, k)
        PROVE  mix' = mix
    BY <1>4 DEF ReaderStep, ReadCli, ReadCliError, CacheSet, ReadMiss
  <1>5. ASSUME NEW w \in Writers, WriterStep(w) PROVE mix' = mix
    BY <1>5 DEF WriterStep, WriterRead, WriterWrite, WriterSnapshotError
  <1>6. CASE DiscardQueued \/ Remount \/ Crash \/ UNCHANGED vars
    BY <1>6 DEF DiscardQueued, Remount, Crash, vars
  <1> QED BY <1>1, <1>2, <1>3, <1>4, <1>5, <1>6 DEF Next

\* Taking one element out of a sequence leaves a sequence over the same set,
\* and adds no element to it.
LEMMA WithoutType ==
  ASSUME NEW S, NEW s \in Seq(S), NEW i \in DOMAIN s
  PROVE  /\ Without(s, i) \in Seq(S)
         /\ Elems(Without(s, i)) \subseteq Elems(s)
  <1>1. /\ Len(s) \in Nat /\ Len(s) >= 1 /\ DOMAIN s = 1 .. Len(s)
        /\ \A j \in 1 .. Len(s) : s[j] \in S
    OBVIOUS
  <1>2. \A j \in 1 .. (Len(s) - 1) : j \in DOMAIN s /\ j + 1 \in DOMAIN s
    BY <1>1
  <1>3. Without(s, i) \in [1 .. (Len(s) - 1) -> S]
    BY <1>1, <1>2 DEF Without
  <1>4. Without(s, i) \in Seq(S)
    BY <1>1, <1>3
  <1>5. DOMAIN Without(s, i) = 1 .. (Len(s) - 1)
    BY DEF Without
  <1>6. \A j \in 1 .. (Len(s) - 1) : Without(s, i)[j] \in Elems(s)
    BY <1>1, <1>2 DEF Without, Elems
  <1> QED BY <1>4, <1>5, <1>6 DEF Elems

-----------------------------------------------------------------------------
(* Type correctness: the variables change in six groups, and most actions  *)
(* touch one or two of them.                                               *)

\* The initial state is well typed.
LEMMA InitType == Init => TypeOK
  <1> SUFFICES ASSUME Init PROVE TypeOK
    OBVIOUS
  <1>1. QueueTypes /\ DiskTypes
    BY DEF Init, QueueTypes, DiskTypes
  <1>2. ApplyTypes
    BY DEF Init, ApplyTypes, Pcs, Answers
  <1>3. UiTypes /\ OtherTypes
    BY DEF Init, UiTypes, OtherTypes, IdleWriter, WriterStates
  <1>4. ReadTypes
    BY DEF Init, ReadTypes, IdleReader, ReaderStates
  <1> QED BY <1>1, <1>2, <1>3, <1>4 DEF TypeOK

\* A group that does not change stays well typed.
LEMMA FrameType ==
  /\ UNCHANGED queueVars /\ QueueTypes => QueueTypes'
  /\ UNCHANGED diskVars /\ DiskTypes => DiskTypes'
  /\ UNCHANGED applyVars /\ ApplyTypes => ApplyTypes'
  /\ UNCHANGED uiVars /\ UiTypes => UiTypes'
  /\ UNCHANGED readVars /\ ReadTypes => ReadTypes'
  /\ UNCHANGED otherVars /\ OtherTypes => OtherTypes'
  BY DEF queueVars, diskVars, applyVars, uiVars, readVars, otherVars,
         QueueTypes, DiskTypes, ApplyTypes, UiTypes, ReadTypes, OtherTypes

\* What is queued is well typed, and so is what a command writes.
LEMMA PushType ==
  ASSUME QueueTypes, DiskTypes, NEW c \in Cmds, Push(c)
  PROVE  /\ queue' \in Seq(Cmds) /\ accepted' \in Seq(Cmds) /\ late' \in SUBSET Cmds
         /\ text' \in [Cmds -> SUBSET Changes]
  <1>1. \A t \in Texts(c) : t \in SUBSET Changes
    BY SetsAssumption DEF Texts, DiskTypes, Changes, CfgCmds
  <1>2. PICK t \in Texts(c) : text' = [text EXCEPT ![c] = t]
    BY DEF Push
  <1>3. text' \in [Cmds -> SUBSET Changes]
    BY <1>1, <1>2 DEF QueueTypes
  <1> QED BY <1>3 DEF Push, QueueTypes

LEMMA EffectType ==
  ASSUME QueueTypes, DiskTypes, NEW c \in Cmds
  PROVE  /\ EditOf(c) \in [whole : BOOLEAN, text : SUBSET Changes]
         /\ Effect(c) => cfg' \in SUBSET Changes
  <1>1. EditOf(c) \in [whole : BOOLEAN, text : SUBSET Changes]
    BY DEF EditOf, QueueTypes, Changes
  <1> QED BY <1>1 DEF Effect, DiskTypes

\* Every step keeps the state well typed.
LEMMA NextType == TypeOK /\ [Next]_vars => TypeOK'
  <1> SUFFICES ASSUME TypeOK, [Next]_vars PROVE TypeOK'
    OBVIOUS
  <1> USE FrameType DEF TypeOK
  <1>a. ASSUME NEW S, TakeOut(S), QueueTypes
        PROVE  taken' \in [Cmds -> {"no", "early", "listed"}]
    BY <1>a DEF TakeOut, QueueTypes
  <1>b. ASSUME NEW a \in Applies, NEW p \in Pcs, pc' = [pc EXCEPT ![a] = p],
               UNCHANGED <<batch, before, done, res, ran>>
        PROVE  ApplyTypes'
    BY <1>b DEF ApplyTypes
  <1>c. ASSUME NEW a \in Applies, NEW r \in Answers, Return(a, r),
               UNCHANGED <<batch, before, done, ran>>
        PROVE  ApplyTypes'
    BY <1>c DEF ApplyTypes, Return, Pcs
  <1>1. ASSUME NEW c \in Cmds, QueueCommand(c) PROVE TypeOK'
    BY <1>1, PushType DEF QueueCommand, QueueTypes
  <1>2. ASSUME NEW c \in Cmds, RemoveQueued(c) PROVE TypeOK'
    BY <1>a, <1>2, WithoutType DEF RemoveQueued, QueueTypes
  <1>3. CASE DiscardQueued
    <2>1. taken' \in [Cmds -> {"no", "early", "listed"}]
      BY <1>a, <1>3 DEF DiscardQueued
    <2> QED BY <1>3, <2>1 DEF DiscardQueued, QueueTypes
  <1>4. ASSUME NEW a \in Applies, UiApply(a) PROVE TypeOK'
    BY <1>b, <1>4 DEF UiApply, UiTypes, Pcs
  <1>5. ASSUME NEW a \in Applies, CookExecute(a) PROVE TypeOK'
    BY <1>b, <1>5 DEF CookExecute, Pcs
  <1>6. ASSUME NEW a \in Applies, CookEnqueue(a) PROVE TypeOK'
    <2>1. Plan[a][planned[a] + 1] \in Cmds
      <3>1. Plan[a] \in Seq(Cmds) /\ planned[a] \in Nat /\ planned[a] < Len(Plan[a])
        BY <1>6, PlanAssumption DEF CookEnqueue, UiTypes
      <3>2. planned[a] + 1 \in 1 .. Len(Plan[a])
        BY <3>1
      <3> QED BY <3>1, <3>2
    <2>2. QueueTypes'
      BY <1>6, <2>1, PushType DEF CookEnqueue, QueueTypes
    <2>3. UiTypes'
      BY <1>6 DEF CookEnqueue, UiTypes
    <2> QED BY <1>6, <2>2, <2>3 DEF CookEnqueue
  <1>7. ASSUME NEW a \in Applies, CookCall(a) PROVE TypeOK'
    BY <1>b, <1>7 DEF CookCall, Pcs
  <1>8. ASSUME NEW a \in Applies, List(a) PROVE TypeOK'
    <2>1. ApplyTypes'
      BY <1>8 DEF List, ApplyTypes, QueueTypes, Pcs, Busy
    <2>2. ReadTypes'
      BY <1>8 DEF List, ReadTypes
    <2> QED BY <1>8, <2>1, <2>2 DEF List
  <1>9. ASSUME NEW a \in Applies, ListNothing(a) PROVE TypeOK'
    BY <1>c, <1>9 DEF ListNothing, Answers
  <1>10. ASSUME NEW a \in Applies, ReadBefore(a) PROVE TypeOK'
    BY <1>10 DEF ReadBefore, ApplyTypes, DiskTypes, Pcs, Busy
  <1>11. ASSUME NEW a \in Applies, ReadBeforeError(a) PROVE TypeOK'
    BY <1>c, <1>11 DEF ReadBeforeError, Answers
  <1>12. ASSUME NEW a \in Applies, AddSnapshot(a) PROVE TypeOK'
    <2>1. before[a] \in SUBSET Changes
      BY <1>12 DEF ApplyTypes
    <2>3. DiskTypes'
      BY <1>12, <2>1 DEF AddSnapshot, DiskTypes
    <2>2. ApplyTypes'
      BY <1>b, <1>12 DEF AddSnapshot, Pcs, Busy
    <2> QED BY <1>12, <2>2, <2>3 DEF AddSnapshot
  <1>13. ASSUME NEW a \in Applies, ExecOk(a) PROVE TypeOK'
    <2>1. NextCmd(a) \in Cmds
      BY <1>13 DEF ExecOk, NextCmd, ApplyTypes
    <2>2. ApplyTypes'
      BY <1>13, <2>1 DEF ExecOk, ApplyTypes
    <2>3. DiskTypes'
      BY <1>13, <2>1, EffectType DEF ExecOk, DiskTypes
    <2> QED BY <1>13, <2>2, <2>3 DEF ExecOk
  <1>14. ASSUME NEW a \in Applies, ExecFail(a) PROVE TypeOK'
    <2>1. NextCmd(a) \in Cmds
      BY <1>14 DEF ExecFail, NextCmd, ApplyTypes
    <2>2. ApplyTypes'
      BY <1>14, <2>1 DEF ExecFail, ApplyTypes, Pcs, Busy
    <2>3. DiskTypes'
      BY <1>14, <2>1, EffectType DEF ExecFail, DiskTypes
    <2> QED BY <1>14, <2>2, <2>3 DEF ExecFail
  <1>15. ASSUME NEW a \in Applies, Restore(a) PROVE TypeOK'
    <2>1. ApplyTypes'
      BY <1>b, <1>15 DEF Restore, Pcs, Busy
    <2>2. DiskTypes'
      BY <1>15 DEF Restore, DiskTypes, ApplyTypes
    <2> QED BY <1>15, <2>1, <2>2 DEF Restore
  <1>16. ASSUME NEW a \in Applies, ClearFailed(a) PROVE TypeOK'
    BY <1>c, <1>16 DEF ClearFailed, QueueTypes, Answers
  <1>17. ASSUME NEW a \in Applies, ClearOk(a) PROVE TypeOK'
    <2>1. ApplyTypes'
      BY <1>b, <1>17 DEF ClearOk, Pcs, Busy
    <2>2. QueueTypes' /\ DiskTypes'
      BY <1>17 DEF ClearOk, QueueTypes, DiskTypes
    <2> QED BY <1>17, <2>1, <2>2 DEF ClearOk
  <1>18. ASSUME NEW a \in Applies, Invalidate(a) PROVE TypeOK'
    <2>1. ApplyTypes'
      BY <1>b, <1>18 DEF Invalidate, Pcs, Busy
    <2>2. ReadTypes'
      BY <1>18 DEF Invalidate, ReadTypes
    <2> QED BY <1>18, <2>1, <2>2 DEF Invalidate
  <1>19. ASSUME NEW a \in Applies, RestartGateway(a) PROVE TypeOK'
    BY <1>c, <1>19 DEF RestartGateway, Answers
  <1>20. ASSUME NEW a \in Applies, Settle(a) PROVE TypeOK'
    BY <1>b, <1>20 DEF Settle, UiTypes, Pcs
  <1>21. CASE Remount
    BY <1>21 DEF Remount, UiTypes
  <1>22. ASSUME NEW r \in Readers, NEW k \in Keys, ReadMiss(r, k) PROVE TypeOK'
    BY <1>22 DEF ReadMiss, ReadTypes, ReaderStates
  <1>23. ASSUME NEW r \in Readers, ReaderStep(r) PROVE TypeOK'
    <2>1. CASE ReadCli(r)
      <3>1. reader[r].key \in SUBSET Keys /\ cfg \in SUBSET Changes
        BY DEF ReadTypes, ReaderStates, DiskTypes
      <3>2. reader' \in [Readers -> ReaderStates]
        BY <2>1, <3>1 DEF ReadCli, ReadTypes, ReaderStates
      <3> QED BY <2>1, <3>2 DEF ReadCli, ReadTypes
    <2>2. CASE ReadCliError(r)
      BY <2>2 DEF ReadCliError, ReadTypes, ReaderStates, IdleReader
    <2>3. CASE CacheSet(r)
      BY <2>3 DEF CacheSet, ReadTypes, ReaderStates, IdleReader
    <2> QED BY <1>23, <2>1, <2>2, <2>3 DEF ReaderStep
  <1>24. ASSUME NEW w \in Writers, WriterStep(w) PROVE TypeOK'
    <2>1. CASE WriterRead(w)
      BY <2>1 DEF WriterRead, OtherTypes, WriterStates, DiskTypes
    <2>2. CASE WriterWrite(w)
      <3>1. OtherTypes'
        BY <2>2 DEF WriterWrite, OtherTypes, WriterStates
      <3>2. DiskTypes'
        BY <2>2 DEF WriterWrite, OtherTypes, WriterStates, DiskTypes, Changes
      <3> QED BY <2>2, <3>1, <3>2 DEF WriterWrite
    <2>3. CASE WriterSnapshotError(w)
      BY <2>3 DEF WriterSnapshotError, OtherTypes, WriterStates
    <2> QED BY <1>24, <2>1, <2>2, <2>3 DEF WriterStep
  <1>25. CASE Crash
    <2>1. ApplyTypes'
      BY <1>25 DEF Crash, ApplyTypes, Pcs
    <2>2. ReadTypes' /\ OtherTypes'
      BY <1>25 DEF Crash, ReadTypes, OtherTypes, ReaderStates, WriterStates,
                   IdleReader, IdleWriter
    <2>3. QueueTypes' /\ UiTypes' /\ DiskTypes'
      BY <1>25 DEF Crash, QueueTypes, UiTypes
    <2> QED BY <2>1, <2>2, <2>3
  <1>26. CASE UNCHANGED vars
    BY <1>26 DEF vars
  <1>27. ASSUME NEW a \in Applies, ExecCut(a) PROVE TypeOK'
    <2>1. NextCmd(a) \in Cmds
      BY <1>27 DEF ExecCut, NextCmd, ApplyTypes
    <2>2. ApplyTypes'
      BY <1>27, <2>1 DEF ExecCut, Return, ApplyTypes, Pcs, Answers
    <2>3. DiskTypes'
      BY <1>27, <2>1, EffectType DEF ExecCut, DiskTypes
    <2> QED BY <1>27, <2>2, <2>3 DEF ExecCut
  <1> QED
    BY <1>1, <1>2, <1>3, <1>4, <1>5, <1>6, <1>7, <1>8, <1>9, <1>10, <1>11,
       <1>12, <1>13, <1>14, <1>15, <1>16, <1>17, <1>18, <1>19, <1>20, <1>21,
       <1>22, <1>23, <1>24, <1>25, <1>26, <1>27 DEF Next, ApplyStep

\* CommandApply is type correct, with any number of applies at once.
THEOREM TypeCorrect == Spec => []TypeOK
  <1> QED BY InitType, NextType, PTL DEF Spec

-----------------------------------------------------------------------------
(* The guard of the bar, and what a crash leaves behind.                   *)

Active(a) == pc[a] \notin {"idle", "settled", "dead"}

\* The bar waits for every apply that is under way.
GuardInv == \A a \in Applies : Active(a) => bar = a

\* Without recipe executions and remounts, every step keeps the guard.
LEMMA GuardStep ==
  ASSUME Guarded, TypeOK, GuardInv, [Next]_vars
  PROVE  GuardInv'
  <1> USE DEF GuardInv, Active, TypeOK, ApplyTypes
  <1>1. ASSUME pc' = pc, bar' = bar PROVE GuardInv'
    BY <1>1
  <1>2. ASSUME NEW a \in Applies, Active(a), bar' = bar,
               NEW p, pc' = [pc EXCEPT ![a] = p]
        PROVE  GuardInv'
    BY <1>2
  <1>3. ASSUME NEW a \in Applies, UiApply(a) PROVE GuardInv'
    BY <1>3, SetsAssumption DEF UiApply, Applies
  <1>4. ASSUME NEW a \in Applies, Settle(a) PROVE GuardInv'
    BY <1>4 DEF Settle
  <1>5. ASSUME NEW a \in Applies, ApplyStep(a), ~Settle(a) PROVE GuardInv'
    <2>1. CASE ExecOk(a)
      BY <1>1, <2>1 DEF ExecOk, uiVars
    <2>2. CASE \/ CookEnqueue(a) \/ CookCall(a)
      BY <2>2, SetsAssumption DEF CookEnqueue, CookCall, UiTypes, Applies
    <2>3. CASE \/ List(a) \/ ListNothing(a) \/ ReadBefore(a)
               \/ ReadBeforeError(a) \/ AddSnapshot(a)
      BY <1>2, <2>3 DEF List, ListNothing, ReadBefore, ReadBeforeError,
                        AddSnapshot, Return, uiVars
    <2>4. CASE \/ ExecFail(a) \/ ExecCut(a) \/ Restore(a) \/ ClearFailed(a)
               \/ ClearOk(a) \/ Invalidate(a) \/ RestartGateway(a)
      BY <1>2, <2>4 DEF ExecFail, ExecCut, Restore, ClearFailed, ClearOk, Invalidate,
                        RestartGateway, Return, uiVars
    <2> QED BY <1>5, <2>1, <2>2, <2>3, <2>4 DEF ApplyStep
  <1>6. ASSUME NEW c \in Cmds, QueueCommand(c) \/ RemoveQueued(c)
        PROVE  GuardInv'
    BY <1>1, <1>6 DEF QueueCommand, RemoveQueued, applyVars, uiVars
  <1>7. CASE DiscardQueued
    BY <1>1, <1>7 DEF DiscardQueued, applyVars, uiVars
  <1>8. ~Remount
    BY DEF Remount, Guarded
  <1>9. ASSUME NEW r \in Readers, ReaderStep(r) \/ \E k \in Keys : ReadMiss(r, k)
        PROVE  GuardInv'
    BY <1>1, <1>9 DEF ReaderStep, ReadCli, ReadCliError, CacheSet, ReadMiss,
                      applyVars, uiVars
  <1>10. ASSUME NEW w \in Writers, WriterStep(w) PROVE GuardInv'
    BY <1>1, <1>10 DEF WriterStep, WriterRead, WriterWrite,
                       WriterSnapshotError, applyVars, uiVars
  <1>11. CASE Crash
    BY <1>11 DEF Crash
  <1>12. CASE UNCHANGED vars
    BY <1>1, <1>12 DEF vars, applyVars, uiVars
  <1>13. ASSUME NEW a \in Applies, CookExecute(a) PROVE GuardInv'
    BY <1>13 DEF CookExecute, Guarded
  <1> QED
    BY <1>3, <1>4, <1>5, <1>6, <1>7, <1>8, <1>9, <1>10, <1>11, <1>12, <1>13
       DEF Next

\* The guard of the bar is enough for mutual exclusion, as long as the bar
\* stays mounted and no recipe runs: at most one apply is near the file.
THEOREM GuardExcludes == Spec => []OneApplyAtATime
  <1>1. Init => (Guarded => GuardInv)
    BY DEF Init, GuardInv, Active
  <1>2. TypeOK /\ (Guarded => GuardInv) /\ [Next]_vars => (Guarded => GuardInv)'
    BY GuardStep, MixStays
  <1>3. (Guarded => GuardInv) => OneApplyAtATime
    BY DEF GuardInv, OneApplyAtATime, Exclusive, Active, Running, Busy
  <1> QED BY <1>1, <1>2, <1>3, TypeCorrect, PTL DEF Spec

\* Why the last committed configuration is never lost: the snapshot holds it
\* before the first command runs, and until then the file itself does.
RecoverInv ==
  /\ \A a \in Applies : pc[a] = "snapshot" => before[a] = cfg
  /\ \A a \in Applies : pc[a] \in {"exec", "restore"} => committed \in snaps
  /\ Kept

\* Under the guard, without direct writes and with snapshots that succeed,
\* every step keeps a way back, whatever fails and wherever it crashes.
LEMMA RecoverStep ==
  ASSUME Alone, "snapshot" \notin mix,
         TypeOK, Exclusive, RecoverInv, [Next]_vars
  PROVE  RecoverInv'
  <1> USE DEF RecoverInv, Kept, TypeOK, ApplyTypes
  <1>1. ASSUME UNCHANGED diskVars, before' = before,
               \A a \in Applies : \/ pc'[a] = pc[a]
                                  \/ pc'[a] \notin {"snapshot", "exec", "restore"}
        PROVE  RecoverInv'
    BY <1>1 DEF diskVars
  <1>2. ASSUME NEW a \in Applies, ReadBefore(a) PROVE RecoverInv'
    BY <1>2 DEF ReadBefore, diskVars
  <1>3. ASSUME NEW a \in Applies, AddSnapshot(a) PROVE RecoverInv'
    <2>1. snaps' = snaps \cup {before[a]} /\ before[a] = cfg
      BY <1>3 DEF AddSnapshot
    <2>2. committed' \in snaps'
      BY <1>3, <2>1 DEF AddSnapshot
    <2> QED BY <1>3, <2>2 DEF AddSnapshot
  <1>4. ASSUME NEW a \in Applies,
               ExecOk(a) \/ ExecFail(a) \/ ExecCut(a) \/ Restore(a)
        PROVE  RecoverInv'
    <2>1. committed' = committed /\ snaps' = snaps /\ committed \in snaps
      BY <1>4 DEF ExecOk, ExecFail, ExecCut, Restore
    <2>2. ASSUME NEW b \in Applies, pc'[b] = "snapshot" PROVE FALSE
      BY <1>4, <2>2 DEF ExecOk, ExecFail, ExecCut, Return, Restore, Exclusive,
                        Running, Busy
    <2>3. \A b \in Applies : pc'[b] \in {"exec", "restore"} => committed' \in snaps'
      BY <2>1
    <2> QED BY <2>1, <2>2, <2>3
  <1>5. ASSUME NEW a \in Applies, ClearOk(a) PROVE RecoverInv'
    <2>1. cfg' = committed'
      BY <1>5 DEF ClearOk
    <2>2. ASSUME NEW b \in Applies, b # a PROVE pc'[b] \notin {"snapshot", "exec", "restore"}
      BY <1>5, <2>2 DEF ClearOk, Exclusive, Running, Busy
    <2>3. pc'[a] = "cleared"
      BY <1>5 DEF ClearOk
    <2> QED BY <2>1, <2>2, <2>3
  <1>6. ASSUME NEW a \in Applies,
               \/ CookEnqueue(a) \/ CookCall(a) \/ List(a) \/ ListNothing(a)
               \/ ReadBeforeError(a)
        PROVE  RecoverInv'
    BY <1>1, <1>6 DEF CookEnqueue, CookCall, List, ListNothing, applyVars,
                      ReadBeforeError, Return
  <1>7. ASSUME NEW a \in Applies,
               \/ ClearFailed(a) \/ Invalidate(a) \/ RestartGateway(a)
               \/ Settle(a) \/ UiApply(a) \/ CookExecute(a)
        PROVE  RecoverInv'
    BY <1>1, <1>7 DEF ClearFailed, Invalidate, RestartGateway, Settle, UiApply,
                      CookExecute, Return
  <1>8. ASSUME NEW c \in Cmds, QueueCommand(c) \/ RemoveQueued(c)
        PROVE  RecoverInv'
    BY <1>1, <1>8 DEF QueueCommand, RemoveQueued, applyVars
  <1>9. CASE DiscardQueued \/ Remount
    BY <1>1, <1>9 DEF DiscardQueued, Remount, applyVars
  <1>10. ASSUME NEW r \in Readers, ReaderStep(r) \/ \E k \in Keys : ReadMiss(r, k)
         PROVE  RecoverInv'
    BY <1>1, <1>10 DEF ReaderStep, ReadCli, ReadCliError, CacheSet, ReadMiss,
                       applyVars
  <1>11. CASE Crash
    BY <1>1, <1>11 DEF Crash
  <1>12. CASE UNCHANGED vars
    BY <1>1, <1>12 DEF vars, applyVars
  <1> QED
    BY <1>2, <1>3, <1>4, <1>5, <1>6, <1>7, <1>8, <1>9, <1>10, <1>11, <1>12
       DEF Next, ApplyStep, WriterStep, Alone

\* Crash safety: if snapshots succeed and one apply at a time works on the
\* file, the last committed configuration is in place or among the snapshots
\* after any number of crashes, failed commands and failed restores.
THEOREM CrashSafe == Spec => []Recoverable
  <1> DEFINE Held == Alone /\ "snapshot" \notin mix => RecoverInv
  <1>1. Init => Held
    BY DEF Init, RecoverInv, Kept
  <1>2. TypeOK /\ OneApplyAtATime /\ Held /\ [Next]_vars => Held'
    BY RecoverStep, MixStays DEF OneApplyAtATime, Alone
  <1>3. Held => Recoverable
    BY DEF RecoverInv, Recoverable
  <1> HIDE DEF Held
  <1> QED BY <1>1, <1>2, <1>3, TypeCorrect, GuardExcludes, PTL DEF Spec

-----------------------------------------------------------------------------
(* Sequences without repetitions.                                          *)

Injective(s) == \A i, j \in DOMAIN s : s[i] = s[j] => i = j

\* Appending adds one element.
LEMMA AppendElems ==
  ASSUME NEW S, NEW s \in Seq(S), NEW c \in S
  PROVE  Elems(Append(s, c)) = Elems(s) \cup {c}
  <1>1. /\ Len(s) \in Nat /\ DOMAIN s = 1 .. Len(s)
        /\ DOMAIN Append(s, c) = 1 .. (Len(s) + 1)
        /\ Append(s, c)[Len(s) + 1] = c
        /\ \A i \in 1 .. Len(s) : Append(s, c)[i] = s[i]
    OBVIOUS
  <1>2. Elems(Append(s, c)) \subseteq Elems(s) \cup {c}
    BY <1>1 DEF Elems
  <1>3. c \in Elems(Append(s, c))
    BY <1>1 DEF Elems
  <1>4. ASSUME NEW i \in 1 .. Len(s) PROVE s[i] \in Elems(Append(s, c))
    <2>1. i \in DOMAIN Append(s, c) /\ Append(s, c)[i] = s[i]
      BY <1>1
    <2> QED BY <2>1 DEF Elems
  <1>5. Elems(s) \subseteq Elems(Append(s, c))
    BY <1>1, <1>4 DEF Elems
  <1> QED BY <1>2, <1>3, <1>5

\* A pushed element that was not there keeps a sequence free of repetitions.
LEMMA AppendInjective ==
  ASSUME NEW S, NEW s \in Seq(S), NEW c \in S, Injective(s), c \notin Elems(s)
  PROVE  Injective(Append(s, c))
  BY DEF Injective, Elems

\* So does taking one out.
LEMMA WithoutInjective ==
  ASSUME NEW S, NEW s \in Seq(S), NEW i \in DOMAIN s, Injective(s)
  PROVE  Injective(Without(s, i))
  <1>1. /\ Len(s) \in Nat /\ DOMAIN s = 1 .. Len(s)
        /\ DOMAIN Without(s, i) = 1 .. (Len(s) - 1)
    BY DEF Without
  <1>2. SUFFICES ASSUME NEW j \in 1 .. (Len(s) - 1), NEW k \in 1 .. (Len(s) - 1),
                        Without(s, i)[j] = Without(s, i)[k]
                 PROVE  j = k
    BY <1>1 DEF Injective
  <1>3. \A l \in 1 .. (Len(s) - 1) : l \in DOMAIN s /\ l + 1 \in DOMAIN s
    BY <1>1
  <1> DEFINE at(l) == IF l < i THEN l ELSE l + 1
  <1>4. \A l \in 1 .. (Len(s) - 1) : Without(s, i)[l] = s[at(l)] /\ at(l) \in DOMAIN s
    BY <1>3 DEF Without
  <1>5. at(j) = at(k)
    BY <1>2, <1>4 DEF Injective
  <1> QED BY <1>1, <1>5

-----------------------------------------------------------------------------
(* The commands, from the queue to the host *)

\* Where an apply is while what it has run is still queued.
Working(a) == pc[a] \in {"exec", "restore", "failed"}

\* What is queued, listed or run has been accepted, and is queued once.
QueueInv ==
  /\ Injective(queue)
  /\ Elems(queue) \subseteq Elems(accepted)
  /\ Elems(ran) \subseteq Elems(accepted)
  /\ \A a \in Applies : Elems(batch[a]) \subseteq Elems(accepted)

\* A command that was taken out is gone from the queue; one that was taken
\* out early is in no batch and has not run.
TakenInv ==
  /\ \A c \in Cmds : taken[c] # "no" => c \in Elems(accepted) /\ c \notin Elems(queue)
  /\ \A a \in Applies : Running(a) => \A c \in Elems(batch[a]) : taken[c] # "early"
  /\ \A c \in Elems(ran) : taken[c] # "early"

\* What has been run of a batch.
CountInv ==
  \A a \in Applies :
    /\ pc[a] \in {"idle", "plan", "called", "listed", "snapshot"} => done[a] = 0
    /\ done[a] <= Len(batch[a])
    /\ \A k \in 1 .. done[a] : batch[a][k] \in Elems(ran)
    /\ res[a] = "rolled_back" => pc[a] \in {"returned", "settled", "dead"}

\* Where a command is that is not lost.
Accounted(c) ==
  \/ c \in Elems(queue) \cup Elems(ran) \cup late
  \/ taken[c] # "no"
  \/ \E a \in Applies : c \in Elems(batch[a]) /\ res[a] = "rolled_back"

\* Before it clears the queue, an apply has listed what is in it, or it came
\* late.
AccountInv ==
  /\ crashes = 0 => \A c \in Elems(accepted) : Accounted(c)
  /\ \A a \in Applies : Running(a) /\ pc[a] # "cleared" =>
       Elems(queue) \subseteq Elems(batch[a]) \cup late

CmdInv == TypeOK /\ QueueInv /\ TakenInv /\ CountInv /\ AccountInv

LEMMA InitCmd == Init => CmdInv
<1> SUFFICES ASSUME Init PROVE CmdInv
  OBVIOUS
<1>1. Elems(queue) = {} /\ Elems(accepted) = {} /\ Elems(ran) = {}
        /\ \A a \in Applies : Elems(batch[a]) = {}
  BY DEF Init, Elems
<1>2. QueueInv /\ TakenInv
  BY <1>1 DEF Init, QueueInv, TakenInv, Injective, Running, Busy
<1>3. CountInv /\ AccountInv
  BY <1>1 DEF Init, CountInv, AccountInv, Running, Busy
<1> QED
  BY <1>2, <1>3, InitType DEF CmdInv

-----------------------------------------------------------------------------
(* Steps that leave the commands alone.                                    *)

Early == {"idle", "plan", "called", "listed", "snapshot"}
Upto == {"listed", "snapshot", "exec"}
Over == {"returned", "settled", "dead"}

\* What such a step does to the applies.
Quiet ==
  /\ UNCHANGED <<queue, accepted, late, taken, batch, ran, done, crashes>>
  /\ \A a \in Applies :
       /\ Running(a)' => Running(a)
       /\ Running(a)' /\ pc'[a] # "cleared" => pc[a] # "cleared"
       /\ Working(a) => Working(a)'
       /\ pc'[a] \in Early => pc[a] \in Early
       /\ pc'[a] \in Upto => pc[a] \in Upto
       /\ res'[a] = "rolled_back" <=> res[a] = "rolled_back"
       /\ res[a] = "rolled_back" => pc'[a] \in Over

LEMMA QuietStep == ASSUME CmdInv, Quiet PROVE QueueInv' /\ TakenInv' /\ CountInv' /\ AccountInv'
<1>0. QueueInv /\ TakenInv /\ CountInv /\ AccountInv
  BY DEF CmdInv
<1>1. QueueInv'
  BY <1>0 DEF Quiet, QueueInv
<1>2. TakenInv'
  BY <1>0 DEF Quiet, TakenInv
<1>3. CountInv'
  BY <1>0 DEF Quiet, CountInv, Early, Over
<1>4. \A c : Accounted(c)' <=> Accounted(c)
  BY DEF Quiet, Accounted
<1>5. AccountInv'
  BY <1>0, <1>4 DEF Quiet, AccountInv
<1> QED
  BY <1>1, <1>2, <1>3, <1>5

\* The moves of an apply that do not touch the queue or a command.
Moves == {<<"idle", "called">>, <<"idle", "plan">>, <<"plan", "called">>,
          <<"called", "returned">>, <<"listed", "snapshot">>,
          <<"listed", "returned">>, <<"snapshot", "exec">>,
          <<"restore", "failed">>, <<"cleared", "restarting">>,
          <<"restarting", "returned">>, <<"returned", "settled">>}

LEMMA MoveQuiet ==
  ASSUME CmdInv, NEW a \in Applies, NEW p, pc' = [pc EXCEPT ![a] = p],
         <<pc[a], p>> \in Moves,
         UNCHANGED <<queue, accepted, late, taken, batch, ran, done, crashes>>,
         \/ UNCHANGED res
         \/ \E r \in {"nothing", "error", "ok"} :
              res' = [res EXCEPT ![a] = r] /\ p = "returned" /\ pc[a] \notin Over
  PROVE  Quiet
<1>0. pc \in [Applies -> Pcs] /\ res \in [Applies -> Answers] /\ CountInv
  BY DEF CmdInv, TypeOK, ApplyTypes
<1>1. pc'[a] = p /\ \A b \in Applies \ {a} : pc'[b] = pc[b]
  BY <1>0
<1>2. ASSUME NEW b \in Applies
      PROVE  /\ Running(b)' => Running(b)
             /\ Running(b)' /\ pc'[b] # "cleared" => pc[b] # "cleared"
             /\ Working(b) => Working(b)'
             /\ pc'[b] \in Early => pc[b] \in Early
             /\ pc'[b] \in Upto => pc[b] \in Upto
  BY <1>1 DEF Moves, Running, Busy, Working, Early, Upto
<1>3. ASSUME NEW b \in Applies
      PROVE  /\ res'[b] = "rolled_back" <=> res[b] = "rolled_back"
             /\ res[b] = "rolled_back" => pc'[b] \in Over
  BY <1>0, <1>1 DEF CountInv, Moves, Over
<1> QED
  BY <1>2, <1>3 DEF Quiet

LEMMA ApplyQuiet ==
  ASSUME CmdInv, NEW a \in Applies,
         \/ UiApply(a) \/ CookExecute(a) \/ CookCall(a) \/ ListNothing(a)
         \/ ReadBefore(a) \/ ReadBeforeError(a) \/ AddSnapshot(a) \/ Restore(a)
         \/ Invalidate(a) \/ RestartGateway(a) \/ Settle(a)
  PROVE  Quiet
<1> USE DEF queueVars, otherVars
<1>1. CASE UiApply(a) \/ CookExecute(a) \/ CookCall(a) \/ ReadBefore(a)
             \/ AddSnapshot(a) \/ Restore(a) \/ Invalidate(a) \/ Settle(a)
  <2>1. PICK p : pc' = [pc EXCEPT ![a] = p] /\ <<pc[a], p>> \in Moves
    BY <1>1 DEF UiApply, CookExecute, CookCall, ReadBefore, AddSnapshot, Restore,
       Invalidate, Settle, Moves
  <2>2. UNCHANGED <<queue, accepted, late, taken, batch, ran, done, crashes, res>>
    BY <1>1 DEF UiApply, CookExecute, CookCall, ReadBefore, AddSnapshot, Restore,
       Invalidate, Settle
  <2> QED
    BY <2>1, <2>2, MoveQuiet
<1>2. CASE ListNothing(a) \/ ReadBeforeError(a) \/ RestartGateway(a)
  <2>1. /\ <<pc[a], "returned">> \in Moves /\ pc[a] \notin Over
        /\ pc' = [pc EXCEPT ![a] = "returned"]
        /\ \E r \in {"nothing", "error", "ok"} : res' = [res EXCEPT ![a] = r]
    BY <1>2 DEF ListNothing, ReadBeforeError, RestartGateway, Return, Moves, Over
  <2>2. UNCHANGED <<queue, accepted, late, taken, batch, ran, done, crashes>>
    BY <1>2 DEF ListNothing, ReadBeforeError, RestartGateway
  <2> QED
    BY <2>1, <2>2, MoveQuiet
<1> QED
  BY <1>1, <1>2

LEMMA OtherQuiet ==
  ASSUME CmdInv,
         \/ Remount \/ UNCHANGED vars
         \/ \E r \in Readers : ReaderStep(r) \/ \E k \in Keys : ReadMiss(r, k)
         \/ \E w \in Writers : WriterStep(w)
  PROVE  Quiet
<1>1. UNCHANGED <<queueVars, applyVars, crashes>>
  BY DEF Remount, vars, ReaderStep, ReadCli, ReadCliError, CacheSet, ReadMiss,
     WriterStep, WriterRead, WriterWrite, WriterSnapshotError, otherVars
<1> QED
  BY <1>1 DEF Quiet, queueVars, applyVars, CmdInv, CountInv, Running, Working, Over

-----------------------------------------------------------------------------
(* The queue.                                                              *)

\* Taking out one of different elements removes that one and no other.
LEMMA WithoutElems ==
  ASSUME NEW S, NEW s \in Seq(S), NEW i \in DOMAIN s, Injective(s)
  PROVE  Elems(Without(s, i)) = Elems(s) \ {s[i]}
<1>1. /\ Len(s) \in Nat /\ DOMAIN s = 1 .. Len(s) /\ i \in 1 .. Len(s)
      /\ DOMAIN Without(s, i) = 1 .. (Len(s) - 1)
  BY DEF Without
<1>2. ASSUME NEW j \in 1 .. (Len(s) - 1)
      PROVE  Without(s, i)[j] \in Elems(s) \ {s[i]}
  <2>1. j \in DOMAIN s /\ j + 1 \in DOMAIN s
    BY <1>1
  <2>2. CASE j < i
    <3>1. Without(s, i)[j] = s[j]
      BY <2>2 DEF Without
    <3> QED
      BY <1>1, <2>1, <2>2, <3>1 DEF Injective, Elems
  <2>3. CASE ~(j < i)
    <3>1. Without(s, i)[j] = s[j + 1]
      BY <2>3 DEF Without
    <3>2. j + 1 # i
      BY <1>1, <2>3
    <3> QED
      BY <1>1, <2>1, <3>1, <3>2 DEF Injective, Elems
  <2> QED
    BY <2>2, <2>3
<1>3. ASSUME NEW j \in DOMAIN s, j # i PROVE s[j] \in Elems(Without(s, i))
  <2>1. CASE j < i
    <3>1. j \in 1 .. (Len(s) - 1) /\ Without(s, i)[j] = s[j]
      BY <1>1, <2>1 DEF Without
    <3> QED
      BY <1>1, <3>1 DEF Elems
  <2>2. CASE ~(j < i)
    <3>1. j - 1 \in 1 .. (Len(s) - 1) /\ Without(s, i)[j - 1] = s[j]
      BY <1>1, <1>3, <2>2 DEF Without
    <3> QED
      BY <1>1, <3>1 DEF Elems
  <2> QED
    BY <2>1, <2>2
<1> QED
  BY <1>1, <1>2, <1>3 DEF Elems

LEMMA PushStep ==
  ASSUME CmdInv, NEW c \in Cmds, Push(c),
         UNCHANGED <<taken, batch, ran, done, res, pc, crashes>>
  PROVE  QueueInv' /\ TakenInv' /\ CountInv' /\ AccountInv'
<1>0. QueueInv /\ TakenInv /\ CountInv /\ AccountInv
  BY DEF CmdInv
<1>1. queue \in Seq(Cmds) /\ accepted \in Seq(Cmds)
  BY DEF CmdInv, TypeOK, QueueTypes
<1>2. c \notin Elems(accepted) /\ c \notin Elems(queue)
  BY <1>0 DEF Push, QueueInv
<1>3. /\ Elems(queue') = Elems(queue) \cup {c}
      /\ Elems(accepted') = Elems(accepted) \cup {c}
  BY <1>1, AppendElems DEF Push
<1>4. Injective(queue')
  BY <1>0, <1>1, <1>2, AppendInjective DEF Push, QueueInv
<1>5. QueueInv'
  BY <1>0, <1>3, <1>4 DEF QueueInv
<1>6. c \notin Elems(ran) /\ \A a \in Applies : c \notin Elems(batch[a])
  BY <1>0, <1>2 DEF QueueInv
<1>7. TakenInv'
  <2>1. \A d \in Cmds : taken'[d] # "no" => d \in Elems(accepted') /\ d \notin Elems(queue')
    BY <1>0, <1>2, <1>3 DEF TakenInv
  <2> QED
    BY <1>0, <2>1 DEF TakenInv, Running
<1>8. CountInv'
  BY <1>0 DEF CountInv
<1>9. late \subseteq late' /\ \A a \in Applies : Running(a) => c \in late'
  BY DEF Push, AnyRunning
<1>10. \A d \in Elems(accepted) : Accounted(d) => Accounted(d)'
  BY <1>3, <1>9 DEF Accounted
<1>11. Accounted(c)'
  BY <1>3 DEF Accounted
<1>12. AccountInv'
  BY <1>0, <1>3, <1>9, <1>10, <1>11 DEF AccountInv, Running
<1> QED
  BY <1>5, <1>7, <1>8, <1>12

\* The user takes a command out, or all of them.
LEMMA TakeOutStep ==
  ASSUME CmdInv, NEW S \in SUBSET Elems(queue), TakeOut(S),
         Injective(queue'), Elems(queue') = Elems(queue) \ S,
         UNCHANGED <<accepted, late, batch, ran, done, res, pc, crashes>>
  PROVE  QueueInv' /\ TakenInv' /\ CountInv' /\ AccountInv'
<1>0. QueueInv /\ TakenInv /\ CountInv /\ AccountInv
  BY DEF CmdInv
<1>1. \A d \in Cmds : taken'[d] = IF d \notin S THEN taken[d] ELSE
                                  IF d \in Listed \cup Elems(ran) THEN "listed" ELSE "early"
  BY DEF TakeOut
<1>t. S \subseteq Cmds
  BY DEF CmdInv, TypeOK, QueueTypes, Elems
<1>2. QueueInv'
  BY <1>0 DEF QueueInv
<1>3. \A d \in Cmds : taken'[d] # "no" => d \in Elems(accepted') /\ d \notin Elems(queue')
  BY <1>0, <1>1 DEF TakenInv, QueueInv
<1>5. \A a \in Applies : Running(a) => Elems(batch[a]) \subseteq Listed
  BY DEF Listed
<1>6. \A a \in Applies : Running(a)' => \A d \in Elems(batch'[a]) : taken'[d] # "early"
  <2> SUFFICES ASSUME NEW a \in Applies, Running(a), NEW d \in Elems(batch[a])
               PROVE  taken'[d] # "early"
    BY DEF Running
  <2>1. d \in Cmds
    BY DEF CmdInv, TypeOK, ApplyTypes, Elems
  <2> QED
    BY <1>0, <1>1, <1>5, <2>1 DEF TakenInv
<1>7. \A d \in Elems(ran') : taken'[d] # "early"
  <2> SUFFICES ASSUME NEW d \in Elems(ran) PROVE taken'[d] # "early"
    OBVIOUS
  <2>1. d \in Cmds
    BY DEF CmdInv, TypeOK, ApplyTypes, Elems
  <2> QED
    BY <1>0, <1>1, <2>1 DEF TakenInv
<1>8. TakenInv'
  BY <1>3, <1>6, <1>7 DEF TakenInv
<1>9. CountInv'
  BY <1>0 DEF CountInv
<1>10. \A d \in Elems(accepted) : Accounted(d) => Accounted(d)'
  <2> SUFFICES ASSUME NEW d \in Elems(accepted), Accounted(d) PROVE Accounted(d)'
    OBVIOUS
  <2>1. d \in Cmds
    BY DEF CmdInv, TypeOK, QueueTypes, Elems
  <2> QED
    BY <1>1, <2>1 DEF Accounted
<1>11. AccountInv'
  BY <1>0, <1>10 DEF AccountInv, Running
<1> QED
  BY <1>2, <1>8, <1>9, <1>11

LEMMA RemoveStep ==
  ASSUME CmdInv, DiscardQueued \/ \E c \in Cmds : RemoveQueued(c)
  PROVE  QueueInv' /\ TakenInv' /\ CountInv' /\ AccountInv'
<1>0. queue \in Seq(Cmds) /\ Injective(queue)
  BY DEF CmdInv, TypeOK, QueueTypes, QueueInv
<1>1. CASE DiscardQueued
  <2>1. Injective(queue') /\ Elems(queue') = {}
    BY <1>1 DEF DiscardQueued, Injective, Elems
  <2>2. UNCHANGED <<accepted, late, batch, ran, done, res, pc, crashes>>
    BY <1>1 DEF DiscardQueued, applyVars, otherVars
  <2> QED
    BY <1>1, <2>1, <2>2, TakeOutStep DEF DiscardQueued
<1>2. ASSUME NEW c \in Cmds, RemoveQueued(c)
      PROVE  QueueInv' /\ TakenInv' /\ CountInv' /\ AccountInv'
  <2>1. PICK i \in DOMAIN queue : queue[i] = c /\ queue' = Without(queue, i)
    BY <1>2 DEF RemoveQueued
  <2>2. Injective(queue') /\ Elems(queue') = Elems(queue) \ {c}
    BY <1>0, <2>1, WithoutInjective, WithoutElems
  <2>3. c \in Elems(queue)
    BY <2>1 DEF Elems
  <2>4. UNCHANGED <<accepted, late, batch, ran, done, res, pc, crashes>>
    BY <1>2 DEF RemoveQueued, applyVars, otherVars
  <2> QED
    BY <1>2, <2>2, <2>3, <2>4, TakeOutStep DEF RemoveQueued
<1> QED
  BY <1>1, <1>2

-----------------------------------------------------------------------------
(* The apply.                                                              *)

LEMMA ListStep ==
  ASSUME CmdInv, NEW a \in Applies, List(a)
  PROVE  QueueInv' /\ TakenInv' /\ CountInv' /\ AccountInv'
<1>0. QueueInv /\ TakenInv /\ CountInv /\ AccountInv
  BY DEF CmdInv
<1>1. UNCHANGED <<queue, accepted, late, taken, done, res, ran, crashes>>
  BY DEF List, queueVars, otherVars
<1>2. /\ pc[a] = "called" /\ pc'[a] = "listed" /\ batch'[a] = queue
      /\ \A b \in Applies \ {a} : pc'[b] = pc[b] /\ batch'[b] = batch[b]
  BY DEF List, CmdInv, TypeOK, ApplyTypes
<1>3. QueueInv'
  BY <1>0, <1>1, <1>2 DEF QueueInv
<1>4. \A c \in Elems(queue) : taken[c] = "no"
  <2>1. Elems(queue) \subseteq Cmds
    BY DEF CmdInv, TypeOK, QueueTypes, Elems
  <2> QED
    BY <1>0, <2>1 DEF TakenInv
<1>5. TakenInv'
  <2>1. \A b \in Applies : Running(b)' => \A c \in Elems(batch'[b]) : taken[c] # "early"
    BY <1>0, <1>2, <1>4 DEF TakenInv, Running
  <2> QED
    BY <1>0, <1>1, <2>1 DEF TakenInv
<1>6. CountInv'
  <2>1. done[a] = 0 /\ res[a] # "rolled_back" /\ Len(queue) \in Nat
    BY <1>0, <1>2 DEF CountInv, CmdInv, TypeOK, QueueTypes
  <2> QED
    BY <1>0, <1>1, <1>2, <2>1 DEF CountInv
<1>7. \A c : Accounted(c) => Accounted(c)'
  BY <1>0, <1>1, <1>2 DEF Accounted, CountInv
<1>8. AccountInv'
  BY <1>0, <1>1, <1>2, <1>7 DEF AccountInv, Running
<1> QED
  BY <1>3, <1>5, <1>6, <1>8

\* The command in hand is one of the batch.
LEMMA NextIn ==
  ASSUME CmdInv, NEW a \in Applies, done[a] < Len(batch[a])
  PROVE  NextCmd(a) \in Elems(batch[a]) /\ NextCmd(a) \in Cmds
<1>1. done[a] \in Nat /\ batch[a] \in Seq(Cmds)
  BY DEF CmdInv, TypeOK, ApplyTypes
<1>2. done[a] + 1 \in DOMAIN batch[a]
  BY <1>1
<1> QED
  BY <1>1, <1>2 DEF NextCmd, Elems

LEMMA ExecStep ==
  ASSUME CmdInv, NEW a \in Applies, ExecOk(a) \/ ExecFail(a) \/ ExecCut(a)
  PROVE  QueueInv' /\ TakenInv' /\ CountInv' /\ AccountInv'
<1>0. QueueInv /\ TakenInv /\ CountInv /\ AccountInv
  BY DEF CmdInv
<1>1. UNCHANGED <<queue, accepted, late, taken, batch, crashes>>
  BY DEF ExecOk, ExecFail, ExecCut, queueVars, otherVars
<1>2. NextCmd(a) \in Elems(batch[a]) /\ NextCmd(a) \in Cmds
  BY NextIn DEF ExecOk, ExecFail, ExecCut
<1>3. Elems(ran') = Elems(ran) \cup {NextCmd(a)}
  <2>1. ran' = Append(ran, NextCmd(a))
    BY DEF ExecOk, ExecFail, ExecCut
  <2>2. ran \in Seq(Cmds)
    BY DEF CmdInv, TypeOK, ApplyTypes
  <2> HIDE DEF NextCmd
  <2> QED
    BY <1>2, <2>1, <2>2, AppendElems
<1>4. /\ pc[a] = "exec" /\ pc'[a] \in {"exec", "restore", "returned"}
      /\ \A b \in Applies \ {a} : pc'[b] = pc[b]
      /\ done' = [done EXCEPT ![a] = @ + 1] \/ done' = done
      /\ \A b \in Applies : res'[b] = "rolled_back" <=> res[b] = "rolled_back"
  <2>1. pc \in [Applies -> Pcs] /\ res \in [Applies -> Answers]
    BY DEF CmdInv, TypeOK, ApplyTypes
  <2>2. pc[a] = "exec" => res[a] # "rolled_back"
    BY <1>0 DEF CountInv
  <2> QED
    BY <2>1, <2>2 DEF ExecOk, ExecFail, ExecCut, Return
<1>5. \A b \in Applies : /\ Running(b)' => Running(b)
                         /\ pc'[b] \in Early <=> pc[b] \in Early
                         /\ pc[b] \in Over => pc'[b] \in Over
                         /\ pc'[b] = "cleared" <=> pc[b] = "cleared"
  BY <1>4 DEF Running, Busy, Early, Over
<1>6. QueueInv'
  BY <1>0, <1>1, <1>2, <1>3 DEF QueueInv
<1>7. TakenInv'
  <2>1. taken[NextCmd(a)] # "early"
    BY <1>0, <1>2, <1>4 DEF TakenInv, Running, Busy
  <2>4. \A c \in Elems(ran') : taken[c] # "early"
    BY <1>0, <1>3, <2>1 DEF TakenInv
  <2>5. \A b \in Applies : Running(b)' => \A c \in Elems(batch[b]) : taken[c] # "early"
    BY <1>0, <1>5 DEF TakenInv
  <2> QED
    BY <1>0, <1>1, <2>4, <2>5 DEF TakenInv
<1>8. CountInv'
  <2> SUFFICES ASSUME NEW b \in Applies
               PROVE  /\ pc'[b] \in Early => done'[b] = 0
                      /\ done'[b] <= Len(batch[b])
                      /\ \A k \in 1 .. done'[b] : batch[b][k] \in Elems(ran')
                      /\ res'[b] = "rolled_back" => pc'[b] \in Over
    BY <1>1 DEF CountInv, Early, Over
  <2>1. CASE done'[b] = done[b]
    BY <1>0, <1>3, <1>4, <1>5, <2>1 DEF CountInv, Early, Over
  <2>2. CASE b = a /\ done'[a] = done[a] + 1
    <3>1. done[a] \in Nat /\ Len(batch[a]) \in Nat /\ done[a] < Len(batch[a])
      BY DEF ExecOk, ExecFail, ExecCut, CmdInv, TypeOK, ApplyTypes
    <3>2. \A k \in 1 .. (done[a] + 1) : k \in 1 .. done[a] \/ k = done[a] + 1
      BY <3>1
    <3>3. \A k \in 1 .. done'[a] : batch[a][k] \in Elems(ran')
      BY <1>0, <1>3, <2>2, <3>2 DEF CountInv, NextCmd
    <3>4. pc'[a] \notin Early /\ pc[a] \notin Over
      BY <1>4 DEF Early, Over
    <3> QED
      BY <1>0, <1>4, <2>2, <3>1, <3>3, <3>4 DEF CountInv, Over
  <2>3. done'[b] = done[b] \/ (b = a /\ done'[a] = done[a] + 1)
    BY <1>4 DEF CmdInv, TypeOK, ApplyTypes
  <2> QED
    BY <2>1, <2>2, <2>3
<1>9. \A c : Accounted(c) => Accounted(c)'
  BY <1>1, <1>3, <1>4 DEF Accounted
<1>10. AccountInv'
  BY <1>0, <1>1, <1>5, <1>9 DEF AccountInv
<1> QED
  BY <1>6, <1>7, <1>8, <1>10

\* What the queue holds when it is cleared has run, is rolled back with the
\* apply, or came late.
LEMMA ClearStep ==
  ASSUME CmdInv, NEW a \in Applies, ClearOk(a) \/ ClearFailed(a)
  PROVE  QueueInv' /\ TakenInv' /\ CountInv' /\ AccountInv'
<1>0. QueueInv /\ TakenInv /\ CountInv /\ AccountInv
  BY DEF CmdInv
<1>1. UNCHANGED <<accepted, late, taken, batch, done, ran, crashes>>
  BY DEF ClearOk, ClearFailed, otherVars
<1>2. Elems(queue') = {} /\ Injective(queue')
  BY DEF ClearOk, ClearFailed, Elems, Injective
<1>3. /\ pc[a] \in {"exec", "failed"} /\ pc'[a] \in {"cleared", "returned"}
      /\ \A b \in Applies \ {a} : pc'[b] = pc[b] /\ res'[b] = res[b]
  BY DEF ClearOk, ClearFailed, Return, CmdInv, TypeOK, ApplyTypes
<1>4. \/ pc'[a] = "returned" /\ res'[a] = "rolled_back"
      \/ done[a] = Len(batch[a]) /\ res'[a] = res[a]
  BY DEF ClearOk, ClearFailed, Return, CmdInv, TypeOK, ApplyTypes
<1>5. \A b \in Applies : /\ Running(b)' => Running(b)
                         /\ pc'[b] \in Early => pc[b] \in Early
  BY <1>3 DEF Running, Busy, Early
<1>6. QueueInv'
  BY <1>0, <1>1, <1>2 DEF QueueInv
<1>7. TakenInv'
  BY <1>0, <1>1, <1>2, <1>5 DEF TakenInv
<1>8. CountInv'
  <2>1. \A b \in Applies : res'[b] = "rolled_back" => pc'[b] \in Over
    BY <1>0, <1>3, <1>4 DEF CountInv, Over
  <2>2. \A b \in Applies : pc'[b] \in Early => done[b] = 0
    BY <1>0, <1>5 DEF CountInv, Early
  <2> QED
    BY <1>0, <1>1, <2>1, <2>2 DEF CountInv, Over, Early
<1>9. \A c \in Elems(queue) : Accounted(c)'
  <2> SUFFICES ASSUME NEW c \in Elems(queue) PROVE Accounted(c)'
    OBVIOUS
  <2>1. c \in Elems(batch[a]) \cup late
    BY <1>0, <1>3 DEF AccountInv, Running, Busy
  <2>2. CASE c \in late
    BY <1>1, <2>2 DEF Accounted
  <2>3. CASE c \in Elems(batch[a]) /\ res'[a] = "rolled_back"
    BY <1>1, <2>3 DEF Accounted
  <2>4. CASE c \in Elems(batch[a]) /\ done[a] = Len(batch[a])
    <3>1. DOMAIN batch[a] = 1 .. Len(batch[a])
      BY DEF CmdInv, TypeOK, ApplyTypes
    <3>2. c \in Elems(ran)
      BY <1>0, <2>4, <3>1 DEF CountInv, Elems
    <3> QED
      BY <1>1, <3>2 DEF Accounted
  <2> QED
    BY <1>4, <2>1, <2>2, <2>3, <2>4
<1>10. \A c \in Elems(accepted) : Accounted(c) => Accounted(c)'
  <2>1. \A b \in Applies : res[b] = "rolled_back" => res'[b] = "rolled_back"
    BY <1>3, <1>4
  <2> QED
    BY <1>1, <1>9, <2>1 DEF Accounted
<1>11. AccountInv'
  BY <1>0, <1>1, <1>2, <1>10 DEF AccountInv
<1> QED
  BY <1>6, <1>7, <1>8, <1>11

LEMMA CrashStep ==
  ASSUME CmdInv, Crash
  PROVE  QueueInv' /\ TakenInv' /\ CountInv' /\ AccountInv'
<1>0. QueueInv /\ TakenInv /\ CountInv /\ AccountInv /\ crashes \in Nat
  BY DEF CmdInv, TypeOK, OtherTypes
<1>1. UNCHANGED <<accepted, late, taken, batch, done, res, ran>> /\ crashes' # 0
  BY <1>0 DEF Crash
<1>2. Elems(queue') = {} /\ Injective(queue')
  BY DEF Crash, Elems, Injective
<1>3. \A a \in Applies : /\ ~Running(a)'
                         /\ pc'[a] \in Early => pc[a] \in Early
                         /\ pc[a] \in Over => pc'[a] \in Over
  BY DEF Crash, Running, Busy, Early, Over
<1>4. QueueInv' /\ TakenInv' /\ AccountInv'
  BY <1>0, <1>1, <1>2, <1>3 DEF QueueInv, TakenInv, AccountInv
<1>5. CountInv'
  BY <1>0, <1>1, <1>3 DEF CountInv, Early, Over
<1> QED
  BY <1>4, <1>5

LEMMA PlanIn ==
  ASSUME TypeOK, NEW a \in CookApplies, planned[a] < Len(Plan[a])
  PROVE  Plan[a][planned[a] + 1] \in Cmds
<1>1. Plan[a] \in Seq(Cmds) /\ planned[a] \in Nat
  BY PlanAssumption DEF TypeOK, UiTypes
<1>2. planned[a] + 1 \in 1 .. Len(Plan[a])
  BY <1>1
<1> QED
  BY <1>1, <1>2

LEMMA CmdStep == CmdInv /\ [Next]_vars => CmdInv'
<1> SUFFICES ASSUME CmdInv, [Next]_vars
             PROVE  QueueInv' /\ TakenInv' /\ CountInv' /\ AccountInv'
  BY NextType DEF CmdInv
<1>1. ASSUME NEW c \in Cmds, QueueCommand(c)
      PROVE  QueueInv' /\ TakenInv' /\ CountInv' /\ AccountInv'
  BY <1>1, PushStep DEF QueueCommand, applyVars, otherVars
<1>2. ASSUME NEW a \in Applies, CookEnqueue(a)
      PROVE  QueueInv' /\ TakenInv' /\ CountInv' /\ AccountInv'
  <2>1. Plan[a][planned[a] + 1] \in Cmds
    BY <1>2, PlanIn DEF CookEnqueue, CmdInv
  <2> QED
    BY <1>2, <2>1, PushStep DEF CookEnqueue, applyVars, otherVars
<1>3. ASSUME NEW a \in Applies, ApplyStep(a) \/ UiApply(a) \/ CookExecute(a)
      PROVE  QueueInv' /\ TakenInv' /\ CountInv' /\ AccountInv'
  BY <1>2, <1>3, ApplyQuiet, QuietStep, ListStep, ExecStep, ClearStep DEF ApplyStep
<1> QED
  BY <1>1, <1>3, RemoveStep, OtherQuiet, QuietStep, CrashStep DEF Next

LEMMA CmdAlways == Spec => []CmdInv
BY InitCmd, CmdStep, PTL DEF Spec

\* No command is lost: with any number of applies, recipe executions and
\* removals at once, an accepted command is queued, has run, was taken out by
\* the user, was rolled back or came while an apply was running
\* (apply_queued_commands_with_services, CommandQueue).
THEOREM NothingIsLost == Spec => []CommandsAccounted
<1>1. CmdInv => CommandsAccounted
  BY DEF CmdInv, AccountInv, Accounted, CommandsAccounted
<1> QED
  BY <1>1, CmdAlways, PTL

\* A command that was taken out before any apply had listed it never runs,
\* however many applies run at once (remove_queued_command, list, clear).
THEOREM TakenOutStaysOut == Spec => []TakenOutNeverRuns
<1>1. CmdInv => TakenOutNeverRuns
  BY DEF CmdInv, TakenInv, TakenOutNeverRuns
<1> QED
  BY <1>1, CmdAlways, PTL

-----------------------------------------------------------------------------
(* Refinement: CommandApply implements AtomicApply.                        *)

\* The tail of a sequence, element by element.
LEMMA TailIs ==
  ASSUME NEW S, NEW s \in Seq(S), s # <<>>
  PROVE  Tail(s) = [i \in 1 .. (Len(s) - 1) |-> s[i + 1]]
<1>1. /\ Tail(s) \in Seq(S) /\ Len(Tail(s)) = Len(s) - 1
      /\ \A i \in 1 .. (Len(s) - 1) : Tail(s)[i] = s[i + 1]
  OBVIOUS
<1>2. Tail(s) \in [1 .. (Len(s) - 1) -> S]
  BY <1>1, SequenceFacts!LenProperties
<1>3. Tail(s) = [i \in 1 .. (Len(s) - 1) |-> Tail(s)[i]]
  BY <1>2
<1> QED
  BY <1>1, <1>3

\* The rest of a batch is a sequence of edits.
LEMMA TodoIn ==
  ASSUME CmdInv, NEW a \in Applies
  PROVE  Todo(a) \in Seq(Transaction!Edit)
<1> DEFINE n == Len(batch[a]) - done[a]
<1>1. batch[a] \in Seq(Cmds) /\ Len(batch[a]) \in Nat /\ done[a] \in Nat /\ n \in Nat
  BY DEF CmdInv, CountInv, TypeOK, ApplyTypes
<1>2. \A i \in 1 .. n : batch[a][done[a] + i] \in Cmds
  BY <1>1
<1>3. \A i \in 1 .. n : EditOf(batch[a][done[a] + i]) \in Transaction!Edit
  BY <1>2, EffectType DEF CmdInv, TypeOK, Transaction!Edit
<1>4. Todo(a) \in [1 .. n -> Transaction!Edit]
  BY <1>3 DEF Todo
<1> HIDE DEF n
<1> QED
  BY <1>1, <1>4

TodoTyped == \A a \in Applies : Todo(a) \in Seq(Transaction!Edit)

LEMMA TodosTyped == CmdInv => TodoTyped
BY TodoIn DEF TodoTyped

\* A command that succeeds takes the first of them off.
LEMMA TodoSeq ==
  ASSUME CmdInv, NEW a \in Applies
  PROVE  /\ done[a] < Len(batch[a]) =>
              Todo(a) # <<>> /\ Head(Todo(a)) = EditOf(NextCmd(a))
         /\ done[a] = Len(batch[a]) => Todo(a) = <<>>
         /\ done[a] < Len(batch[a]) /\ done'[a] = done[a] + 1
              /\ batch'[a] = batch[a] /\ text' = text
              => Todo(a)' = Tail(Todo(a))
<1> DEFINE n == Len(batch[a]) - done[a]
<1>1. batch[a] \in Seq(Cmds) /\ Len(batch[a]) \in Nat /\ done[a] \in Nat /\ n \in Nat
  BY DEF CmdInv, CountInv, TypeOK, ApplyTypes
<1>4. Todo(a) = [i \in 1 .. n |-> EditOf(batch[a][done[a] + i])]
  BY DEF Todo
<1>5. Todo(a) \in Seq(Transaction!Edit)
  BY TodoIn
<1>6. ASSUME done[a] < Len(batch[a])
      PROVE  Todo(a) # <<>> /\ Head(Todo(a)) = EditOf(NextCmd(a))
  <2>1. 1 \in 1 .. n /\ n \in Nat
    BY <1>1, <1>6
  <2>2. DOMAIN Todo(a) = 1 .. n /\ Todo(a)[1] = EditOf(NextCmd(a))
    BY <1>4, <2>1 DEF NextCmd
  <2> HIDE DEF n
  <2>3. Len(Todo(a)) = n
    BY <1>5, <2>1, <2>2
  <2> QED
    BY <1>5, <2>1, <2>2, <2>3
<1>7. ASSUME done[a] = Len(batch[a]) PROVE Todo(a) = <<>>
  <2>1. 1 .. n = {} /\ n = 0
    BY <1>1, <1>7
  <2>2. DOMAIN Todo(a) = 1 .. 0
    BY <1>4, <2>1
  <2> QED
    BY <1>5, <2>2
<1>8. ASSUME done[a] < Len(batch[a]), done'[a] = done[a] + 1,
             batch'[a] = batch[a], text' = text
      PROVE  Todo(a)' = Tail(Todo(a))
  <2>1. n \in Nat /\ n >= 1 /\ Len(batch[a]) - (done[a] + 1) = n - 1
    BY <1>1, <1>8
  <2>2. Todo(a)' = [i \in 1 .. (n - 1) |-> EditOf(batch[a][(done[a] + 1) + i])]
    BY <1>8, <2>1 DEF Todo, EditOf
  <2>3. \A i \in 1 .. (n - 1) : (done[a] + 1) + i = done[a] + (i + 1)
    <3>1. \A k, i \in Nat : (k + 1) + i = k + (i + 1)
      OBVIOUS
    <3> HIDE DEF n
    <3> QED
      BY <1>1, <2>1, <3>1
  <2>4. \A i \in 1 .. (n - 1) : i + 1 \in 1 .. n
    BY <2>1
  <2>5. \A i \in 1 .. (n - 1) : Todo(a)[i + 1] = EditOf(batch[a][done[a] + (i + 1)])
    BY <1>4, <2>4
  <2>6. DOMAIN Todo(a) = 1 .. n
    BY <1>4
  <2> HIDE DEF n
  <2>7. Len(Todo(a)) = n
    BY <1>5, <2>1, <2>6
  <2>8. Tail(Todo(a)) = [i \in 1 .. (n - 1) |-> Todo(a)[i + 1]]
    BY <1>5, <2>1, <2>7, TailIs
  <2> QED
    BY <2>2, <2>3, <2>5, <2>8
<1> QED
  BY <1>6, <1>7, <1>8

\* A new command in the queue leaves the text of those in a batch alone.
LEMMA TextStays ==
  ASSUME CmdInv, NEW a \in Applies, text' = text \/ \E c \in Cmds : Push(c)
  PROVE  \A d \in Elems(batch[a]) : text'[d] = text[d]
<1>1. /\ Elems(batch[a]) \subseteq Elems(accepted) /\ accepted \in Seq(Cmds)
      /\ text \in [Cmds -> SUBSET Changes]
  BY DEF CmdInv, TypeOK, QueueTypes, QueueInv
<1>2. Elems(accepted) \subseteq Cmds
  BY <1>1 DEF Elems
<1>3. ASSUME NEW c \in Cmds, Push(c), NEW d \in Elems(batch[a])
      PROVE  text'[d] = text[d]
  <2>1. PICK t : text' = [text EXCEPT ![c] = t]
    BY <1>3 DEF Push
  <2>2. d \in Cmds /\ d # c
    BY <1>1, <1>2, <1>3 DEF Push
  <2> QED
    BY <1>1, <2>1, <2>2
<1> QED
  BY <1>3

\* Neither a step of another apply nor a new command in the queue changes
\* what an apply has left to do.
LEMMA TodoFrame ==
  ASSUME CmdInv, NEW a \in Applies, batch'[a] = batch[a], done'[a] = done[a],
         text' = text \/ \E c \in Cmds : Push(c)
  PROVE  Todo(a)' = Todo(a)
<1>1. /\ batch[a] \in Seq(Cmds) /\ Len(batch[a]) \in Nat /\ done[a] \in Nat
  BY DEF CmdInv, TypeOK, ApplyTypes
<1>2. \A c \in Elems(batch[a]) : text'[c] = text[c]
  BY TextStays
<1>3. ASSUME NEW i \in 1 .. (Len(batch[a]) - done[a])
      PROVE  EditOf(batch[a][done[a] + i])' = EditOf(batch[a][done[a] + i])
  <2>1. done[a] + i \in DOMAIN batch[a]
    BY <1>1
  <2>2. batch[a][done[a] + i] \in Elems(batch[a])
    BY <2>1 DEF Elems
  <2> QED
    BY <1>2, <2>2 DEF EditOf
<1> QED
  BY <1>3 DEF Todo

\* The mapping, read off an apply that is open, or off the file.
MappingIs ==
  /\ \A a \in Applies : Open(a) => Store = before[a] /\ Pending = Todo(a)
  /\ (\A a \in Applies : ~Open(a)) => Store = cfg /\ Pending = <<>>

\* At most one apply near the file makes the mapping unambiguous.
LEMMA OpenMapping == Exclusive => MappingIs
<1> SUFFICES ASSUME Exclusive PROVE MappingIs
  OBVIOUS
<1>1. \A a, b \in Applies : Open(a) /\ Open(b) => a = b
  BY DEF Exclusive, Open, Running, Busy
<1>2. ASSUME NEW a \in Applies, Open(a) PROVE Store = before[a] /\ Pending = Todo(a)
  <2>1. (CHOOSE b \in Applies : Open(b)) = a
    BY <1>1, <1>2
  <2> QED
    BY <1>2, <2>1 DEF Store, Pending
<1>3. ASSUME \A a \in Applies : ~Open(a) PROVE Store = cfg /\ Pending = <<>>
  BY <1>3 DEF Store, Pending
<1> QED
  BY <1>2, <1>3 DEF MappingIs

\* Every step under the guard is a step of AtomicApply, or none.
LEMMA RefineStep ==
  ASSUME Atomic, Atomic', CmdInv, CmdInv', Exclusive, Exclusive', [Next]_vars
  PROVE  [Transaction!Next]_(Transaction!vars)
<1> TypeOK
  BY DEF CmdInv
<1> USE DEF TypeOK, ApplyTypes
<1>a. MappingIs
  BY OpenMapping
<1>b. MappingIs'
  <2>1. Exclusive' => MappingIs'
    BY OpenMapping, PTL
  <2> QED
    BY <2>1
<1>c. \A a, b \in Applies : Running(a) /\ b # a => ~Open(b)
  BY DEF Exclusive, Open, Running, Busy
<1>1. ASSUME cfg' = cfg, before' = before, done' = done,
             \A b \in Applies : Open(b)' = Open(b) /\ (Open(b) => batch'[b] = batch[b]),
             text' = text \/ \E c \in Cmds : Push(c)
      PROVE  UNCHANGED Transaction!vars
  <2>1. CASE \E a \in Applies : Open(a)
    <3>1. PICK a \in Applies : Open(a)
      BY <2>1
    <3>2. Open(a)' /\ Todo(a)' = Todo(a) /\ before'[a] = before[a]
      BY <1>1, <3>1, TodoFrame
    <3>3. Store = before[a] /\ Pending = Todo(a)
      BY <1>a, <3>1 DEF MappingIs
    <3>4. Store' = before'[a] /\ Pending' = Todo(a)'
      BY <1>b, <3>2 DEF MappingIs
    <3> QED
      BY <1>1, <2>1, <3>2, <3>3, <3>4 DEF Transaction!vars
  <2>2. CASE \A a \in Applies : ~Open(a)
    <3>1. Store' = Store /\ Pending' = Pending
      BY <1>1, <1>a, <1>b, <2>2 DEF MappingIs
    <3> QED
      BY <1>1, <2>2, <3>1 DEF Transaction!vars
  <2> QED
    BY <2>1, <2>2
<1>2. ASSUME NEW a \in Applies, ReadBefore(a) PROVE Transaction!Next
  <2>1. \A b \in Applies : ~Open(b)
    BY <1>2, <1>c DEF ReadBefore, Open, Running, Busy
  <2>2. Open(a)' /\ before'[a] = cfg /\ cfg' = cfg
    BY <1>2 DEF ReadBefore, Open, diskVars
  <2>3. Store = cfg /\ Store' = cfg /\ Pending' = Todo(a)'
    BY <1>a, <1>b, <2>1, <2>2 DEF MappingIs
  <2>4. Todo(a)' \in Seq(Transaction!Edit)
    <3>1. CmdInv' => TodoTyped'
      BY TodosTyped, PTL
    <3> QED
      BY <3>1 DEF TodoTyped, Todo
  <2>5. Transaction!Begin
    BY <2>1, <2>2, <2>3, <2>4 DEF Transaction!Begin
  <2> QED
    BY <2>5 DEF Transaction!Next
<1>3. ASSUME NEW a \in Applies, ExecOk(a) PROVE Transaction!Next
  <2>1. /\ done[a] < Len(batch[a]) /\ done'[a] = done[a] + 1 /\ text' = text
        /\ batch' = batch /\ before' = before
        /\ cfg' = Transaction!Edited(EditOf(NextCmd(a)), cfg)
    BY <1>3 DEF ExecOk, Effect, queueVars, Transaction!Edited
  <2>2. Open(a) /\ Open(a)'
    BY <1>3 DEF ExecOk, Open
  <2>3. /\ Store = before[a] /\ Pending = Todo(a)
        /\ Store' = before[a] /\ Pending' = Todo(a)'
    BY <1>a, <1>b, <2>1, <2>2 DEF MappingIs
  <2>4. Todo(a) # <<>> /\ Head(Todo(a)) = EditOf(NextCmd(a)) /\ Todo(a)' = Tail(Todo(a))
    BY <2>1, TodoSeq
  <2>5. Transaction!Step
    BY <2>1, <2>2, <2>3, <2>4 DEF Transaction!Step
  <2> QED
    BY <2>5 DEF Transaction!Next
<1>4. ASSUME NEW a \in Applies, ExecFail(a) PROVE [Transaction!Next]_(Transaction!vars)
  <2>1. /\ done[a] < Len(batch[a]) /\ done' = done /\ text' = text
        /\ batch' = batch /\ before' = before
        /\ \/ cfg' = Transaction!Edited(EditOf(NextCmd(a)), cfg)
           \/ cfg' = cfg
    BY <1>4 DEF ExecFail, Effect, queueVars, Transaction!Edited
  <2>2. Open(a) /\ Open(a)'
    BY <1>4 DEF ExecFail, Open
  <2>3. Todo(a)' = Todo(a)
    BY <2>1, TodoFrame
  <2>4. /\ Store = before[a] /\ Pending = Todo(a)
        /\ Store' = before[a] /\ Pending' = Todo(a)
    BY <1>a, <1>b, <2>1, <2>2, <2>3 DEF MappingIs
  <2>5. Todo(a) # <<>> /\ Head(Todo(a)) = EditOf(NextCmd(a))
    BY <2>1, TodoSeq
  <2>6. Transaction!Fail \/ UNCHANGED Transaction!vars
    BY <2>1, <2>2, <2>4, <2>5 DEF Transaction!Fail, Transaction!vars
  <2> QED
    BY <2>6 DEF Transaction!Next
<1>5. ASSUME NEW a \in Applies, Restore(a) PROVE Transaction!Next
  <2>1. Open(a) /\ Running(a) /\ cfg' = before[a]
    BY <1>5 DEF Restore, Atomic, Open, Running, Busy
  <2>2. \A b \in Applies : ~Open(b)'
    BY <1>5, <1>c, <2>1 DEF Restore, Open
  <2>3. Store = before[a] /\ Store' = before[a] /\ Pending' = <<>>
    BY <1>a, <1>b, <2>1, <2>2 DEF MappingIs
  <2>4. Transaction!Abort
    BY <2>1, <2>2, <2>3 DEF Transaction!Abort
  <2> QED
    BY <2>4 DEF Transaction!Next
<1>6. ASSUME NEW a \in Applies, ClearOk(a) PROVE Transaction!Next
  <2>1. Open(a) /\ Running(a) /\ cfg' = cfg /\ done[a] = Len(batch[a])
    BY <1>6 DEF ClearOk, Open, Running, Busy
  <2>2. \A b \in Applies : ~Open(b)'
    BY <1>6, <1>c, <2>1 DEF ClearOk, Open
  <2>3. Todo(a) = <<>>
    BY <2>1, TodoSeq
  <2>4. Pending = <<>> /\ Store' = cfg /\ Pending' = <<>>
    BY <1>a, <1>b, <2>1, <2>2, <2>3 DEF MappingIs
  <2>5. Transaction!Commit
    BY <2>1, <2>2, <2>4 DEF Transaction!Commit
  <2> QED
    BY <2>5 DEF Transaction!Next
<1>7. ASSUME NEW a \in Applies, List(a) PROVE UNCHANGED Transaction!vars
  <2>1. \A b \in Applies : Open(b)' = Open(b) /\ (Open(b) => batch'[b] = batch[b])
    BY <1>7 DEF List, Open
  <2>2. cfg' = cfg /\ before' = before /\ done' = done /\ text' = text
    BY <1>7 DEF List, diskVars, queueVars
  <2> QED
    BY <1>1, <2>1, <2>2
<1>8. ASSUME NEW a \in Applies,
             \/ CookCall(a) \/ ListNothing(a)
             \/ ReadBeforeError(a) \/ AddSnapshot(a) \/ ClearFailed(a)
             \/ Invalidate(a) \/ RestartGateway(a) \/ Settle(a)
             \/ UiApply(a) \/ CookExecute(a)
      PROVE  UNCHANGED Transaction!vars
  <2>1. UNCHANGED <<cfg, before, done, batch, text>>
    BY <1>8 DEF CookCall, ListNothing, ReadBeforeError, AddSnapshot, ClearFailed,
       Invalidate, RestartGateway, Settle, UiApply, CookExecute, queueVars, diskVars
  <2>2. \A b \in Applies : Open(b)' = Open(b)
    BY <1>8 DEF CookCall, ListNothing, ReadBeforeError, AddSnapshot, ClearFailed,
       Invalidate, RestartGateway, Settle, UiApply, CookExecute, Return, Open
  <2> QED
    BY <1>1, <2>1, <2>2
<1>9. ASSUME NEW c \in Cmds, QueueCommand(c) \/ RemoveQueued(c)
      PROVE  UNCHANGED Transaction!vars
  BY <1>1, <1>9 DEF QueueCommand, RemoveQueued, applyVars, diskVars, Open
<1>10. CASE DiscardQueued \/ Remount \/ UNCHANGED vars
  BY <1>1, <1>10 DEF DiscardQueued, Remount, vars, queueVars, applyVars, diskVars, Open
<1>11. ASSUME NEW r \in Readers, ReaderStep(r) \/ \E k \in Keys : ReadMiss(r, k)
       PROVE  UNCHANGED Transaction!vars
  BY <1>1, <1>11 DEF ReaderStep, ReadCli, ReadCliError, CacheSet, ReadMiss,
                     queueVars, applyVars, diskVars, Open
<1>12. ~Crash
  BY DEF Crash, Atomic
<1>13. ASSUME NEW a \in Applies, CookEnqueue(a) PROVE UNCHANGED Transaction!vars
  <2>1. \E c \in Cmds : Push(c)
    BY <1>13, PlanIn DEF CookEnqueue
  <2> QED
    BY <1>1, <1>13, <2>1 DEF CookEnqueue, applyVars, diskVars, Open
<1>14. \A a \in Applies : ~ExecCut(a)
  BY DEF ExecCut, Atomic
<1> QED
  BY <1>2, <1>3, <1>4, <1>5, <1>6, <1>7, <1>8, <1>9, <1>10, <1>11, <1>12, <1>13,
     <1>14 DEF Next, ApplyStep, WriterStep, Alone, Atomic

\* An apply is atomic on openclaw.json: with the guard of the bar, restores
\* that succeed, outputs that can be cut, no crash and no direct writes,
\* CommandApply implements AtomicApply, whole-file commands included.
THEOREM ApplyIsAtomic == Spec => AppliesAreAtomic
<1>1. Init => Transaction!Init
  <2>1. ASSUME Init PROVE \A a \in Applies : ~Open(a)
    BY <2>1 DEF Init, Open
  <2>2. ASSUME Init PROVE cfg = {}
    BY <2>2 DEF Init
  <2> QED
    BY <2>1, <2>2 DEF Transaction!Init, Store, Pending
<1>2. /\ CmdInv /\ CmdInv' /\ OneApplyAtATime /\ OneApplyAtATime' /\ [Next]_vars
      => [Transaction!Next]_(Transaction!vars)
  <2> SUFFICES ASSUME CmdInv, CmdInv', OneApplyAtATime, OneApplyAtATime', [Next]_vars
               PROVE  [Transaction!Next]_(Transaction!vars)
    OBVIOUS
  <2>1. CASE Atomic
    <3>1. Atomic' /\ Guarded /\ Guarded'
      BY <2>1, MixStays DEF Atomic, Alone
    <3> QED
      BY <2>1, <3>1, RefineStep DEF OneApplyAtATime
  <2>2. CASE ~Atomic
    BY <2>2, MixStays DEF Transaction!vars
  <2> QED
    BY <2>1, <2>2
<1> QED
  BY <1>1, <1>2, CmdAlways, GuardExcludes, PTL
  DEF Spec, AppliesAreAtomic, Transaction!Spec

-----------------------------------------------------------------------------
(* An answer "ok" keeps what it says.                                      *)

\* Before its first command, a batch has made nothing of the file.
LEMMA ResultZero ==
  ASSUME NEW a \in Applies
  PROVE  Result(a, 0) = before[a]
<1>1. Since(a, 0) = {0}
  BY DEF Since
<1>2. {MadeBy(a, i) : i \in {0}} = {before[a]}
  BY DEF MadeBy
<1> QED
  BY <1>1, <1>2 DEF Result

\* One command more: a whole-file command sets the result to its text, any
\* other adds its change.
LEMMA ResultNext ==
  ASSUME NEW a \in Applies, NEW n \in Nat
  PROVE  Result(a, n + 1) = IF batch[a][n + 1] \in Wholes
                            THEN EditOf(batch[a][n + 1]).text
                            ELSE Result(a, n) \cup EditOf(batch[a][n + 1]).text
<1>1. MadeBy(a, n + 1) = EditOf(batch[a][n + 1]).text
  BY DEF MadeBy
<1>2. n + 1 \in Since(a, n + 1)
  BY DEF Since
<1>3. ASSUME batch[a][n + 1] \in Wholes PROVE Since(a, n + 1) = {n + 1}
  <2>1. \A i \in 0 .. (n + 1) : i = n + 1 \/ n + 1 \in (i + 1) .. (n + 1)
    OBVIOUS
  <2> QED
    BY <1>2, <1>3, <2>1 DEF Since
<1>4. ASSUME batch[a][n + 1] \notin Wholes
      PROVE  Since(a, n + 1) = Since(a, n) \cup {n + 1}
  <2>1. \A i \in 0 .. n : (i + 1) .. (n + 1) = ((i + 1) .. n) \cup {n + 1}
    OBVIOUS
  <2>2. 0 .. (n + 1) = (0 .. n) \cup {n + 1}
    OBVIOUS
  <2> QED
    BY <1>2, <1>4, <2>1, <2>2 DEF Since
<1>5. CASE batch[a][n + 1] \in Wholes
  <2>1. {MadeBy(a, i) : i \in {n + 1}} = {MadeBy(a, n + 1)}
    OBVIOUS
  <2> QED
    BY <1>1, <1>3, <1>5, <2>1 DEF Result
<1>6. CASE batch[a][n + 1] \notin Wholes
  <2> DEFINE T == Since(a, n)
  <2> HIDE DEF T
  <2>1. {MadeBy(a, i) : i \in T \cup {n + 1}} =
          {MadeBy(a, i) : i \in T} \cup {MadeBy(a, n + 1)}
    OBVIOUS
  <2> USE DEF T
  <2>2. UNION {MadeBy(a, i) : i \in Since(a, n) \cup {n + 1}} =
          (UNION {MadeBy(a, i) : i \in Since(a, n)}) \cup MadeBy(a, n + 1)
    BY <2>1
  <2> QED
    BY <1>1, <1>4, <1>6, <2>2 DEF Result
<1> QED
  BY <1>5, <1>6

\* What a batch makes of the file does not change while it runs.
LEMMA ResultFrame ==
  ASSUME CmdInv, NEW a \in Applies, NEW n \in Nat, n <= Len(batch[a]),
         batch'[a] = batch[a], before'[a] = before[a],
         text' = text \/ \E c \in Cmds : Push(c)
  PROVE  Result(a, n)' = Result(a, n)
<1>1. batch[a] \in Seq(Cmds) /\ Len(batch[a]) \in Nat
  BY DEF CmdInv, TypeOK, ApplyTypes
<1>2. \A c \in Elems(batch[a]) : text'[c] = text[c]
  BY TextStays
<1>3. Since(a, n)' = Since(a, n)
  BY DEF Since
<1>4. ASSUME NEW i \in 0 .. n PROVE MadeBy(a, i)' = MadeBy(a, i)
  <2>1. CASE i = 0
    BY <2>1 DEF MadeBy
  <2>2. CASE i # 0
    <3>1. i \in DOMAIN batch[a]
      BY <1>1, <2>2
    <3>2. batch[a][i] \in Elems(batch[a])
      BY <3>1 DEF Elems
    <3> QED
      BY <1>2, <2>2, <3>2 DEF MadeBy, EditOf
  <2> QED
    BY <2>1, <2>2
<1>5. Since(a, n) \subseteq 0 .. n
  BY DEF Since
<1> QED
  BY <1>3, <1>4, <1>5 DEF Result

\* The same, of as many commands as an expression of the next state says.
LEMMA ResultKept ==
  ASSUME CmdInv, NEW a \in Applies, batch'[a] = batch[a], before'[a] = before[a],
         text' = text \/ \E c \in Cmds : Push(c)
  PROVE  \A n \in Nat : n <= Len(batch[a]) =>
           UNION {MadeBy(a, i)' : i \in Since(a, n)'} = Result(a, n)
BY ResultFrame DEF Result

\* The file is what the commands run so far make of it while an apply runs,
\* and what all of them make of it until the apply has answered ok.
Keeps(a) ==
  /\ pc[a] = "snapshot" => cfg = before[a]
  /\ pc[a] = "exec" => cfg = Result(a, done[a])
  /\ \/ pc[a] \in {"cleared", "restarting"}
     \/ pc[a] = "returned" /\ res[a] = "ok"
     => done[a] = Len(batch[a]) /\ cfg = Result(a, done[a])

KeepInv == Alone => \A a \in Applies : Keeps(a)

\* Steps that leave the file alone, and add no apply that has to keep it.
LEMMA KeepFrame ==
  ASSUME CmdInv, NEW b \in Applies, Keeps(b), cfg' = cfg, batch'[b] = batch[b],
         done'[b] = done[b], before'[b] = before[b],
         text' = text \/ \E c \in Cmds : Push(c),
         \/ pc'[b] = pc[b] /\ res'[b] = res[b]
         \/ pc'[b] \notin {"snapshot", "exec", "cleared", "restarting", "returned"}
         \/ pc'[b] = "returned" /\ res'[b] # "ok"
         \/ pc[b] \in {"cleared", "restarting"} /\ pc'[b] \in {"restarting", "returned"}
  PROVE  Keeps(b)'
<1>1. done[b] \in Nat /\ done[b] <= Len(batch[b]) /\ Len(batch[b]) \in Nat
  BY DEF CmdInv, CountInv, TypeOK, ApplyTypes
<1>2. \A n \in Nat : n <= Len(batch[b]) =>
        UNION {MadeBy(b, i)' : i \in Since(b, n)'} = Result(b, n)
  BY ResultKept
<1>3. Result(b, done[b])' = Result(b, done[b])
  BY <1>1, <1>2 DEF Result, MadeBy, Since
<1> QED
  BY <1>3 DEF Keeps

LEMMA KeepApply ==
  ASSUME CmdInv, Guarded, GuardInv, \A b \in Applies : Keeps(b),
         NEW a \in Applies, NEW b \in Applies,
         ApplyStep(a) \/ UiApply(a) \/ CookExecute(a)
  PROVE  Keeps(b)'
<1> TypeOK
  BY DEF CmdInv
<1> USE DEF TypeOK, ApplyTypes
<1>0. /\ done[b] \in Nat /\ done[b] <= Len(batch[b]) /\ Len(batch[b]) \in Nat
  BY DEF CmdInv, CountInv
<1>1. CASE ExecOk(a) \/ ExecFail(a) \/ ExecCut(a) \/ Restore(a)
  <2>1. UNCHANGED <<batch, before, text>> /\ bar' = bar
    BY <1>1 DEF ExecOk, ExecFail, ExecCut, Restore, uiVars, queueVars
  <2>2. CASE b # a
    <3>1. ~Active(b) /\ pc'[b] = pc[b]
      BY <1>1, <2>2 DEF GuardInv, Active, ExecOk, ExecFail, ExecCut, Return, Restore
    <3> QED
      BY <3>1 DEF Keeps, Active
  <2>3. CASE b = a /\ ~ExecOk(a)
    <3>1. \/ pc'[b] \in {"restore", "failed"}
          \/ pc'[b] = "returned" /\ res'[b] = "error"
      <4>1. CASE ExecFail(a) \/ Restore(a)
        BY <2>3, <4>1 DEF ExecFail, Restore
      <4>2. CASE ExecCut(a)
        BY <2>3, <4>2 DEF ExecCut, Return
      <4> QED
        BY <1>1, <2>3, <4>1, <4>2
    <3> QED
      BY <3>1 DEF Keeps
  <2>4. CASE b = a /\ ExecOk(a)
    <3>1. /\ pc'[a] = "exec" /\ done'[a] = done[a] + 1 /\ done[a] < Len(batch[a])
          /\ cfg' = IF batch[a][done[a] + 1] \in Wholes
                    THEN EditOf(batch[a][done[a] + 1]).text
                    ELSE cfg \cup EditOf(batch[a][done[a] + 1]).text
      <4>1. \A c : EditOf(c).whole = (c \in Wholes)
        BY DEF EditOf
      <4> QED
        BY <2>4, <4>1 DEF ExecOk, Effect, NextCmd
    <3>2. cfg = Result(a, done[a])
      BY <2>4 DEF Keeps, ExecOk
    <3>3. cfg' = Result(a, done[a] + 1)
      BY <1>0, <2>4, <3>1, <3>2, ResultNext
    <3>4. done[a] + 1 \in Nat /\ done[a] + 1 <= Len(batch[a])
      BY <1>0, <2>4, <3>1
    <3>5. \A n \in Nat : n <= Len(batch[a]) =>
            UNION {MadeBy(a, i)' : i \in Since(a, n)'} = Result(a, n)
      BY <2>1, ResultKept
    <3>6. Result(a, done[a])' = Result(a, done[a] + 1)
      BY <2>1, <3>1, <3>4, <3>5 DEF Result, MadeBy, Since
    <3> QED
      BY <2>4, <3>1, <3>3, <3>6 DEF Keeps
  <2> QED
    BY <2>2, <2>3, <2>4
<1>2. CASE ClearOk(a) \/ Invalidate(a) \/ RestartGateway(a)
  <2>1. /\ UNCHANGED <<cfg, batch, done, before, text>>
        /\ \A c \in Applies \ {a} : pc'[c] = pc[c] /\ res'[c] = res[c]
    BY <1>2 DEF ClearOk, Invalidate, RestartGateway, Return, diskVars, queueVars
  <2>2. CASE b # a
    BY <2>1, <2>2, KeepFrame
  <2>3. CASE b = a /\ ~ClearOk(a)
    <3>1. pc[a] \in {"cleared", "restarting"} /\ pc'[a] \in {"restarting", "returned"}
      BY <1>2, <2>3 DEF Invalidate, RestartGateway, Return
    <3> QED
      BY <2>1, <2>3, <3>1, KeepFrame
  <2>4. CASE b = a /\ ClearOk(a)
    <3>1. /\ pc'[a] = "cleared" /\ done[a] = Len(batch[a])
          /\ cfg = Result(a, done[a])
      BY <2>4 DEF ClearOk, Keeps
    <3>2. \A n \in Nat : n <= Len(batch[a]) =>
            UNION {MadeBy(a, i)' : i \in Since(a, n)'} = Result(a, n)
      BY <2>1, ResultKept
    <3>3. done[a] \in Nat /\ done[a] <= Len(batch[a]) /\ done'[a] = done[a]
      BY <1>0, <2>1, <2>4
    <3>4. Result(a, done[a])' = Result(a, done[a])
      BY <2>1, <3>2, <3>3 DEF Result, MadeBy, Since
    <3> QED
      BY <2>1, <2>4, <3>1, <3>4 DEF Keeps
  <2> QED
    BY <2>2, <2>3, <2>4
<1>3. CASE AddSnapshot(a)
  <2>1. /\ UNCHANGED <<cfg, batch, before, done, res, text>> /\ done[a] = 0
        /\ pc' = [pc EXCEPT ![a] = "exec"] /\ pc[a] = "snapshot"
    BY <1>3 DEF AddSnapshot, CmdInv, CountInv, queueVars
  <2>2. CASE b # a
    BY <2>1, <2>2, KeepFrame
  <2>3. CASE b = a
    <3>1. cfg' = Result(a, 0)
      BY <2>1, ResultZero DEF Keeps
    <3>2. \A n \in Nat : n <= Len(batch[a]) =>
            UNION {MadeBy(a, i)' : i \in Since(a, n)'} = Result(a, n)
      BY <2>1, ResultKept
    <3>3. Result(a, done[a])' = Result(a, 0)
      BY <1>0, <2>1, <2>3, <3>2 DEF Result, MadeBy, Since
    <3> QED
      BY <2>1, <2>3, <3>1, <3>3 DEF Keeps
  <2> QED
    BY <2>2, <2>3
<1>4. CASE List(a)
  <2>1. UNCHANGED <<cfg, before, done, res, text>> /\ pc' = [pc EXCEPT ![a] = "listed"]
    BY <1>4 DEF List, diskVars, queueVars
  <2>2. batch' = [batch EXCEPT ![a] = queue]
    BY <1>4 DEF List
  <2>3. CASE b # a
    BY <2>1, <2>2, <2>3, KeepFrame
  <2>4. CASE b = a
    <3>1. pc'[b] = "listed"
      BY <2>1, <2>4
    <3> QED
      BY <3>1 DEF Keeps
  <2> QED
    BY <2>3, <2>4
<1>5. CASE UiApply(a) \/ CookExecute(a) \/ CookCall(a) \/ Settle(a)
  <2>1. /\ UNCHANGED <<cfg, batch, before, done, res, text>>
        /\ \E p \in {"called", "plan", "settled"} : pc' = [pc EXCEPT ![a] = p]
    BY <1>5 DEF UiApply, CookExecute, CookCall, Settle, diskVars, queueVars
  <2> QED
    BY <2>1, KeepFrame
<1>6. CASE ListNothing(a) \/ ReadBeforeError(a) \/ ClearFailed(a)
  <2>1. /\ UNCHANGED <<cfg, batch, before, done, text>>
        /\ pc' = [pc EXCEPT ![a] = "returned"]
        /\ \E r \in {"nothing", "error", "rolled_back"} : res' = [res EXCEPT ![a] = r]
    BY <1>6 DEF ListNothing, ReadBeforeError, ClearFailed, Return, diskVars, queueVars
  <2> QED
    BY <2>1, KeepFrame
<1>7. CASE CookEnqueue(a)
  <2>1. \E c \in Cmds : Push(c)
    BY <1>7, PlanIn DEF CookEnqueue
  <2> QED
    BY <1>7, <2>1, KeepFrame DEF CookEnqueue, applyVars, diskVars
<1>8. CASE ReadBefore(a)
  <2>1. /\ UNCHANGED <<cfg, batch, done, res, text>>
        /\ before' = [before EXCEPT ![a] = cfg] /\ pc' = [pc EXCEPT ![a] = "snapshot"]
    BY <1>8 DEF ReadBefore, diskVars, queueVars
  <2>2. CASE b # a
    BY <2>1, <2>2, KeepFrame
  <2>3. CASE b = a
    <3>1. pc'[b] = "snapshot" /\ before'[b] = cfg'
      BY <2>1, <2>3
    <3> QED
      BY <3>1 DEF Keeps
  <2> QED
    BY <2>2, <2>3
<1> QED
  BY <1>1, <1>2, <1>3, <1>4, <1>5, <1>6, <1>7, <1>8 DEF ApplyStep

LEMMA KeepStep ==
  ASSUME CmdInv, Alone, GuardInv, \A b \in Applies : Keeps(b), [Next]_vars,
         NEW b \in Applies
  PROVE  Keeps(b)'
<1>1. CASE \E a \in Applies : UiApply(a) \/ CookExecute(a) \/ ApplyStep(a)
  BY <1>1, KeepApply DEF Alone
<1>2. CASE Crash
  <2>1. /\ UNCHANGED <<cfg, batch, before, done, text>>
        /\ pc'[b] \in {"idle", "settled", "dead"}
    BY <1>2 DEF Crash, diskVars
  <2> QED
    BY <2>1, KeepFrame
<1>3. CASE \/ \E c \in Cmds : RemoveQueued(c)
           \/ DiscardQueued \/ Remount \/ UNCHANGED vars
           \/ \E r \in Readers : ReaderStep(r) \/ \E k \in Keys : ReadMiss(r, k)
  <2>1. UNCHANGED <<diskVars, applyVars, text>>
    BY <1>3 DEF RemoveQueued, DiscardQueued, Remount, vars,
       ReaderStep, ReadCli, ReadCliError, CacheSet, ReadMiss, queueVars
  <2> QED
    BY <2>1, KeepFrame DEF diskVars, applyVars
<1>4. CASE \E c \in Cmds : QueueCommand(c)
  <2>1. UNCHANGED <<diskVars, applyVars>> /\ \E c \in Cmds : Push(c)
    BY <1>4 DEF QueueCommand
  <2> QED
    BY <2>1, KeepFrame DEF diskVars, applyVars
<1> QED
  BY <1>1, <1>2, <1>3, <1>4 DEF Next, WriterStep, Alone

\* Where the guard of the bar is kept, so is the invariant behind it.
LEMMA GuardAlways == Spec => [](Guarded => GuardInv)
<1>1. Init => (Guarded => GuardInv)
  BY DEF Init, GuardInv, Active
<1>2. TypeOK /\ (Guarded => GuardInv) /\ [Next]_vars => (Guarded => GuardInv)'
  BY GuardStep, MixStays
<1> QED
  BY <1>1, <1>2, TypeCorrect, PTL DEF Spec

\* When an apply answers ok, openclaw.json is exactly what the commands of its
\* batch make of it one after the other, whole-file commands included, and
\* nothing has undone a part of it when the answer is delivered, as long as
\* the bar's guard is the only way to an apply and nothing else writes the
\* file (apply_queued_commands_with_services).
THEOREM OkIsKept == Spec => []OkKeepsChanges
<1>1. Init => KeepInv
  BY DEF Init, KeepInv, Keeps
<1>2. CmdInv /\ (Guarded => GuardInv) /\ KeepInv /\ [Next]_vars => KeepInv'
  BY KeepStep, MixStays DEF KeepInv, Alone
<1>3. KeepInv => OkKeepsChanges
  BY DEF KeepInv, Keeps, OkKeepsChanges
<1> QED
  BY <1>1, <1>2, <1>3, CmdAlways, GuardAlways, PTL DEF Spec

-----------------------------------------------------------------------------
(* The cache shows the file as it is.                                      *)

Cached(v) == \A k \in Keys : cache[k] \subseteq {v}

\* What the cache holds at each point of an apply that no read overlaps.
CachedAt(a) ==
  /\ pc[a] \in {"listed", "failed"} => Cached(cfg)
  /\ pc[a] = "snapshot" => Cached(cfg) /\ before[a] = cfg
  /\ pc[a] \in {"exec", "restore"} => Cached(before[a])

\* Between applies the cache and every answer on its way are current; during
\* one nothing is read, and what the cache holds is what a restore writes.
FreshNow ==
  /\ ~AnyRunning => /\ Cached(cfg)
                    /\ \A r \in Readers : reader[r].pc = "answered" => reader[r].val = cfg
  /\ AnyRunning => \A r \in Readers : ~Reading(r)
  /\ \A a \in Applies : CachedAt(a)

Fresh == Alone /\ Uncut /\ "restore" \notin mix
FreshInv == Fresh /\ ~overlapped => FreshNow

\* Steps that leave the file, the cache and the reads alone.
LEMMA FreshFrame ==
  ASSUME FreshNow, UNCHANGED <<cfg, cache, reader, pc, before>>
  PROVE  FreshNow'
BY DEF FreshNow, CachedAt, Cached, AnyRunning, Running, Reading

\* The one apply under way makes a step.
LEMMA FreshApply ==
  ASSUME TypeOK, Fresh, ~overlapped', GuardInv, FreshNow,
         NEW a \in Applies, ApplyStep(a) \/ UiApply(a) \/ CookExecute(a)
  PROVE  FreshNow'
<1> USE DEF TypeOK, ApplyTypes
<1>a. \A b \in Applies : Active(a) /\ b # a => ~Active(b)
  BY DEF GuardInv
<1>b. \A b \in Applies : Running(b) => Active(b)
  BY DEF Running, Busy, Active
<1>c. ASSUME NEW p, pc' = [pc EXCEPT ![a] = p], reader' = reader, Active(a),
             p \in Busy, Running(a) \/ \A r \in Readers : ~Reading(r),
             CachedAt(a)'
      PROVE  FreshNow'
  <2>1. AnyRunning' /\ \A r \in Readers : ~Reading(r)'
    BY <1>c DEF AnyRunning, Running, FreshNow, Reading
  <2>2. \A b \in Applies \ {a} : CachedAt(b)'
    BY <1>a, <1>c DEF CachedAt, Active
  <2> QED
    BY <1>c, <2>1, <2>2 DEF FreshNow
<1>d. ASSUME NEW p, pc' = [pc EXCEPT ![a] = p], reader' = reader, Active(a),
             p \notin Busy, Cached(cfg)', Running(a) \/ UNCHANGED cfg
      PROVE  FreshNow'
  <2>1. ~AnyRunning' /\ \A b \in Applies : CachedAt(b)'
    BY <1>a, <1>b, <1>d DEF AnyRunning, Running, Busy, CachedAt, Active
  <2>2. ~Running(a) => ~AnyRunning
    BY <1>a, <1>b, <1>d DEF AnyRunning
  <2>3. \A r \in Readers : reader'[r].pc = "answered" => reader'[r].val = cfg'
    BY <1>d, <2>2 DEF FreshNow, AnyRunning, Reading
  <2> QED
    BY <1>d, <2>1, <2>3 DEF FreshNow
<1>1. CASE List(a)
  <2>1. /\ Active(a) /\ ~Running(a) /\ cfg' = cfg /\ cache' = cache /\ reader' = reader
        /\ pc' = [pc EXCEPT ![a] = "listed"]
        /\ \A r \in Readers : ~Reading(r)
    BY <1>1 DEF List, Active, Running, Busy, diskVars
  <2>2. ~AnyRunning
    BY <1>a, <1>b, <2>1 DEF AnyRunning
  <2>3. CachedAt(a)'
    BY <2>1, <2>2 DEF FreshNow, CachedAt, Cached
  <2>4. "listed" \in Busy
    BY DEF Busy
  <2> QED
    BY <1>c, <2>1, <2>3, <2>4
<1>2. CASE ReadBefore(a) \/ AddSnapshot(a) \/ ExecFail(a) \/ Restore(a) \/ ClearOk(a)
  <2>1. PICK p \in {"snapshot", "exec", "restore", "failed", "cleared"} :
          pc' = [pc EXCEPT ![a] = p]
    BY <1>2 DEF ReadBefore, AddSnapshot, ExecFail, Restore, ClearOk
  <2>2. Running(a) /\ Active(a) /\ reader' = reader /\ cache' = cache
    BY <1>2 DEF ReadBefore, AddSnapshot, ExecFail, Restore, ClearOk, readVars,
       Running, Busy, Active
  <2>3. CachedAt(a)'
    BY <1>2, <2>2 DEF ReadBefore, AddSnapshot, ExecFail, Restore, ClearOk, Fresh,
       FreshNow, CachedAt, Cached, diskVars
  <2>4. p \in Busy
    BY DEF Busy
  <2> QED
    BY <1>c, <2>1, <2>2, <2>3, <2>4
<1>3. CASE ExecOk(a)
  <2>1. /\ pc' = [pc EXCEPT ![a] = "exec"] /\ Running(a) /\ Active(a)
        /\ UNCHANGED <<reader, cache, before>> /\ pc[a] = "exec"
    BY <1>3 DEF ExecOk, readVars, Running, Busy, Active
  <2>2. CachedAt(a)' /\ "exec" \in Busy
    BY <2>1 DEF FreshNow, CachedAt, Cached, Busy
  <2> QED
    BY <1>c, <2>1, <2>2
<1>4. CASE \/ CookCall(a) \/ ListNothing(a) \/ ReadBeforeError(a)
           \/ ClearFailed(a) \/ Settle(a) \/ RestartGateway(a)
  <2>1. PICK p \in {"called", "returned", "settled"} : pc' = [pc EXCEPT ![a] = p]
    BY <1>4 DEF CookCall, ListNothing, ReadBeforeError, ClearFailed, Settle,
       RestartGateway, Return
  <2>2. Active(a) /\ UNCHANGED <<cfg, cache, reader>>
    BY <1>4 DEF CookCall, ListNothing, ReadBeforeError, ClearFailed, Settle,
       RestartGateway, diskVars, readVars, Active
  <2>3. pc[a] \in {"listed", "failed"} \/ ~Running(a)
    BY <1>4 DEF CookCall, ListNothing, ReadBeforeError, ClearFailed, Settle,
       RestartGateway, Running, Busy
  <2>4. ~Running(a) => ~AnyRunning
    BY <1>a, <1>b, <2>2 DEF AnyRunning
  <2>5. Cached(cfg)'
    BY <2>2, <2>3, <2>4 DEF FreshNow, CachedAt, Cached
  <2>6. p \notin Busy
    BY DEF Busy
  <2> QED
    BY <1>d, <2>1, <2>2, <2>5, <2>6
<1>5. CASE Invalidate(a)
  <2>1. /\ pc' = [pc EXCEPT ![a] = "restarting"] /\ reader' = reader /\ Active(a)
        /\ Running(a) /\ Cached(cfg)' /\ "restarting" \notin Busy
    BY <1>5 DEF Invalidate, Active, Running, Busy, Cached
  <2> QED
    BY <1>d, <2>1
<1>6. CASE CookEnqueue(a)
  BY <1>6, FreshFrame DEF CookEnqueue, applyVars, diskVars, readVars
<1>7. CASE UiApply(a) \/ CookExecute(a)
  <2>1. /\ UNCHANGED <<cfg, cache, reader, before>> /\ pc[a] = "idle"
        /\ \E p \in {"called", "plan"} : pc' = [pc EXCEPT ![a] = p]
    BY <1>7 DEF UiApply, CookExecute, diskVars, readVars
  <2>2. \A b \in Applies : /\ Running(b)' <=> Running(b)
                           /\ Running(b) => pc'[b] = pc[b]
    BY <2>1 DEF Running, Busy
  <2>3. AnyRunning' <=> AnyRunning
    BY <2>2 DEF AnyRunning
  <2>4. \A b \in Applies : CachedAt(b)'
    BY <2>1, <2>2 DEF FreshNow, CachedAt, Cached, Running, Busy
  <2> QED
    BY <2>1, <2>3, <2>4 DEF FreshNow, Cached, Reading
<1>8. ~ExecCut(a)
  BY DEF ExecCut, Fresh, Uncut
<1> QED
  BY <1>1, <1>2, <1>3, <1>4, <1>5, <1>6, <1>7, <1>8 DEF ApplyStep

\* A read makes a step.
LEMMA FreshRead ==
  ASSUME TypeOK, ~overlapped', FreshNow, NEW r \in Readers,
         ReaderStep(r) \/ \E k \in Keys : ReadMiss(r, k)
  PROVE  FreshNow'
<1>0. UNCHANGED <<cfg, pc, before>>
  BY DEF ReaderStep, ReadCli, ReadCliError, CacheSet, ReadMiss, diskVars, applyVars
<1>1. ~AnyRunning
  BY DEF ReaderStep, ReadCli, ReadCliError, CacheSet, ReadMiss, FreshNow, Reading
<1>2. ~AnyRunning' /\ \A a \in Applies : CachedAt(a)'
  BY <1>0, <1>1 DEF AnyRunning, Running, Busy, CachedAt
<1>3. reader \in [Readers -> ReaderStates]
  BY DEF TypeOK, ReadTypes
<1>4. \A q \in Readers : reader'[q].pc = "answered" => reader'[q].val = cfg
  BY <1>1, <1>3 DEF ReaderStep, ReadCli, ReadCliError, CacheSet, ReadMiss, FreshNow,
     IdleReader
<1>5. Cached(cfg)'
  <2>1. CASE CacheSet(r)
    BY <1>0, <1>1, <2>1 DEF CacheSet, FreshNow, Cached
  <2>2. CASE ~CacheSet(r)
    BY <1>0, <1>1, <2>2 DEF ReaderStep, ReadCli, ReadCliError, ReadMiss, FreshNow,
       Cached
  <2> QED
    BY <2>1, <2>2
<1> QED
  BY <1>0, <1>2, <1>4, <1>5 DEF FreshNow

LEMMA FreshStep ==
  ASSUME TypeOK, Fresh, GuardInv, FreshInv, [Next]_vars, ~overlapped'
  PROVE  FreshNow'
<1>1. ~overlapped
  BY DEF Next, QueueCommand, RemoveQueued, DiscardQueued, UiApply, CookExecute,
     ApplyStep, CookEnqueue, CookCall, List, ListNothing, ReadBefore,
     ReadBeforeError, AddSnapshot, ExecOk, ExecFail, ExecCut, Restore, ClearFailed,
     ClearOk, Invalidate, RestartGateway, Settle, Remount, ReaderStep, ReadCli,
     ReadCliError, CacheSet, ReadMiss, WriterStep, Fresh, Alone, Crash, readVars,
     vars
<1>2. FreshNow
  BY <1>1 DEF FreshInv
<1>3. CASE \E a \in Applies : UiApply(a) \/ CookExecute(a) \/ ApplyStep(a)
  BY <1>2, <1>3, FreshApply
<1>4. CASE \E r \in Readers : ReaderStep(r) \/ \E k \in Keys : ReadMiss(r, k)
  BY <1>2, <1>4, FreshRead
<1>5. CASE Crash
  <2>1. /\ \A a \in Applies : pc'[a] \in {"idle", "settled", "dead"}
        /\ \A r \in Readers : reader'[r] = IdleReader
        /\ \A k \in Keys : cache'[k] = {}
    BY <1>5 DEF Crash
  <2> QED
    BY <2>1 DEF FreshNow, CachedAt, Cached, AnyRunning, Running, Busy, IdleReader
<1>6. CASE \/ \E c \in Cmds : QueueCommand(c) \/ RemoveQueued(c)
           \/ DiscardQueued \/ Remount \/ UNCHANGED vars
  BY <1>2, <1>6, FreshFrame DEF QueueCommand, RemoveQueued, DiscardQueued, Remount,
     vars, diskVars, applyVars, readVars
<1> QED
  BY <1>3, <1>4, <1>5, <1>6 DEF Next, WriterStep, Fresh, Alone

\* The cache over the CLI never holds an answer that is out of date, for any
\* number of reads and applies that do not overlap, any failed command and
\* any crash (CliCache, invalidate_all).
THEOREM CacheIsCurrent == Spec => []CacheCurrent
<1>1. Init => FreshInv
  BY DEF Init, FreshInv, FreshNow, CachedAt, Cached, AnyRunning, Running, Busy,
     Reading, IdleReader
<1>2. TypeOK /\ (Guarded => GuardInv) /\ FreshInv /\ [Next]_vars => FreshInv'
  BY FreshStep, MixStays DEF FreshInv, Fresh, Alone, Uncut
<1>3. FreshInv => CacheCurrent
  BY DEF FreshInv, FreshNow, Fresh, Cached, CacheCurrent
<1> QED
  BY <1>1, <1>2, <1>3, TypeCorrect, GuardAlways, PTL DEF Spec

-----------------------------------------------------------------------------
(* The order of the commands.                                              *)

Sorted(s) == \A i, j \in DOMAIN s : i < j => Position(s[i]) < Position(s[j])
Earlier(S, T) == \A c \in S, d \in T : Position(c) < Position(d)

\* What an apply has still to run.
Left(a) == {batch[a][k] : k \in (done[a] + 1) .. Len(batch[a])}

\* The queue, every batch and what has run are in the order of acceptance;
\* what has run comes before what the apply under way has still to run, and,
\* as no apply works, before all that is queued.
InLine ==
  /\ Sorted(queue) /\ Sorted(ran) /\ \A a \in Applies : Sorted(batch[a])
  /\ \A a \in Applies : pc[a] \in Upto => Earlier(Elems(ran), Left(a))
  /\ (\A a \in Applies : ~Working(a)) => Earlier(Elems(ran), Elems(queue))

OrderInv == Injective(accepted) /\ (Guarded /\ Uncut => InLine)

\* What a command's position means: its place in the order of acceptance.
At(s, c) == CHOOSE i \in DOMAIN s : s[i] = c

LEMMA AtIs ==
  ASSUME NEW s, Injective(s), NEW i \in DOMAIN s
  PROVE  At(s, s[i]) = i
BY DEF At, Injective

LEMMA PositionAt ==
  ASSUME NEW c
  PROVE  Position(c) = At(accepted, c) /\ Position(c)' = At(accepted', c)
BY DEF Position, At

\* A new command comes after all others, whose positions stay.
LEMMA PositionPush ==
  ASSUME CmdInv, Injective(accepted), NEW c \in Cmds, Push(c)
  PROVE  /\ Injective(accepted)'
         /\ \A d \in Elems(accepted) : /\ At(accepted', d) = At(accepted, d)
                                       /\ At(accepted', d) < At(accepted', c)
<1>1. /\ accepted \in Seq(Cmds) /\ accepted' = Append(accepted, c) /\ c \notin Elems(accepted)
      /\ Len(accepted) \in Nat
  BY DEF Push, CmdInv, TypeOK, QueueTypes
<1>2. Injective(accepted')
  BY <1>1, AppendInjective
<1>3. /\ DOMAIN accepted = 1 .. Len(accepted)
      /\ DOMAIN accepted' = 1 .. (Len(accepted) + 1)
      /\ accepted'[Len(accepted) + 1] = c
      /\ \A i \in DOMAIN accepted : accepted'[i] = accepted[i]
  BY <1>1
<1>5. At(accepted', c) = Len(accepted) + 1
  <2>1. Len(accepted) + 1 \in DOMAIN accepted'
    BY <1>1, <1>3
  <2> QED
    BY <1>2, <1>3, <2>1, AtIs
<1>6. ASSUME NEW d \in Elems(accepted)
      PROVE  At(accepted', d) = At(accepted, d) /\ At(accepted', d) < At(accepted', c)
  <2>1. PICK i \in DOMAIN accepted : d = accepted[i]
    BY DEF Elems
  <2>2. i \in DOMAIN accepted' /\ d = accepted'[i] /\ i \in 1 .. Len(accepted)
    BY <1>1, <1>3, <2>1
  <2>3. At(accepted, d) = i /\ At(accepted', d) = i
    BY <1>2, <2>1, <2>2, AtIs
  <2> QED
    BY <1>1, <1>5, <2>2, <2>3
<1> QED
  BY <1>2, <1>6

\* A sequence stays sorted with a later element at its end.
LEMMA SortedAppend ==
  ASSUME NEW S, NEW s \in Seq(S), NEW c \in S, Sorted(s), Earlier(Elems(s), {c})
  PROVE  Sorted(Append(s, c))
<1>1. /\ Len(s) \in Nat /\ DOMAIN s = 1 .. Len(s)
      /\ DOMAIN Append(s, c) = 1 .. (Len(s) + 1)
      /\ Append(s, c)[Len(s) + 1] = c
      /\ \A i \in 1 .. Len(s) : Append(s, c)[i] = s[i]
  OBVIOUS
<1>2. ASSUME NEW i \in 1 .. (Len(s) + 1), NEW j \in 1 .. (Len(s) + 1), i < j
      PROVE  Position(Append(s, c)[i]) < Position(Append(s, c)[j])
  <2>1. i \in 1 .. Len(s) /\ Append(s, c)[i] = s[i] /\ s[i] \in Elems(s)
    BY <1>1, <1>2 DEF Elems
  <2>2. CASE j \in 1 .. Len(s)
    BY <1>1, <1>2, <2>1, <2>2 DEF Sorted
  <2>3. CASE j = Len(s) + 1
    BY <1>1, <2>1, <2>3 DEF Earlier
  <2> QED
    BY <1>1, <2>2, <2>3
<1> QED
  BY <1>1, <1>2 DEF Sorted

\* And with an element taken out.
LEMMA SortedWithout ==
  ASSUME NEW S, NEW s \in Seq(S), NEW i \in DOMAIN s, Sorted(s)
  PROVE  Sorted(Without(s, i))
<1>1. /\ Len(s) \in Nat /\ DOMAIN s = 1 .. Len(s)
      /\ DOMAIN Without(s, i) = 1 .. (Len(s) - 1)
  BY DEF Without
<1> DEFINE at(l) == IF l < i THEN l ELSE l + 1
<1>2. \A l \in 1 .. (Len(s) - 1) : Without(s, i)[l] = s[at(l)] /\ at(l) \in DOMAIN s
  BY <1>1 DEF Without
<1>3. \A l, m \in 1 .. (Len(s) - 1) : l < m => at(l) < at(m)
  BY <1>1
<1> HIDE DEF at
<1> QED
  BY <1>1, <1>2, <1>3 DEF Sorted

\* Steps that leave the commands alone.
LEMMA OrderQuiet == ASSUME InLine, Quiet PROVE InLine'
<1>1. \A c : Position(c)' = Position(c)
  BY DEF Position, Quiet
<1>2. Sorted(queue)' /\ Sorted(ran)' /\ \A a \in Applies : Sorted(batch[a])'
  BY <1>1 DEF InLine, Sorted, Quiet
<1>3. \A a \in Applies : pc'[a] \in Upto => Earlier(Elems(ran), Left(a))'
  BY <1>1 DEF InLine, Earlier, Left, Quiet
<1>4. (\A a \in Applies : ~Working(a)') => Earlier(Elems(ran), Elems(queue))'
  BY <1>1 DEF InLine, Earlier, Quiet
<1> QED
  BY <1>2, <1>3, <1>4 DEF InLine

\* Steps that only touch the queue, and leave a part of it.
LEMMA OrderTakeOut ==
  ASSUME InLine, UNCHANGED <<accepted, batch, ran, done>>, Sorted(queue'),
         Elems(queue') \subseteq Elems(queue),
         \A a \in Applies : pc'[a] \in Upto => pc[a] \in Upto,
         queue' = <<>> \/ \A a \in Applies : Working(a) => Working(a)'
  PROVE  InLine'
<1>1. \A c : Position(c)' = Position(c)
  BY DEF Position
<1>2. Sorted(queue)' /\ Sorted(ran)' /\ \A a \in Applies : Sorted(batch[a])'
  BY <1>1 DEF InLine, Sorted
<1>3. \A a \in Applies : pc'[a] \in Upto => Earlier(Elems(ran), Left(a))'
  BY <1>1 DEF InLine, Earlier, Left
<1>4. queue' = <<>> => Elems(queue') = {}
  BY DEF Elems
<1>5. (\A a \in Applies : ~Working(a)') => Earlier(Elems(ran), Elems(queue))'
  BY <1>1, <1>4 DEF InLine, Earlier
<1> QED
  BY <1>2, <1>3, <1>5 DEF InLine

LEMMA OrderPush ==
  ASSUME CmdInv, Injective(accepted), InLine, NEW c \in Cmds, Push(c),
         UNCHANGED <<batch, ran, done, pc>>
  PROVE  InLine'
<1>0. /\ queue \in Seq(Cmds) /\ ran \in Seq(Cmds)
      /\ \A a \in Applies : batch[a] \in Seq(Cmds) /\ done[a] \in Nat
  BY DEF CmdInv, TypeOK, QueueTypes, ApplyTypes
<1>1. /\ Elems(queue) \subseteq Elems(accepted) /\ Elems(ran) \subseteq Elems(accepted)
      /\ \A a \in Applies : Elems(batch[a]) \subseteq Elems(accepted)
  BY DEF CmdInv, QueueInv
<1>2. \A d \in Elems(accepted) : At(accepted', d) = At(accepted, d)
                                 /\ At(accepted', d) < At(accepted', c)
  BY PositionPush
<1>p. \A d \in Elems(accepted) : Position(d)' = Position(d) /\ Position(d)' < Position(c)'
  BY <1>2, PositionAt
<1>3. queue' = Append(queue, c) /\ Elems(queue') = Elems(queue) \cup {c}
  BY <1>0, AppendElems DEF Push
<1>4. Sorted(ran)' /\ \A a \in Applies : Sorted(batch[a])'
  BY <1>1, <1>p DEF InLine, Sorted, Elems
<1>5. Sorted(queue)'
  <2>1. /\ Len(queue) \in Nat /\ DOMAIN queue = 1 .. Len(queue)
        /\ DOMAIN queue' = 1 .. (Len(queue) + 1) /\ queue'[Len(queue) + 1] = c
        /\ \A i \in 1 .. Len(queue) : queue'[i] = queue[i]
    BY <1>0, <1>3
  <2>2. \A i \in 1 .. Len(queue) : queue[i] \in Elems(accepted)
    BY <1>1, <2>1 DEF Elems
  <2>3. \A i, j \in 1 .. Len(queue) : i < j => At(accepted, queue[i]) < At(accepted, queue[j])
    BY <2>1, PositionAt DEF InLine, Sorted
  <2>4. ASSUME NEW i \in 1 .. (Len(queue) + 1), NEW j \in 1 .. (Len(queue) + 1), i < j
        PROVE  At(accepted', queue'[i]) < At(accepted', queue'[j])
    <3>1. i \in 1 .. Len(queue)
      BY <2>1, <2>4
    <3>2. CASE j \in 1 .. Len(queue)
      BY <1>2, <2>1, <2>2, <2>3, <2>4, <3>1, <3>2
    <3>3. CASE j = Len(queue) + 1
      BY <1>2, <2>1, <2>2, <3>1, <3>3
    <3> QED
      BY <2>1, <3>2, <3>3
  <2> QED
    BY <2>1, <2>4 DEF Sorted, Position, At
<1>6. \A a \in Applies : Left(a) \subseteq Elems(batch[a])
  BY <1>0 DEF Left, Elems
<1>7. \A a \in Applies : pc'[a] \in Upto => Earlier(Elems(ran), Left(a))'
  <2>1. \A a \in Applies : Left(a)' = Left(a)
    BY DEF Left
  <2> QED
    BY <1>1, <1>p, <1>6, <2>1 DEF InLine, Earlier
<1>8. (\A a \in Applies : ~Working(a)') => Earlier(Elems(ran), Elems(queue))'
  BY <1>1, <1>p, <1>3 DEF InLine, Earlier, Working
<1> QED
  BY <1>4, <1>5, <1>7, <1>8 DEF InLine

LEMMA OrderList ==
  ASSUME CmdInv, GuardInv, InLine, NEW a \in Applies, List(a)
  PROVE  InLine'
<1>1. UNCHANGED <<queue, accepted, done, ran>>
  BY DEF List, queueVars
<1>2. /\ pc[a] = "called" /\ pc'[a] = "listed" /\ batch'[a] = queue /\ done[a] = 0
      /\ \A b \in Applies \ {a} : pc'[b] = pc[b] /\ batch'[b] = batch[b]
  BY DEF List, CmdInv, CountInv, TypeOK, ApplyTypes
<1>3. \A b \in Applies : ~Working(b)
  BY <1>2 DEF GuardInv, Active, Working
<1>4. \A c : Position(c)' = Position(c)
  BY <1>1 DEF Position
<1>5. Sorted(queue)' /\ Sorted(ran)' /\ \A b \in Applies : Sorted(batch[b])'
  BY <1>1, <1>2, <1>4 DEF InLine, Sorted
<1>6. Left(a)' = Elems(queue)
  <2>1. queue \in Seq(Cmds)
    BY DEF CmdInv, TypeOK, QueueTypes
  <2>2. DOMAIN queue = (done'[a] + 1) .. Len(queue)
    BY <1>1, <1>2, <2>1
  <2> QED
    BY <1>2, <2>2 DEF Left, Elems
<1>7. \A b \in Applies : pc'[b] \in Upto => Earlier(Elems(ran), Left(b))'
  BY <1>1, <1>2, <1>3, <1>4, <1>6 DEF InLine, Earlier, Left
<1>8. Earlier(Elems(ran), Elems(queue))'
  BY <1>1, <1>3, <1>4 DEF InLine, Earlier
<1> QED
  BY <1>5, <1>7, <1>8 DEF InLine

LEMMA OrderExec ==
  ASSUME CmdInv, GuardInv, InLine, NEW a \in Applies, ExecOk(a) \/ ExecFail(a)
  PROVE  InLine'
<1>1. UNCHANGED <<queue, accepted, batch>>
  BY DEF ExecOk, ExecFail, queueVars
<1>2. /\ pc[a] = "exec" /\ pc'[a] \in {"exec", "restore"}
      /\ pc'[a] = "exec" => done'[a] = done[a] + 1
      /\ \A b \in Applies \ {a} : pc'[b] = pc[b]
      /\ done[a] \in Nat /\ batch[a] \in Seq(Cmds) /\ done[a] < Len(batch[a])
  BY DEF ExecOk, ExecFail, CmdInv, TypeOK, ApplyTypes
<1>3. \A c : Position(c)' = Position(c)
  BY <1>1 DEF Position
<1> DEFINE c == NextCmd(a)
<1>4. c \in Cmds /\ c = batch[a][done[a] + 1] /\ c \in Left(a)
  BY <1>2, NextIn DEF NextCmd, Left
<1> HIDE DEF c
<1>5. ran \in Seq(Cmds) /\ ran' = Append(ran, c)
  BY DEF ExecOk, ExecFail, CmdInv, TypeOK, ApplyTypes, c
<1>6. Earlier(Elems(ran), Left(a))
  BY <1>2 DEF InLine, Upto
<1>7. Sorted(ran)'
  <2>1. Earlier(Elems(ran), {c})
    BY <1>4, <1>6 DEF Earlier
  <2>2. Sorted(ran')
    BY <1>4, <1>5, <2>1, SortedAppend DEF InLine
  <2> QED
    BY <1>3, <2>2 DEF Sorted
<1>8. Sorted(queue)' /\ \A b \in Applies : Sorted(batch[b])'
  BY <1>1, <1>3 DEF InLine, Sorted
<1>9. pc'[a] = "exec" => Earlier(Elems(ran), Left(a))'
  <2> SUFFICES ASSUME pc'[a] = "exec" PROVE Earlier(Elems(ran), Left(a))'
    OBVIOUS
  <2>1. Elems(ran') = Elems(ran) \cup {c}
    BY <1>4, <1>5, AppendElems
  <2>2. Left(a)' = {batch[a][k] : k \in (done[a] + 2) .. Len(batch[a])}
    <3>1. done'[a] + 1 = done[a] + 2
      BY <1>2
    <3> QED
      BY <1>1, <3>1 DEF Left
  <2>3. Left(a)' \subseteq Left(a)
    <3>1. (done[a] + 2) .. Len(batch[a]) \subseteq (done[a] + 1) .. Len(batch[a])
      BY <1>2
    <3> QED
      BY <2>2, <3>1 DEF Left
  <2>4. \A d \in Left(a)' : Position(c) < Position(d)
    <3> SUFFICES ASSUME NEW k \in (done[a] + 2) .. Len(batch[a])
                 PROVE  Position(c) < Position(batch[a][k])
      BY <2>2
    <3>1. done[a] + 1 \in DOMAIN batch[a] /\ k \in DOMAIN batch[a] /\ done[a] + 1 < k
      BY <1>2
    <3> QED
      BY <1>4, <3>1 DEF InLine, Sorted
  <2> QED
    BY <1>3, <1>6, <2>1, <2>3, <2>4 DEF Earlier
<1>10. \A b \in Applies : pc'[b] \in Upto => b = a /\ pc'[a] = "exec"
  BY <1>2 DEF GuardInv, Active, Upto
<1>11. Working(a)'
  BY <1>2 DEF Working
<1> QED
  BY <1>7, <1>8, <1>9, <1>10, <1>11 DEF InLine

LEMMA OrderStep ==
  ASSUME CmdInv, Guarded, Uncut, GuardInv, Injective(accepted), InLine, [Next]_vars
  PROVE  InLine'
<1>0. queue \in Seq(Cmds) /\ Sorted(<<>>)
  BY DEF CmdInv, TypeOK, QueueTypes, Sorted
<1>1. ASSUME NEW c \in Cmds, QueueCommand(c) PROVE InLine'
  BY <1>1, OrderPush DEF QueueCommand, applyVars
<1>2. ASSUME NEW a \in Applies, ClearOk(a) \/ ClearFailed(a) PROVE InLine'
  <2>1. /\ queue' = <<>> /\ Elems(queue') = {}
        /\ UNCHANGED <<accepted, batch, ran, done>>
        /\ \A b \in Applies : pc'[b] \in Upto => pc[b] \in Upto
    BY <1>2 DEF ClearOk, ClearFailed, Return, Elems, Upto, CmdInv, TypeOK,
       ApplyTypes
  <2> QED
    BY <1>0, <2>1, OrderTakeOut
<1>3. ASSUME NEW a \in Applies, CookEnqueue(a) PROVE InLine'
  BY <1>3, SetsAssumption DEF CookEnqueue, GuardInv, Active, CmdInv, TypeOK, UiTypes,
     Applies
<1>4. ASSUME NEW a \in Applies, ApplyStep(a) \/ UiApply(a) \/ CookExecute(a)
      PROVE  InLine'
  BY <1>2, <1>3, <1>4, ApplyQuiet, OrderQuiet, OrderList, OrderExec
  DEF ApplyStep, ExecCut, Uncut
<1>5. CASE DiscardQueued
  <2>1. /\ queue' = <<>> /\ Elems(queue') = {}
        /\ UNCHANGED <<accepted, batch, ran, done, pc>>
    BY <1>5 DEF DiscardQueued, applyVars, Elems
  <2> QED
    BY <1>0, <2>1, OrderTakeOut
<1>6. ASSUME NEW c \in Cmds, RemoveQueued(c) PROVE InLine'
  <2>1. PICK i \in DOMAIN queue : queue' = Without(queue, i)
    BY <1>6 DEF RemoveQueued
  <2>2. Sorted(queue') /\ Elems(queue') \subseteq Elems(queue)
    BY <1>0, <2>1, SortedWithout, WithoutType DEF InLine
  <2>3. UNCHANGED <<accepted, batch, ran, done, pc>>
    BY <1>6 DEF RemoveQueued, applyVars
  <2> QED
    BY <2>2, <2>3, OrderTakeOut DEF Working
<1>7. CASE Crash
  <2>1. /\ queue' = <<>> /\ Elems(queue') = {}
        /\ UNCHANGED <<accepted, batch, ran, done>>
        /\ \A a \in Applies : pc'[a] \notin Upto
    BY <1>7 DEF Crash, Elems, Upto
  <2> QED
    BY <1>0, <2>1, OrderTakeOut
<1> QED
  BY <1>1, <1>4, <1>5, <1>6, <1>7, OtherQuiet, OrderQuiet DEF Next

\* What is accepted is never accepted again.
LEMMA AcceptedOnce == CmdInv /\ Injective(accepted) /\ [Next]_vars => Injective(accepted)'
<1> SUFFICES ASSUME CmdInv, Injective(accepted), [Next]_vars PROVE Injective(accepted)'
  OBVIOUS
<1>1. ASSUME NEW c \in Cmds, QueueCommand(c) PROVE Injective(accepted)'
  BY <1>1, PositionPush DEF QueueCommand
<1>2. ASSUME NEW a \in Applies, CookEnqueue(a) PROVE Injective(accepted)'
  <2>1. Plan[a][planned[a] + 1] \in Cmds
    BY <1>2, PlanIn DEF CookEnqueue, CmdInv
  <2> QED
    BY <1>2, <2>1, PositionPush DEF CookEnqueue
<1>3. ASSUME NEW a \in Applies, ApplyStep(a) \/ UiApply(a) \/ CookExecute(a)
      PROVE  Injective(accepted)'
  BY <1>2, <1>3, ApplyQuiet DEF ApplyStep, Quiet, List, ExecOk, ExecFail, ExecCut,
     ClearOk, ClearFailed, queueVars
<1> QED
  BY <1>1, <1>3, OtherQuiet DEF Next, Quiet, DiscardQueued, RemoveQueued, Crash

\* Commands run in the order they were queued, and none twice, over any
\* number of applies, removals and crashes, as long as the bar's guard is the
\* only way to an apply and no apply is cut short (CommandQueue, apply_queued_commands_with_services).
THEOREM OrderIsKept == Spec => []RunsInOrder
<1>1. Init => OrderInv
  BY DEF Init, OrderInv, InLine, Injective, Sorted, Elems, Upto, Earlier
<1>2. CmdInv /\ (Guarded => GuardInv) /\ OrderInv /\ [Next]_vars => OrderInv'
  BY OrderStep, AcceptedOnce, MixStays DEF OrderInv
<1>3. OrderInv => RunsInOrder
  BY DEF OrderInv, InLine, Sorted, RunsInOrder
<1> QED
  BY <1>1, <1>2, <1>3, CmdAlways, GuardAlways, PTL DEF Spec
=============================================================================
