----------------------- MODULE SnapshotHistoryProofs -----------------------
(***************************************************************************)
(* Proofs about SnapshotHistory, for any texts, entries and seconds and    *)
(* with crashes anywhere.  For any number of apply threads: the types, and *)
(* that a listed snapshot has its file.  With one apply at a time: a       *)
(* rollback writes what the page showed.  Without applies: what was        *)
(* recorded stays listed, and, where the commands are taken in turn, the   *)
(* history implements VersionedConfig.                                     *)
(***************************************************************************)
EXTENDS SnapshotHistory, FiniteSetTheorems, TLAPS

USE DEF context

HaveFiles(S) == \A m \in S : Id(m) \in DOMAIN files

\* What a thread holds on to is on disk already.
ThreadInv(t) == /\ HaveFiles(idx[t])
                /\ pc[t] = "read target" => job[t].of \in DOMAIN files
                /\ pc[t] \in {"write tmp", "rename tmp"} => fd[t] \in Inodes

IInv == /\ TypeOK
        /\ ListedHaveFiles
        /\ \A t \in Threads : ThreadInv(t)

-----------------------------------------------------------------------------
\* upsert_snapshot adds at most the new entry (history.rs:42-49).
LEMMA UpsertAdds ==
  ASSUME NEW index, NEW m
  PROVE  Upsert(index, m) \subseteq index \cup {m}
BY DEF Upsert

\* What list_snapshots answers is a set of entries that have their files.
LEMMA IndexHasFiles ==
  ASSUME TypeOK, ListedHaveFiles
  PROVE  /\ IndexOrDefault \in SUBSET Metas /\ HaveFiles(IndexOrDefault)
         /\ Index # Torn => Index \in SUBSET Metas /\ HaveFiles(Index)
BY DEF TypeOK, IndexOK, ListedHaveFiles, IndexOrDefault, Index, HaveFiles

\* The ids of entries are ids.
LEMMA IdType == \A m \in Metas : Id(m) \in Ids
BY DEF Metas, Ids, Id

\* The locals of a resting thread are well typed.
LEMMA IdleType == Idle \in Jobs
BY DocsAssumption, BoundAssumption DEF Idle, Jobs, Texts, AllLabels, Ids, Times

-----------------------------------------------------------------------------
LEMMA InitInv == Init => IInv
<1> SUFFICES ASSUME Init PROVE IInv
  OBVIOUS
<1>1. Idle \in Jobs
  BY IdleType
<1>2. DOMAIN files = {} /\ DOMAIN shown = {}
  BY DEF Init
<1>3. TypeOK
  <2>1. /\ mix \in Mixes /\ clock \in Times /\ config \in Texts
        /\ crashes \in 0..MaxCrashes
    BY DocsAssumption, BoundAssumption DEF Init, Times, Texts
  <2>2. FilesOK /\ ShownOK
    BY <1>2 DEF FilesOK, ShownOK
  <2>3. IndexOK
    BY DEF Init, IndexOK
  <2>4. ThreadsOK
    BY <1>1 DEF Init, ThreadsOK, Places
  <2>5. GhostsOK
    BY DocsAssumption DEF Init, GhostsOK, Texts
  <2> QED
    BY <2>1, <2>2, <2>3, <2>4, <2>5 DEF TypeOK
<1>4. ListedHaveFiles
  BY DEF Init, ListedHaveFiles
<1>5. \A t \in Threads : ThreadInv(t)
  BY DEF Init, ThreadInv, HaveFiles
<1> QED
  BY <1>3, <1>4, <1>5 DEF IInv

\* The locals of one thread change and nothing on disk does.
LEMMA LocalStep ==
  ASSUME IInv, NEW t \in Threads,
         UNCHANGED <<clock, disk, shown, ghosts, context>>,
         NEW l \in Places, pc' = [pc EXCEPT ![t] = l],
         ThreadsOK',
         HaveFiles(idx'[t]),
         l = "read target" => job'[t].of \in DOMAIN files,
         l \notin {"write tmp", "rename tmp"},
         \A o \in Threads \ {t} : /\ idx'[o] = idx[o] /\ job'[o] = job[o]
                                  /\ fd'[o] = fd[o]
  PROVE  IInv'
<1>1. TypeOK'
  BY DEF IInv, TypeOK, disk, ghosts, FilesOK, IndexOK, ShownOK, GhostsOK
<1>2. ListedHaveFiles'
  BY DEF IInv, ListedHaveFiles, disk
<1>3. ASSUME NEW o \in Threads PROVE ThreadInv(o)'
  <2>1. files' = files /\ pc \in [Threads -> Places]
    BY DEF disk, IInv, TypeOK, ThreadsOK
  <2>2. CASE o = t
    BY <2>1, <2>2 DEF ThreadInv, HaveFiles
  <2>3. CASE o # t
    BY <2>1, <2>3 DEF IInv, ThreadInv, HaveFiles
  <2> QED
    BY <2>2, <2>3
<1> QED
  BY <1>1, <1>2, <1>3 DEF IInv

\* A thread's call returns; openclaw.json may have changed just before.
LEMMA ReturnStep ==
  ASSUME IInv, NEW t \in Threads, Return(t),
         config' \in Texts, GhostsOK',
         fd' = fd,
         UNCHANGED <<clock, files, inode, meta, tmp, shown, context>>
  PROVE  IInv'
<1>1. ThreadsOK'
  BY IdleType DEF Return, IInv, TypeOK, ThreadsOK, Places
<1>2. TypeOK'
  BY <1>1 DEF IInv, TypeOK, FilesOK, IndexOK, ShownOK
<1>3. ListedHaveFiles'
  BY DEF IInv, ListedHaveFiles
<1>4. \A o \in Threads : ThreadInv(o)'
  BY DEF Return, IInv, TypeOK, ThreadsOK, ThreadInv, HaveFiles
<1> QED
  BY <1>2, <1>3, <1>4 DEF IInv
-----------------------------------------------------------------------------
(* The commands of the main thread *)

LEMMA StartWriteInv ==
  ASSUME IInv, NEW l \in Labels, NEW x \in Docs, StartWrite(l, x)
  PROVE  IInv'
<1>1. job'[Main] \in Jobs
  <2>1. job'[Main] = [Idle EXCEPT !.label = l, !.before = ReadConfig, !.after = x]
    BY DEF StartWrite, IInv, TypeOK, ThreadsOK, Threads
  <2>2. ReadConfig \in Texts /\ x \in Texts /\ l \in AllLabels
    BY DocsAssumption DEF ReadConfig, IInv, TypeOK, Texts, AllLabels
  <2> QED
    BY <2>1, <2>2, IdleType DEF Jobs
<1>2. ThreadsOK'
  BY <1>1 DEF StartWrite, Goto, IInv, TypeOK, ThreadsOK, Places, Threads
<1> QED
  BY <1>2, LocalStep DEF StartWrite, Goto, IInv, TypeOK, ThreadsOK, ThreadInv,
     Places, Threads

LEMMA ListHistoryInv ==
  ASSUME IInv, ListHistory
  PROVE  IInv'
<1>1. Index \in SUBSET Metas /\ HaveFiles(Index)
  BY IndexHasFiles DEF IInv, ListHistory
<1>2. ShownOK'
  <2>1. DOMAIN shown' = Index
    BY DEF ListHistory
  <2>2. ASSUME NEW m \in Index PROVE shown'[m] \in Texts
    BY <1>1 DEF ListHistory, HaveFiles, IInv, TypeOK, FilesOK
  <2> QED
    BY <1>1, <2>1, <2>2 DEF ShownOK
<1>3. TypeOK'
  BY <1>2 DEF ListHistory, IInv, TypeOK, FilesOK, IndexOK, ThreadsOK, GhostsOK,
     disk, thread, ghosts
<1>4. ListedHaveFiles' /\ \A t \in Threads : ThreadInv(t)'
  BY DEF ListHistory, IInv, ListedHaveFiles, ThreadInv, HaveFiles, disk, thread
<1> QED
  BY <1>3, <1>4 DEF IInv

LEMMA StartRollbackInv ==
  ASSUME IInv, NEW m, StartRollback(m)
  PROVE  IInv'
<1>1. PICK e \in Index : job' = [job EXCEPT ![Main] =
         [Idle EXCEPT !.label = e.label, !.source = "rollback", !.of = Id(e)]]
  BY DEF StartRollback
<1>2. e \in Metas /\ Id(e) \in Ids /\ Id(e) \in DOMAIN files
  BY IndexHasFiles, IdType DEF IInv, StartRollback, HaveFiles
<1>3. job'[Main] \in Jobs /\ job'[Main].of \in DOMAIN files
  <2>1. job'[Main] =
          [Idle EXCEPT !.label = e.label, !.source = "rollback", !.of = Id(e)]
    BY <1>1 DEF IInv, TypeOK, ThreadsOK, Threads
  <2>2. e.label \in AllLabels
    BY <1>2 DEF Metas
  <2> QED
    BY <1>2, <2>1, <2>2, IdleType DEF Jobs
<1>4. ThreadsOK'
  BY <1>1, <1>3 DEF StartRollback, Goto, IInv, TypeOK, ThreadsOK, Places, Threads
<1> QED
  BY <1>1, <1>3, <1>4, LocalStep DEF StartRollback, Goto, IInv, TypeOK,
     ThreadsOK, ThreadInv, Places, Threads

LEMMA ReadTargetInv ==
  ASSUME IInv, ReadTarget
  PROVE  IInv'
<1>1. Main \in Threads /\ job[Main] \in Jobs /\ files[job[Main].of] \in Texts
  BY DEF ReadTarget, IInv, ThreadInv, TypeOK, ThreadsOK, FilesOK, Threads
<1>2. job'[Main] \in Jobs
  BY <1>1 DEF ReadTarget, Jobs, IInv, TypeOK, ThreadsOK
<1>3. ThreadsOK'
  BY <1>1, <1>2 DEF ReadTarget, Goto, IInv, TypeOK, ThreadsOK, Places
<1> QED
  BY <1>1, <1>3, LocalStep DEF ReadTarget, Goto, IInv, TypeOK, ThreadsOK,
     ThreadInv, Places

LEMMA ReadBackupInv ==
  ASSUME IInv, ReadBackup
  PROVE  IInv'
<1>1. Main \in Threads /\ job[Main] \in Jobs /\ ReadConfig \in Texts
  BY DocsAssumption DEF ReadConfig, IInv, TypeOK, ThreadsOK, Texts, Threads
<1>2. job'[Main] \in Jobs
  BY <1>1 DEF ReadBackup, Jobs, IInv, TypeOK, ThreadsOK
<1>3. ThreadsOK'
  BY <1>1, <1>2 DEF ReadBackup, Goto, IInv, TypeOK, ThreadsOK, Places
<1> QED
  BY <1>1, <1>3, LocalStep DEF ReadBackup, Goto, IInv, TypeOK, ThreadsOK,
     ThreadInv, Places

LEMMA WriteConfigInv ==
  ASSUME IInv, WriteConfig
  PROVE  IInv'
<1>1. Main \in Threads /\ job[Main].after \in Texts
  BY DEF IInv, TypeOK, ThreadsOK, Jobs, Threads
<1>2. GhostsOK'
  <2>1. mistaken' \in BOOLEAN
    BY DEF WriteConfig, IInv, TypeOK, GhostsOK
  <2> QED
    BY <1>1, <2>1 DEF WriteConfig, IInv, TypeOK, GhostsOK
<1> QED
  BY <1>1, <1>2, ReturnStep DEF WriteConfig

LEMMA WriteConfigErrorInv ==
  ASSUME IInv, WriteConfigError
  PROVE  IInv'
BY ReturnStep DEF WriteConfigError, IInv, TypeOK, GhostsOK, disk, ghosts, Threads

-----------------------------------------------------------------------------
(* An apply of the pending queue *)

LEMMA StartApplyInv ==
  ASSUME IInv, NEW t \in Applies, NEW x \in Docs, StartApply(t, x)
  PROVE  IInv'
<1>1. t \in Threads /\ job'[t] \in Jobs
  <2>1. t \in Threads /\ job'[t] = [Idle EXCEPT !.before = config, !.after = x]
    BY DEF StartApply, IInv, TypeOK, ThreadsOK, Threads
  <2>2. config \in Texts /\ x \in Texts
    BY DEF IInv, TypeOK, Texts
  <2> QED
    BY <2>1, <2>2, IdleType DEF Jobs
<1>2. ThreadsOK'
  BY <1>1 DEF StartApply, Goto, IInv, TypeOK, ThreadsOK, Places
<1> QED
  BY <1>1, <1>2, LocalStep DEF StartApply, Goto, IInv, TypeOK, ThreadsOK,
     ThreadInv, Places

LEMMA ApplyChangeInv ==
  ASSUME IInv, NEW t \in Applies, ApplyChange(t)
  PROVE  IInv'
<1>1. t \in Threads /\ job[t].after \in Texts
  BY DEF IInv, TypeOK, ThreadsOK, Jobs, Threads
<1>2. TypeOK'
  BY <1>1 DEF ApplyChange, Goto, IInv, TypeOK, FilesOK, IndexOK, ThreadsOK,
     ShownOK, GhostsOK, Places
<1>3. ListedHaveFiles' /\ \A o \in Threads : ThreadInv(o)'
  BY DEF ApplyChange, Goto, IInv, TypeOK, ThreadsOK, ListedHaveFiles, ThreadInv,
     HaveFiles
<1> QED
  BY <1>2, <1>3 DEF IInv

LEMMA ApplyEndInv ==
  ASSUME IInv, NEW t \in Applies, ApplyEnd(t)
  PROVE  IInv'
<1>1. t \in Threads /\ config' \in Texts
  BY DEF ApplyEnd, IInv, TypeOK, ThreadsOK, Jobs, Threads
<1> QED
  BY <1>1, ReturnStep DEF ApplyEnd, IInv, TypeOK, GhostsOK, ghosts
-----------------------------------------------------------------------------
(* add_snapshot *)

LEMMA ReadIndexInv ==
  ASSUME IInv, NEW t \in Threads, ReadIndex(t)
  PROVE  IInv'
<1>1. IndexOrDefault \in SUBSET Metas /\ HaveFiles(IndexOrDefault)
  BY IndexHasFiles DEF IInv
<1>2. ThreadsOK'
  BY <1>1 DEF ReadIndex, Goto, IInv, TypeOK, ThreadsOK, Places
<1>3. HaveFiles(idx'[t])
  BY <1>1 DEF ReadIndex, IInv, TypeOK, ThreadsOK
<1> QED
  BY <1>2, <1>3, LocalStep DEF ReadIndex, Goto, IInv, TypeOK, ThreadsOK,
     ThreadInv, Places

LEMMA SaveFileInv ==
  ASSUME IInv, NEW t \in Threads, SaveFile(t)
  PROVE  IInv'
<1> DEFINE n == NewMeta(t)
<1>1. n \in Metas /\ Id(n) \in Ids /\ job[t] \in Jobs
  <2>1. job[t] \in Jobs /\ clock \in Times
    BY DEF IInv, TypeOK, ThreadsOK
  <2>2. n \in Metas
    BY <2>1 DEF NewMeta, Metas, Jobs
  <2> QED
    BY <2>1, <2>2, IdType
<1>2. DOMAIN files' = DOMAIN files \cup {Id(n)}
  BY DEF SaveFile
<1>3. FilesOK'
  <2>1. job[t].before \in Texts
    BY <1>1 DEF Jobs
  <2>2. ASSUME NEW i \in DOMAIN files' PROVE files'[i] \in Texts
    BY <1>2, <2>1 DEF SaveFile, IInv, TypeOK, FilesOK
  <2> QED
    BY <1>1, <1>2, <2>2 DEF IInv, TypeOK, FilesOK
<1>4. idx'[t] \subseteq idx[t] \cup {n}
  <2>1. idx'[t] = Upsert(idx[t], n)
    BY DEF SaveFile, IInv, TypeOK, ThreadsOK
  <2> QED
    BY <2>1, UpsertAdds
<1>5. ThreadsOK'
  <2>1. idx' \in [Threads -> SUBSET Metas]
    BY <1>1, <1>4 DEF SaveFile, IInv, TypeOK, ThreadsOK
  <2>2. job' \in [Threads -> Jobs]
    BY <1>1 DEF SaveFile, Jobs, IInv, TypeOK, ThreadsOK
  <2> QED
    BY <2>1, <2>2 DEF SaveFile, Goto, IInv, TypeOK, ThreadsOK, Places
<1>6. TypeOK'
  BY <1>3, <1>5 DEF SaveFile, IInv, TypeOK, IndexOK, ShownOK, GhostsOK, ghosts
<1>7. ListedHaveFiles'
  <2>1. inode' = inode
    BY DEF SaveFile
  <2> QED
    BY <1>2, <2>1 DEF IInv, ListedHaveFiles
<1>8. ASSUME NEW o \in Threads PROVE ThreadInv(o)'
  <2>1. HaveFiles(idx[o]) /\ fd' = fd
    BY DEF SaveFile, IInv, ThreadInv
  <2>2. CASE o = t
    <3>1. HaveFiles(idx[o])'
      BY <1>2, <1>4, <2>1, <2>2 DEF HaveFiles
    <3>2. pc'[o] = "create tmp"
      BY <2>2 DEF SaveFile, Goto, IInv, TypeOK, ThreadsOK
    <3> QED
      BY <3>1, <3>2 DEF ThreadInv
  <2>3. CASE o # t
    <3>1. idx'[o] = idx[o] /\ pc'[o] = pc[o] /\ job'[o] = job[o]
      BY <2>3 DEF SaveFile, Goto, IInv, TypeOK, ThreadsOK
    <3> QED
      BY <1>2, <2>1, <3>1 DEF IInv, ThreadInv, HaveFiles
  <2> QED
    BY <2>2, <2>3
<1> QED
  BY <1>6, <1>7, <1>8 DEF IInv

\* An add_snapshot that fails leaves the disk alone.
LEMMA SaveFailsInv ==
  ASSUME IInv, NEW t \in Threads, SaveFails(t),
         \/ fd' = fd
         \/ fd' = [fd EXCEPT ![t] = NoInode],
         UNCHANGED <<clock, disk, shown, ghosts, context>>
  PROVE  IInv'
<1>1. ThreadsOK'
  BY IdleType DEF SaveFails, Return, Goto, IInv, TypeOK, ThreadsOK, Places
<1>2. TypeOK'
  BY <1>1 DEF IInv, TypeOK, FilesOK, IndexOK, ShownOK, GhostsOK, disk, ghosts
<1>3. ListedHaveFiles'
  BY DEF IInv, ListedHaveFiles, disk
<1>4. ASSUME NEW o \in Threads PROVE ThreadInv(o)'
  <2>1. files' = files
    BY DEF disk
  <2>2. CASE o = t
    <3>1. pc'[o] \in {"idle", "save failed"} /\ idx'[o] \in {idx[o], {}}
      BY <2>2 DEF SaveFails, Return, Goto, IInv, TypeOK, ThreadsOK
    <3> QED
      BY <2>1, <3>1 DEF IInv, ThreadInv, HaveFiles
  <2>3. CASE o # t
    <3>1. /\ pc'[o] = pc[o] /\ idx'[o] = idx[o] /\ job'[o] = job[o]
          /\ fd'[o] = fd[o]
      BY <2>3 DEF SaveFails, Return, Goto, IInv, TypeOK, ThreadsOK
    <3> QED
      BY <2>1, <3>1 DEF IInv, ThreadInv, HaveFiles
  <2> QED
    BY <2>2, <2>3
<1> QED
  BY <1>2, <1>3, <1>4 DEF IInv

LEMMA CreateTmpInv ==
  ASSUME IInv, NEW t \in Threads, CreateTmp(t)
  PROVE  IInv'
<1>1. PICK i \in Inodes : /\ inode' = [inode EXCEPT ![i] = {}]
                         /\ tmp' = i
                         /\ fd' = [fd EXCEPT ![t] = i]
  BY DEF CreateTmp, FreeInodes, IInv, TypeOK, IndexOK
<1>2. TypeOK'
  <2>1. IndexOK'
    BY <1>1 DEF CreateTmp, IInv, TypeOK, IndexOK
  <2>2. ThreadsOK'
    BY <1>1 DEF CreateTmp, Goto, IInv, TypeOK, ThreadsOK, Places
  <2> QED
    BY <2>1, <2>2 DEF CreateTmp, IInv, TypeOK, FilesOK, ShownOK, GhostsOK, ghosts
<1>3. ListedHaveFiles'
  BY <1>1 DEF CreateTmp, IInv, TypeOK, IndexOK, ListedHaveFiles
<1>4. \A o \in Threads : ThreadInv(o)'
  BY <1>1 DEF CreateTmp, Goto, IInv, TypeOK, ThreadsOK, ThreadInv, HaveFiles
<1> QED
  BY <1>2, <1>3, <1>4 DEF IInv

LEMMA WriteTmpInv ==
  ASSUME IInv, NEW t \in Threads, WriteTmp(t)
  PROVE  IInv'
<1>1. PICK c \in {idx[t], Torn} : inode' = [inode EXCEPT ![fd[t]] = c]
  BY DEF WriteTmp
<1>2. idx[t] \in SUBSET Metas /\ HaveFiles(idx[t]) /\ fd[t] \in Inodes
  BY DEF WriteTmp, IInv, TypeOK, ThreadsOK, ThreadInv
<1>3. TypeOK'
  <2>1. IndexOK'
    BY <1>1, <1>2 DEF WriteTmp, IInv, TypeOK, IndexOK
  <2>2. ThreadsOK'
    BY DEF WriteTmp, Goto, IInv, TypeOK, ThreadsOK, Places
  <2> QED
    BY <2>1, <2>2 DEF WriteTmp, IInv, TypeOK, FilesOK, ShownOK, GhostsOK, ghosts
<1>4. ListedHaveFiles'
  BY <1>1, <1>2 DEF WriteTmp, IInv, TypeOK, IndexOK, ListedHaveFiles, HaveFiles
<1>5. \A o \in Threads : ThreadInv(o)'
  BY <1>2 DEF WriteTmp, Goto, IInv, TypeOK, ThreadsOK, ThreadInv, HaveFiles
<1> QED
  BY <1>3, <1>4, <1>5 DEF IInv

LEMMA RenameTmpInv ==
  ASSUME IInv, NEW t \in Threads, RenameTmp(t)
  PROVE  IInv'
<1>1. TypeOK'
  <2>1. IndexOK'
    BY DEF RenameTmp, IInv, TypeOK, IndexOK
  <2>2. ThreadsOK'
    BY DEF RenameTmp, Goto, IInv, TypeOK, ThreadsOK, Places
  <2>3. GhostsOK'
    BY DEF RenameTmp, IInv, TypeOK, ThreadsOK, GhostsOK
  <2> QED
    BY <2>1, <2>2, <2>3 DEF RenameTmp, IInv, TypeOK, FilesOK, ShownOK
<1>2. ListedHaveFiles' /\ \A o \in Threads : ThreadInv(o)'
  BY DEF RenameTmp, Goto, IInv, TypeOK, ThreadsOK, ListedHaveFiles, ThreadInv,
     HaveFiles
<1> QED
  BY <1>1, <1>2 DEF IInv

-----------------------------------------------------------------------------
LEMMA StepInv == IInv /\ [Next]_vars => IInv'
<1> SUFFICES ASSUME IInv, [Next]_vars PROVE IInv'
  OBVIOUS
<1> Main \in Threads /\ Applies \subseteq Threads
  BY DEF Threads
<1>1. CASE Tick
  <2>1. clock' \in Times
    BY <1>1, BoundAssumption DEF Tick, IInv, TypeOK, Times
  <2>2. TypeOK'
    BY <1>1, <2>1 DEF Tick, IInv, TypeOK, FilesOK, IndexOK, ThreadsOK, ShownOK,
       GhostsOK, disk, thread, ghosts
  <2> QED
    BY <1>1, <2>2 DEF Tick, IInv, ListedHaveFiles, ThreadInv, HaveFiles, disk,
       thread
<1>2. ASSUME NEW x \in BadDocs, HandEdit(x) PROVE IInv'
  <2>1. TypeOK'
    BY <1>2 DEF HandEdit, IInv, TypeOK, FilesOK, IndexOK, ThreadsOK, ShownOK,
       GhostsOK, thread, Texts
  <2> QED
    BY <1>2, <2>1 DEF HandEdit, IInv, ListedHaveFiles, ThreadInv, HaveFiles,
       thread
<1>3. ASSUME NEW l \in Labels, NEW x \in Docs, StartWrite(l, x) PROVE IInv'
  BY <1>3, StartWriteInv
<1>4. ASSUME NEW m \in DOMAIN shown, StartRollback(m) PROVE IInv'
  BY <1>4, StartRollbackInv
<1>5. CASE ListHistory \/ ReadTarget \/ ReadBackup \/ WriteConfig \/ WriteConfigError
  BY <1>5, ListHistoryInv, ReadTargetInv, ReadBackupInv, WriteConfigInv,
     WriteConfigErrorInv
<1>6. ASSUME NEW t \in Applies, NEW x \in Docs, StartApply(t, x) PROVE IInv'
  BY <1>6, StartApplyInv
<1>7. ASSUME NEW t \in Applies, ApplyChange(t) \/ ApplyEnd(t) PROVE IInv'
  BY <1>7, ApplyChangeInv, ApplyEndInv
<1>8. ASSUME NEW t \in Threads, AddSnapshot(t) PROVE IInv'
  <2>1. CASE ReadIndex(t) \/ SaveFile(t) \/ CreateTmp(t) \/ WriteTmp(t) \/ RenameTmp(t)
    BY <2>1, ReadIndexInv, SaveFileInv, CreateTmpInv, WriteTmpInv, RenameTmpInv
  <2>2. CASE SaveFileError(t)
    BY <2>2, SaveFailsInv DEF SaveFileError
  <2>3. CASE RenameError(t)
    BY <2>3, SaveFailsInv DEF RenameError
  <2> QED
    BY <1>8, <2>1, <2>2, <2>3 DEF AddSnapshot
<1>9. CASE Crash
  <2>1. crashes' \in 0..MaxCrashes
    BY <1>9, BoundAssumption DEF Crash, IInv, TypeOK
  <2>2. ThreadsOK'
    BY <1>9, IdleType DEF Crash, ThreadsOK, Places
  <2>3. ShownOK'
    BY <1>9 DEF Crash, ShownOK
  <2>4. TypeOK'
    BY <1>9, <2>1, <2>2, <2>3 DEF Crash, IInv, TypeOK, FilesOK, IndexOK,
       GhostsOK, disk, ghosts
  <2> QED
    BY <1>9, <2>4 DEF Crash, IInv, ListedHaveFiles, ThreadInv, HaveFiles, disk
<1>10. CASE UNCHANGED vars
  <2>1. TypeOK'
    BY <1>10 DEF vars, disk, thread, ghosts, IInv, TypeOK, FilesOK, IndexOK,
       ThreadsOK, ShownOK, GhostsOK
  <2> QED
    BY <1>10, <2>1 DEF vars, disk, thread, IInv, ListedHaveFiles, ThreadInv,
       HaveFiles
<1> QED
  BY <1>1, <1>2, <1>3, <1>4, <1>5, <1>6, <1>7, <1>8, <1>9, <1>10 DEF Next

LEMMA AlwaysInv == Spec => []IInv
BY InitInv, StepInv, PTL DEF Spec

\* Every reachable state is well typed, for any number of threads.
THEOREM TypeCorrect == Spec => []TypeOK
<1>1. IInv => TypeOK
  BY DEF IInv
<1> QED
  BY <1>1, AlwaysInv, PTL

\* Whatever threads overlap and wherever the application stops, a snapshot
\* that the index lists has its file (history.rs:107-124).
THEOREM ListedSnapshotsHaveFiles == Spec => []ListedHaveFiles
<1>1. IInv => ListedHaveFiles
  BY DEF IInv
<1> QED
  BY <1>1, AlwaysInv, PTL
-----------------------------------------------------------------------------
(* upsert_snapshot *)

\* A set of numbers that is not empty has a least one.  The intervals from 0
\* to its members up to one of them, n, are subsets of the finite set 0..n,
\* so one of these has none of the others below it.
LEMMA LeastNumber ==
  ASSUME NEW T \in SUBSET Nat, T # {}
  PROVE  \E m \in T : \A k \in T : m <= k
<1>1. PICK n \in T : TRUE
  OBVIOUS
<1> DEFINE R == StrictSubsetOrdering(0..n)
           S == FiniteSubsetsOf(0..n)
           U == {0..m : m \in {i \in T : i <= n}}
<1>2. IsWellFoundedOn(R, S)
  BY FS_StrictSubsetOrderingWellFounded
<1>3. U \subseteq S /\ U # {}
  <2>1. ASSUME NEW m \in T, m <= n PROVE 0..m \in S
    BY <2>1, FS_Interval DEF FiniteSubsetsOf
  <2> QED
    BY <1>1, <2>1
<1>4. PICK x \in U : \A y \in U : ~(<<y, x>> \in R)
  <2> HIDE DEF R, S, U
  <2> QED
    BY <1>2, <1>3, WFMin
<1>5. PICK m \in T : m <= n /\ x = 0..m
  BY <1>4
<1>6. ASSUME NEW k \in T, k < m PROVE FALSE
  <2>1. 0..k \in U
    BY <1>1, <1>5, <1>6
  <2>2. <<0..k, 0..m>> \in R
    <3>1. 0..k \subseteq 0..m /\ 0..k # 0..m /\ 0..k \subseteq 0..n /\ 0..m \subseteq 0..n
      BY <1>1, <1>5, <1>6
    <3> QED
      BY <3>1 DEF StrictSubsetOrdering
  <2> QED
    BY <1>4, <1>5, <2>1, <2>2
<1> QED
  BY <1>5, <1>6

\* No two entries have one id.
Unique(S) == \A m, n \in S : Id(m) = Id(n) => m = n

\* The list with the new entry, before it is cut to Cap.
Extended(index, m) == {e \in index : Id(e) # Id(m)} \cup {m}
Oldest(S, l) == l \in S /\ \A o \in S : l.at <= o.at

LEMMA OldestExists ==
  ASSUME NEW S \in SUBSET Metas, S # {}
  PROVE  \E l : Oldest(S, l)
<1> DEFINE T == {m.at : m \in S}
<1>1. T \in SUBSET Nat /\ T # {}
  BY BoundAssumption DEF Metas, Times
<1>2. PICK k \in T : \A o \in T : k <= o
  <2> HIDE DEF T
  <2> QED
    BY <1>1, LeastNumber
<1>3. PICK l \in S : l.at = k
  BY <1>2
<1> QED
  BY <1>2, <1>3 DEF Oldest

LEMMA ExtendedShape ==
  ASSUME NEW index \in SUBSET Metas, IsFiniteSet(index), Unique(index),
         NEW m \in Metas
  PROVE  /\ Extended(index, m) \in SUBSET Metas
         /\ IsFiniteSet(Extended(index, m))
         /\ Unique(Extended(index, m))
         /\ Extended(index, m) \subseteq index \cup {m}
<1>1. IsFiniteSet({e \in index : Id(e) # Id(m)})
  BY FS_Subset
<1> QED
  BY <1>1, FS_AddElement DEF Extended, Unique

\* An upsert keeps the extended list, or all of it but its oldest entry when
\* it is longer than Cap (history.rs:42-49).
LEMMA UpsertShape ==
  ASSUME NEW index \in SUBSET Metas, IsFiniteSet(index), Unique(index),
         NEW m \in Metas
  PROVE  \/ Upsert(index, m) = Extended(index, m)
         \/ /\ Cardinality(Extended(index, m)) > Cap
            /\ \E l : /\ Oldest(Extended(index, m), l)
                      /\ Upsert(index, m) = Extended(index, m) \ {l}
<1> DEFINE A == Extended(index, m)
           l == CHOOSE e \in A : \A o \in A : e.at <= o.at
<1>1. Upsert(index, m) = IF Cardinality(A) > Cap THEN A \ {l} ELSE A
  BY DEF Upsert, Extended
<1>2. A \in SUBSET Metas /\ A # {}
  BY ExtendedShape DEF Extended
<1>3. \E e \in A : \A o \in A : e.at <= o.at
  <2> HIDE DEF A
  <2> QED
    BY <1>2, OldestExists DEF Oldest
<1>4. Oldest(A, l)
  <2> HIDE DEF A
  <2> QED
    BY <1>3 DEF Oldest
<1> QED
  BY <1>1, <1>4

LEMMA UpsertLists ==
  ASSUME NEW index \in SUBSET Metas, IsFiniteSet(index), Unique(index),
         NEW m \in Metas
  PROVE  IsFiniteSet(Upsert(index, m)) /\ Unique(Upsert(index, m))
<1>1. Upsert(index, m) \subseteq Extended(index, m)
  BY UpsertShape
<1>2. IsFiniteSet(Extended(index, m)) /\ Unique(Extended(index, m))
  BY ExtendedShape
<1> QED
  BY <1>1, <1>2, FS_Subset DEF Unique

\* The entries recorded are in S, or S is full of entries at least as new.
StayIn(S) ==
  \A m \in recorded :
    \/ \E e \in S : Id(e) = Id(m)
    \/ Cardinality({e \in S : e.at >= m.at}) >= Cap

\* The entries of S that are at least as new as m.
AsNew(S, m) == {e \in S : e.at >= m.at}

\* Extending a list loses no entry as new as m: the one of the new entry's id
\* is replaced by one of the same second.
LEMMA ExtendedAsNew ==
  ASSUME NEW index \in SUBSET Metas, IsFiniteSet(index), Unique(index),
         NEW n \in Metas, NEW m \in Metas
  PROVE  Cardinality(AsNew(index, m)) <= Cardinality(AsNew(Extended(index, n), m))
<1> DEFINE X == AsNew(index, m)
           Y == AsNew(Extended(index, n), m)
           f == [e \in X |-> IF Id(e) = Id(n) THEN n ELSE e]
<1>1. IsFiniteSet(Y)
  BY ExtendedShape, FS_Subset DEF AsNew
<1>2. f \in [X -> Y]
  <2>1. ASSUME NEW e \in X, Id(e) = Id(n) PROVE n \in Y
    BY <2>1 DEF AsNew, Extended, Id
  <2>2. ASSUME NEW e \in X, Id(e) # Id(n) PROVE e \in Y
    BY <2>2 DEF AsNew, Extended
  <2> QED
    BY <2>1, <2>2
<1>3. \A c, d \in X : f[c] = f[d] => c = d
  BY DEF AsNew, Unique
<1>4. f \in Injection(X, Y)
  BY <1>2, <1>3 DEF Injection, IsInjective
<1> HIDE DEF f, X, Y
<1>5. Cardinality(X) <= Cardinality(Y)
  BY <1>1, <1>4, FS_Injection
<1> QED
  BY <1>5 DEF X, Y

\* So what was to stay stays through an upsert: when an entry is dropped, the
\* Cap others are at least as new.
LEMMA UpsertStays ==
  ASSUME NEW index \in SUBSET Metas, IsFiniteSet(index), Unique(index),
         NEW n \in Metas, recorded \in SUBSET Metas, StayIn(index)
  PROVE  StayIn(Upsert(index, n))
<1> DEFINE A == Extended(index, n)
<1> SUFFICES ASSUME NEW m \in recorded
             PROVE  \/ \E e \in Upsert(index, n) : Id(e) = Id(m)
                    \/ Cardinality(AsNew(Upsert(index, n), m)) >= Cap
  BY DEF StayIn, AsNew
<1>1. /\ A \in SUBSET Metas /\ IsFiniteSet(A) /\ m \in Metas
      /\ Cap \in Nat /\ Cardinality(A) \in Nat
  BY ExtendedShape, FS_CardinalityType, CapAssumption
<1>2. \/ \E e \in A : Id(e) = Id(m)
      \/ Cardinality(AsNew(A, m)) >= Cap
  <2>1. CASE \E e \in index : Id(e) = Id(m)
    BY <2>1 DEF Extended
  <2>2. CASE Cardinality(AsNew(index, m)) >= Cap
    <3>1. Cardinality(AsNew(index, m)) \in Nat /\ Cardinality(AsNew(A, m)) \in Nat
      BY <1>1, FS_Subset, FS_CardinalityType DEF AsNew
    <3> QED
      BY <1>1, <2>2, <3>1, ExtendedAsNew
  <2> QED
    BY <2>1, <2>2 DEF StayIn, AsNew
<1>3. CASE Upsert(index, n) = A
  BY <1>2, <1>3
<1>4. ASSUME Cardinality(A) > Cap,
             NEW l, Oldest(A, l), Upsert(index, n) = A \ {l}
      PROVE  \/ \E e \in Upsert(index, n) : Id(e) = Id(m)
             \/ Cardinality(AsNew(Upsert(index, n), m)) >= Cap
  <2> HIDE DEF A
  <2>1. Cardinality(A \ {l}) >= Cap
    <3>1. Cardinality(A \ {l}) = Cardinality(A) - 1
      BY <1>1, <1>4, FS_RemoveElement DEF Oldest
    <3> QED
      BY <1>1, <1>4, <3>1
  <2>2. CASE l.at >= m.at
    <3>1. AsNew(A \ {l}, m) = A \ {l}
      BY <1>1, <1>4, <2>2, BoundAssumption DEF AsNew, Oldest, Metas, Times
    <3> QED
      BY <1>4, <2>1, <3>1
  <2>3. CASE ~(l.at >= m.at)
    <3>1. Id(l) # Id(m)
      BY <1>1, <1>4, <2>3, BoundAssumption DEF Id, Oldest, Metas, Times
    <3>2. AsNew(A \ {l}, m) = AsNew(A, m)
      BY <2>3 DEF AsNew
    <3> QED
      BY <1>2, <1>4, <3>1, <3>2
  <2> QED
    BY <2>2, <2>3
<1> QED
  BY <1>3, <1>4, UpsertShape

\* An entry newer than all of the list is added, and another leaves only when
\* the list is full.
LEMMA UpsertNewest ==
  ASSUME NEW index \in SUBSET Metas, IsFiniteSet(index), Unique(index),
         NEW n \in Metas, \A e \in index : e.at < n.at
  PROVE  /\ n \in Upsert(index, n)
         /\ Upsert(index, n) \subseteq index \cup {n}
         /\ index \subseteq Upsert(index, n) \/ Cardinality(index) >= Cap
<1> DEFINE A == Extended(index, n)
<1>1. A = index \cup {n} /\ n \notin index
  BY BoundAssumption DEF Extended, Id, Metas, Times
<1>2. CASE Upsert(index, n) = A
  BY <1>1, <1>2
<1>3. ASSUME Cardinality(A) > Cap,
             NEW l, Oldest(A, l), Upsert(index, n) = A \ {l}
      PROVE  n \in Upsert(index, n) /\ Cardinality(index) >= Cap
  <2>1. Cardinality(A) = Cardinality(index) + 1 /\ Cardinality(index) \in Nat
    BY <1>1, FS_AddElement, FS_CardinalityType
  <2>2. Cardinality(index) >= Cap
    BY <1>3, <2>1, CapAssumption
  <2>3. index # {}
    BY <2>2, FS_EmptySet, CapAssumption
  <2>4. l # n
    BY <1>1, <1>3, <2>3, BoundAssumption DEF Oldest, Metas, Times
  <2> QED
    BY <1>1, <1>3, <2>2, <2>4
<1> QED
  BY <1>1, <1>2, <1>3, UpsertShape

-----------------------------------------------------------------------------
(* The lists of entries *)

\* Indexes, on disk or in hand, are finite and list an id once; what the page
\* shows has its files, and no file is of a second to come.
ListsInv ==
  /\ \A i \in Inodes : inode[i] # Torn => IsFiniteSet(inode[i]) /\ Unique(inode[i])
  /\ \A t \in Threads : IsFiniteSet(idx[t]) /\ Unique(idx[t])
  /\ Unique(DOMAIN shown)
  /\ \A m \in DOMAIN shown : Id(m) \in DOMAIN files
  /\ \A i \in DOMAIN files : i.at <= clock

LEMMA EmptyList == IsFiniteSet({}) /\ Unique({})
BY FS_EmptySet DEF Unique

LEMMA IndexListed ==
  ASSUME IInv, ListsInv
  PROVE  /\ IsFiniteSet(IndexOrDefault) /\ Unique(IndexOrDefault)
         /\ Index # Torn => IsFiniteSet(Index) /\ Unique(Index)
BY EmptyList DEF IInv, TypeOK, IndexOK, ListsInv, IndexOrDefault, Index

LEMMA ListsInit == Init => ListsInv
<1> SUFFICES ASSUME Init PROVE ListsInv
  OBVIOUS
<1>1. DOMAIN files = {} /\ DOMAIN shown = {}
  BY DEF Init
<1> QED
  BY <1>1, EmptyList DEF Init, ListsInv

\* A step that leaves the lists as they are, or drops one in hand.
QuietStep == /\ UNCHANGED <<files, inode, clock, shown>>
             /\ \A t \in Threads : idx'[t] \in {idx[t], {}}

LEMMA ListsQuiet ==
  ASSUME ListsInv, QuietStep
  PROVE  ListsInv'
BY EmptyList DEF ListsInv, QuietStep

\* The steps that are not quiet.
ListStep(t) == ReadIndex(t) \/ SaveFile(t) \/ CreateTmp(t) \/ WriteTmp(t)

LEMMA ListSteps ==
  ASSUME IInv, [Next]_vars
  PROVE  \/ Tick \/ ListHistory \/ Crash
         \/ \E t \in Threads : ListStep(t)
         \/ QuietStep
<1> Main \in Threads /\ Applies \subseteq Threads /\ DOMAIN idx = Threads
  BY DEF Threads, IInv, TypeOK, ThreadsOK
<1>1. ASSUME NEW x \in BadDocs, HandEdit(x) PROVE QuietStep
  BY <1>1 DEF HandEdit, QuietStep, thread
<1>2. ASSUME NEW l \in Labels, NEW x \in Docs, StartWrite(l, x) PROVE QuietStep
  BY <1>2 DEF StartWrite, QuietStep, disk
<1>3. ASSUME NEW m \in DOMAIN shown, StartRollback(m) PROVE QuietStep
  BY <1>3 DEF StartRollback, QuietStep, disk
<1>4. ASSUME ReadTarget \/ ReadBackup PROVE QuietStep
  BY <1>4 DEF ReadTarget, ReadBackup, QuietStep, disk
<1>5. ASSUME WriteConfig \/ WriteConfigError PROVE QuietStep
  BY <1>5 DEF WriteConfig, WriteConfigError, Return, QuietStep, disk
<1>6. ASSUME NEW t \in Applies, NEW x \in Docs, StartApply(t, x) PROVE QuietStep
  BY <1>6 DEF StartApply, QuietStep, disk
<1>7. ASSUME NEW t \in Applies, ApplyChange(t) \/ ApplyEnd(t) PROVE QuietStep
  BY <1>7 DEF ApplyChange, ApplyEnd, Return, QuietStep
<1>8. ASSUME NEW t \in Threads, SaveFileError(t) \/ RenameError(t) PROVE QuietStep
  BY <1>8 DEF SaveFileError, RenameError, SaveFails, Return, QuietStep, disk
<1>9. ASSUME NEW t \in Threads, RenameTmp(t) PROVE QuietStep
  BY <1>9 DEF RenameTmp, QuietStep
<1>10. ASSUME UNCHANGED vars PROVE QuietStep
  BY <1>10 DEF vars, disk, thread, QuietStep
<1> QED
  BY <1>1, <1>2, <1>3, <1>4, <1>5, <1>6, <1>7, <1>8, <1>9, <1>10
     DEF Next, AddSnapshot, ListStep

\* What a thread has to know of the entry it saves.
LEMMA NewMetaType ==
  ASSUME IInv, NEW t \in Threads
  PROVE  /\ NewMeta(t) \in Metas
         /\ Id(NewMeta(t)) = [at |-> clock, label |-> job[t].label]
<1>1. job[t] \in Jobs /\ clock \in Times
  BY DEF IInv, TypeOK, ThreadsOK
<1> QED
  BY <1>1 DEF NewMeta, Metas, Jobs, Id

LEMMA SaveFileLists ==
  ASSUME IInv, ListsInv, NEW t \in Threads, SaveFile(t)
  PROVE  ListsInv'
<1> DEFINE n == NewMeta(t)
<1>1. n \in Metas /\ Id(n).at = clock /\ idx[t] \in SUBSET Metas /\ clock \in Nat
  BY NewMetaType, BoundAssumption DEF IInv, TypeOK, ThreadsOK, Times
<1>2. idx' = [idx EXCEPT ![t] = Upsert(idx[t], n)] /\ idx \in [Threads -> SUBSET Metas]
  BY DEF SaveFile, IInv, TypeOK, ThreadsOK
<1>3. IsFiniteSet(Upsert(idx[t], n)) /\ Unique(Upsert(idx[t], n))
  BY <1>1, UpsertLists DEF ListsInv
<1>4. DOMAIN files' = DOMAIN files \cup {Id(n)}
  BY DEF SaveFile
<1>5. UNCHANGED <<inode, clock, shown>>
  BY DEF SaveFile
<1> QED
  BY <1>1, <1>2, <1>3, <1>4, <1>5 DEF ListsInv

LEMMA ListsStep == IInv /\ ListsInv /\ [Next]_vars => ListsInv'
<1> SUFFICES ASSUME IInv, ListsInv, [Next]_vars PROVE ListsInv'
  OBVIOUS
<1>1. CASE Tick
  <2>1. clock' = clock + 1 /\ clock \in Nat /\ \A i \in DOMAIN files : i.at \in Nat
    BY <1>1, BoundAssumption DEF Tick, IInv, TypeOK, FilesOK, Ids, Times
  <2> QED
    BY <1>1, <2>1 DEF Tick, ListsInv, disk, thread
<1>2. CASE ListHistory
  <2>1. DOMAIN shown' = Index
    BY <1>2 DEF ListHistory
  <2>2. Unique(Index) /\ HaveFiles(Index)
    BY <1>2, IndexListed, IndexHasFiles DEF IInv, ListHistory
  <2> QED
    BY <1>2, <2>1, <2>2 DEF ListHistory, ListsInv, HaveFiles, disk, thread
<1>3. CASE Crash
  <2>1. DOMAIN shown' = {}
    BY <1>3 DEF Crash
  <2> QED
    BY <1>3, <2>1, EmptyList DEF Crash, ListsInv, disk
<1>4. ASSUME NEW t \in Threads, ReadIndex(t) PROVE ListsInv'
  <2>1. IsFiniteSet(IndexOrDefault) /\ Unique(IndexOrDefault)
    BY IndexListed
  <2> QED
    BY <1>4, <2>1 DEF ReadIndex, ListsInv, disk, IInv, TypeOK, ThreadsOK
<1>5. ASSUME NEW t \in Threads, SaveFile(t) PROVE ListsInv'
  BY <1>5, SaveFileLists
<1>6. ASSUME NEW t \in Threads, CreateTmp(t) PROVE ListsInv'
  BY <1>6, EmptyList DEF CreateTmp, ListsInv, IInv, TypeOK, IndexOK
<1>7. ASSUME NEW t \in Threads, WriteTmp(t) PROVE ListsInv'
  BY <1>7 DEF WriteTmp, ListsInv, IInv, TypeOK, IndexOK
<1> QED
  BY <1>1, <1>2, <1>3, <1>4, <1>5, <1>6, <1>7, ListSteps, ListsQuiet DEF ListStep

LEMMA AlwaysLists == Spec => [](IInv /\ ListsInv)
<1>1. Init => IInv /\ ListsInv
  BY InitInv, ListsInit
<1>2. (IInv /\ ListsInv) /\ [Next]_vars => (IInv /\ ListsInv)'
  BY StepInv, ListsStep
<1> QED
  BY <1>1, <1>2, PTL DEF Spec

-----------------------------------------------------------------------------
(* What a rollback writes *)

\* The places of a thread that has still to save its snapshot's file.
Unsaved == {"read target", "read backup", "read index", "save file"}

\* The entries an apply has made are of earlier seconds.
AppliesPast(S) ==
  \A e \in S : e.source = "write" /\ e.label = ApplyLabel => e.at < clock

\* What the page offers is on disk as it was listed.
Faithful == \A m \in DOMAIN shown : Offered(m) => shown[m] = files[Id(m)]

\* A command of the main thread saves under an id that nothing shown has.
MainFresh == /\ \A m \in DOMAIN shown : m.at < clock
             /\ job[Main].source = "write" => job[Main].label # ApplyLabel

\* A rollback's target is a file from before, and what it writes is its text.
Rolling == /\ job[Main].of \in DOMAIN files /\ job[Main].of.at < clock
           /\ \A m \in DOMAIN shown : Id(m) = job[Main].of => Offered(m)
           /\ pc[Main] # "read target" => job[Main].after = files[job[Main].of]

\* The file an apply will save is of no entry that is listed or shown, except
\* for that of a rollback, which is not offered.
ApplyFresh(t) ==
  /\ job[t].label = ApplyLabel
  /\ AppliesPast(DOMAIN shown)
  /\ \A o \in Threads : AppliesPast(idx[o])
  /\ \A i \in Inodes : inode[i] # Torn => AppliesPast(inode[i])

PromiseInv ==
  "twice" \notin mix =>
    /\ ~mistaken
    /\ Faithful
    /\ pc[Main] # "idle" => MainFresh
    /\ pc[Main] # "idle" /\ job[Main].source = "rollback" => Rolling
    /\ \A t \in Applies : pc[t] \in Unsaved => ApplyFresh(t)

LEMMA PromiseInit == Init => PromiseInv
<1> SUFFICES ASSUME Init PROVE PromiseInv
  OBVIOUS
<1>1. DOMAIN shown = {} /\ \A t \in Threads : pc[t] = "idle"
  BY DEF Init
<1> QED
  BY <1>1 DEF Init, PromiseInv, Faithful, Unsaved, Threads

\* The main thread rests, or goes on with the job it had.
MainKept ==
  \/ pc'[Main] = "idle"
  \/ /\ pc[Main] # "idle"
     /\ job'[Main].label = job[Main].label
     /\ job'[Main].source = job[Main].source
     /\ job'[Main].of = job[Main].of
     /\ job'[Main].after = job[Main].after
     /\ pc[Main] = "read target" => pc'[Main] = "read target"
\* An apply has nothing more to save, or goes on.
ApplyKept(t) == \/ pc'[t] \notin Unsaved
                \/ pc[t] \in Unsaved /\ job'[t].label = job[t].label

LEMMA PromiseQuiet ==
  ASSUME PromiseInv, QuietStep, mix' = mix,
         "twice" \notin mix => ~mistaken',
         MainKept, \A t \in Applies : ApplyKept(t)
  PROVE  PromiseInv'
<1> SUFFICES ASSUME "twice" \notin mix PROVE PromiseInv'
  BY DEF PromiseInv
<1>1. Faithful'
  BY DEF PromiseInv, Faithful, QuietStep
<1>2. pc'[Main] # "idle" => MainFresh'
  BY DEF PromiseInv, MainFresh, QuietStep, MainKept
<1>3. pc'[Main] # "idle" /\ job'[Main].source = "rollback" => Rolling'
  BY DEF PromiseInv, Rolling, QuietStep, MainKept
<1>4. ASSUME NEW t \in Applies, pc'[t] \in Unsaved PROVE ApplyFresh(t)'
  <2>1. ApplyFresh(t) /\ job'[t].label = ApplyLabel
    BY <1>4 DEF PromiseInv, ApplyKept, ApplyFresh
  <2> QED
    BY <2>1 DEF ApplyFresh, AppliesPast, QuietStep
<1> QED
  BY <1>1, <1>2, <1>3, <1>4 DEF PromiseInv

\* Without two changes in a second every file is older than a command that
\* starts.
LEMMA FilesOlder ==
  ASSUME IInv, ListsInv, Waited, "twice" \notin mix
  PROVE  /\ \A m \in DOMAIN shown : m.at < clock
         /\ \A m : HaveFiles({m}) => Id(m).at < clock
         /\ \A t \in Threads : AppliesPast(idx[t])
         /\ AppliesPast(DOMAIN shown)
         /\ \A i \in Inodes : inode[i] # Torn => AppliesPast(inode[i])
<1>1. \A i \in DOMAIN files : i.at < clock
  BY DEF Waited
<1>2. ASSUME NEW S, HaveFiles(S) PROVE \A m \in S : m.at < clock
  BY <1>1, <1>2 DEF HaveFiles, Id
<1>3. HaveFiles(DOMAIN shown) /\ \A t \in Threads : HaveFiles(idx[t])
  BY DEF ListsInv, HaveFiles, IInv, ThreadInv
<1>4. \A i \in Inodes : inode[i] # Torn => HaveFiles(inode[i])
  BY DEF IInv, ListedHaveFiles, HaveFiles
<1>5. \A m : HaveFiles({m}) => Id(m).at < clock
  BY <1>1 DEF HaveFiles
<1> QED
  BY <1>2, <1>3, <1>4, <1>5 DEF AppliesPast

LEMMA StartWritePromise ==
  ASSUME IInv, ListsInv, PromiseInv, ApplyLabel \notin Labels,
         NEW l \in Labels, NEW x \in Docs, StartWrite(l, x)
  PROVE  PromiseInv'
<1> SUFFICES ASSUME "twice" \notin mix PROVE PromiseInv'
  BY DEF PromiseInv, StartWrite
<1>1. /\ job'[Main].label = l /\ job'[Main].source = "write"
      /\ \A t \in Applies : pc'[t] = pc[t] /\ job'[t] = job[t]
  BY ThreadAssumption DEF StartWrite, Goto, Idle, IInv, TypeOK, ThreadsOK, Threads
<1>2. UNCHANGED <<files, inode, clock, shown, idx, mistaken, mix>>
  BY DEF StartWrite, disk, ghosts
<1>3. MainFresh'
  BY <1>1, <1>2, FilesOlder DEF StartWrite, MainFresh
<1>4. Faithful' /\ ~mistaken'
  BY <1>2 DEF PromiseInv, Faithful
<1>5. \A t \in Applies : pc'[t] \in Unsaved => ApplyFresh(t)'
  BY <1>1, <1>2 DEF PromiseInv, ApplyFresh, AppliesPast
<1> QED
  BY <1>1, <1>3, <1>4, <1>5 DEF PromiseInv

LEMMA StartRollbackPromise ==
  ASSUME IInv, ListsInv, PromiseInv, NEW m \in DOMAIN shown, StartRollback(m)
  PROVE  PromiseInv'
<1> SUFFICES ASSUME "twice" \notin mix PROVE PromiseInv'
  BY DEF PromiseInv, StartRollback
<1>1. PICK e \in Index :
        /\ Id(e) = Id(m)
        /\ job' = [job EXCEPT ![Main] = [Idle EXCEPT !.label = e.label,
                     !.source = "rollback", !.of = Id(e)]]
  BY DEF StartRollback
<1>2. /\ job'[Main].source = "rollback" /\ job'[Main].of = Id(m)
      /\ pc'[Main] = "read target"
      /\ \A t \in Applies : pc'[t] = pc[t] /\ job'[t] = job[t]
  BY <1>1, ThreadAssumption DEF StartRollback, Goto, Idle, IInv, TypeOK,
     ThreadsOK, Threads
<1>3. UNCHANGED <<files, inode, clock, shown, idx, mistaken, mix>>
  BY DEF StartRollback, disk, ghosts
<1>4. MainFresh'
  BY <1>2, <1>3, FilesOlder DEF StartRollback, MainFresh
<1>5. Rolling'
  <2>1. Id(m) \in DOMAIN files /\ Id(m).at < clock
    <3>1. Id(m) \in DOMAIN files /\ \A i \in DOMAIN files : i.at < clock
      BY DEF ListsInv, StartRollback, Waited
    <3> QED
      BY <3>1
  <2>2. \A o \in DOMAIN shown : Id(o) = Id(m) => Offered(o)
    BY DEF ListsInv, Unique, StartRollback
  <2> QED
    BY <1>2, <1>3, <2>1, <2>2 DEF Rolling
<1>6. Faithful' /\ ~mistaken'
  BY <1>3 DEF PromiseInv, Faithful
<1>7. \A t \in Applies : pc'[t] \in Unsaved => ApplyFresh(t)'
  BY <1>2, <1>3 DEF PromiseInv, ApplyFresh, AppliesPast
<1> QED
  BY <1>4, <1>5, <1>6, <1>7 DEF PromiseInv

LEMMA ReadTargetPromise ==
  ASSUME IInv, PromiseInv, ReadTarget
  PROVE  PromiseInv'
<1> SUFFICES ASSUME "twice" \notin mix PROVE PromiseInv'
  BY DEF PromiseInv, ReadTarget
<1>1. Main \in Threads /\ job[Main] \in Jobs /\ job \in [Threads -> Jobs]
  BY DEF IInv, TypeOK, ThreadsOK, Threads
<1>2. /\ job'[Main] = [job[Main] EXCEPT !.after = files[job[Main].of]]
      /\ \A t \in Applies : pc'[t] = pc[t] /\ job'[t] = job[t]
  BY <1>1, ThreadAssumption DEF ReadTarget, Goto, IInv, TypeOK, ThreadsOK, Threads
<1>3. /\ job'[Main].label = job[Main].label /\ job'[Main].source = job[Main].source
      /\ job'[Main].of = job[Main].of /\ job'[Main].after = files[job[Main].of]
  BY <1>1, <1>2 DEF Jobs
<1>4. UNCHANGED <<files, inode, clock, shown, idx, mistaken, mix>>
  BY DEF ReadTarget, disk, ghosts
<1>5. MainFresh'
  BY <1>3, <1>4 DEF PromiseInv, ReadTarget, MainFresh
<1>6. job'[Main].source = "rollback" => Rolling'
  BY <1>3, <1>4 DEF PromiseInv, ReadTarget, Rolling
<1>7. Faithful' /\ ~mistaken'
  BY <1>4 DEF PromiseInv, Faithful
<1>8. \A t \in Applies : pc'[t] \in Unsaved => ApplyFresh(t)'
  BY <1>2, <1>4 DEF PromiseInv, ApplyFresh, AppliesPast
<1> QED
  BY <1>5, <1>6, <1>7, <1>8 DEF PromiseInv

\* A rollback that ends has written what the page showed of its target.
LEMMA WriteConfigPromise ==
  ASSUME IInv, PromiseInv, WriteConfig
  PROVE  PromiseInv'
<1>1. QuietStep /\ mix' = mix
  BY DEF WriteConfig, Return, QuietStep, IInv, TypeOK, ThreadsOK
<1>2. /\ pc'[Main] = "idle"
      /\ \A t \in Applies : pc'[t] = pc[t] /\ job'[t] = job[t]
  BY ThreadAssumption DEF WriteConfig, Return, IInv, TypeOK, ThreadsOK, Threads
<1>3. ASSUME "twice" \notin mix PROVE ~mistaken'
  <2>1. ASSUME NEW m \in DOMAIN shown, job[Main].source = "rollback",
               Id(m) = job[Main].of
        PROVE  shown[m] = job[Main].after
    BY <1>3, <2>1 DEF PromiseInv, WriteConfig, Rolling, Faithful
  <2> QED
    BY <1>3, <2>1 DEF PromiseInv, WriteConfig
<1> QED
  BY <1>1, <1>2, <1>3, PromiseQuiet DEF MainKept, ApplyKept

LEMMA StartApplyPromise ==
  ASSUME IInv, ListsInv, PromiseInv, \A s, t \in Applies : s = t,
         NEW t \in Applies, NEW x \in Docs, StartApply(t, x)
  PROVE  PromiseInv'
<1> SUFFICES ASSUME "twice" \notin mix PROVE PromiseInv'
  BY DEF PromiseInv, StartApply
<1>1. job'[t].label = ApplyLabel /\ pc'[Main] = pc[Main] /\ job'[Main] = job[Main]
  BY ThreadAssumption DEF StartApply, Goto, Idle, IInv, TypeOK, ThreadsOK, Threads
<1>2. UNCHANGED <<files, inode, clock, shown, idx, mistaken, mix>>
  BY DEF StartApply, disk, ghosts
<1>3. ApplyFresh(t)'
  BY <1>1, <1>2, FilesOlder DEF StartApply, ApplyFresh, AppliesPast
<1>4. /\ Faithful' /\ ~mistaken'
      /\ pc'[Main] # "idle" => MainFresh'
      /\ pc'[Main] # "idle" /\ job'[Main].source = "rollback" => Rolling'
  BY <1>1, <1>2 DEF PromiseInv, Faithful, MainFresh, Rolling
<1> QED
  BY <1>3, <1>4 DEF PromiseInv

LEMMA TickPromise ==
  ASSUME IInv, ListsInv, PromiseInv, Tick
  PROVE  PromiseInv'
<1> SUFFICES ASSUME "twice" \notin mix PROVE PromiseInv'
  BY DEF PromiseInv, Tick
<1>1. UNCHANGED <<files, inode, shown, idx, pc, job, mistaken, mix>>
  BY DEF Tick, disk, thread, ghosts
<1>2. clock' = clock + 1 /\ clock \in Nat
  BY BoundAssumption DEF Tick, IInv, TypeOK, Times
<1>3. ASSUME NEW S \in SUBSET Metas, AppliesPast(S) PROVE AppliesPast(S)'
  BY <1>2, <1>3, BoundAssumption DEF AppliesPast, Metas, Times
<1>4. DOMAIN shown \in SUBSET Metas /\ \A m \in DOMAIN shown : m.at \in Nat
  BY BoundAssumption DEF IInv, TypeOK, ShownOK, Metas, Times
<1>5. \A t \in Threads : idx[t] \in SUBSET Metas
  BY DEF IInv, TypeOK, ThreadsOK
<1>6. \A i \in Inodes : inode[i] # Torn => inode[i] \in SUBSET Metas
  BY DEF IInv, TypeOK, IndexOK
<1>7. MainFresh => MainFresh'
  BY <1>1, <1>2, <1>4 DEF MainFresh
<1>8. ASSUME Rolling PROVE Rolling'
  <2>1. \A i \in DOMAIN files : i.at \in Nat
    BY BoundAssumption DEF IInv, TypeOK, FilesOK, Ids, Times
  <2>2. \A i \in DOMAIN files : i.at < clock => i.at < clock'
    BY <1>2, <2>1
  <2> QED
    BY <1>1, <1>8, <2>2 DEF Rolling
<1>9. ASSUME NEW t \in Applies, ApplyFresh(t) PROVE ApplyFresh(t)'
  <2>1. AppliesPast(DOMAIN shown)' /\ \A o \in Threads : AppliesPast(idx[o])'
    <3>1. \A S \in SUBSET Metas : AppliesPast(S) => AppliesPast(S)'
      BY <1>3
    <3>2. AppliesPast(DOMAIN shown)'
      BY <1>1, <1>4, <1>9, <3>1 DEF ApplyFresh, AppliesPast
    <3>3. ASSUME NEW o \in Threads PROVE AppliesPast(idx[o])'
      BY <1>1, <1>5, <1>9, <3>1 DEF ApplyFresh, AppliesPast
    <3> QED
      BY <3>2, <3>3
  <2>2. ASSUME NEW i \in Inodes, inode[i] # Torn PROVE AppliesPast(inode[i])'
    BY <1>1, <1>2, <1>6, <1>9, <2>2, BoundAssumption DEF ApplyFresh, AppliesPast,
       Metas, Times
  <2> QED
    BY <1>1, <1>9, <2>1, <2>2 DEF ApplyFresh
<1>10. Faithful' /\ ~mistaken'
  BY <1>1 DEF PromiseInv, Faithful
<1> QED
  BY <1>1, <1>7, <1>8, <1>9, <1>10 DEF PromiseInv

LEMMA ListHistoryPromise ==
  ASSUME IInv, PromiseInv, ListHistory
  PROVE  PromiseInv'
<1> SUFFICES ASSUME "twice" \notin mix PROVE PromiseInv'
  BY DEF PromiseInv, ListHistory
<1>1. UNCHANGED <<files, inode, clock, idx, pc, job, mistaken, mix>>
  BY DEF ListHistory, disk, thread, ghosts
<1>2. Faithful'
  BY <1>1 DEF ListHistory, Faithful
<1>3. DOMAIN shown' = Index
  BY DEF ListHistory
<1>4. ASSUME NEW t \in Applies, pc'[t] \in Unsaved PROVE ApplyFresh(t)'
  <2>1. ApplyFresh(t)
    BY <1>1, <1>4 DEF PromiseInv
  <2>2. AppliesPast(Index)
    BY <2>1 DEF ApplyFresh, AppliesPast, Index, ListHistory, IInv, TypeOK, IndexOK
  <2> QED
    BY <1>1, <1>3, <2>1, <2>2 DEF ApplyFresh, AppliesPast
<1> QED
  BY <1>1, <1>2, <1>4 DEF PromiseInv, ListHistory

LEMMA CrashPromise ==
  ASSUME PromiseInv, Crash
  PROVE  PromiseInv'
<1>1. DOMAIN shown' = {} /\ mix' = mix /\ mistaken' = mistaken
  BY DEF Crash, ghosts
<1>2. pc'[Main] = "idle" /\ \A t \in Applies : pc'[t] = "idle"
  BY DEF Crash, Threads
<1> QED
  BY <1>1, <1>2 DEF PromiseInv, Faithful, Unsaved

\* add_snapshot up to the temporary file, but for the snapshot's own.
LEMMA SavePromise ==
  ASSUME IInv, PromiseInv, NEW t \in Threads,
         ReadIndex(t) \/ CreateTmp(t) \/ WriteTmp(t)
  PROVE  PromiseInv'
<1> SUFFICES ASSUME "twice" \notin mix PROVE PromiseInv'
  BY DEF PromiseInv, ReadIndex, CreateTmp, WriteTmp
<1>1. UNCHANGED <<files, shown, clock, job, mistaken, mix>>
  BY DEF ReadIndex, CreateTmp, WriteTmp, disk, ghosts
<1>2. /\ \A o \in Threads \ {t} : pc'[o] = pc[o]
      /\ pc[t] \notin {"idle", "read target"}
      /\ pc'[t] \in Unsaved => pc[t] \in Unsaved
  BY DEF ReadIndex, CreateTmp, WriteTmp, Goto, Unsaved, IInv, TypeOK, ThreadsOK
<1>3. pc'[Main] # "idle" => MainFresh'
  <2>1. pc'[Main] # "idle" => pc[Main] # "idle"
    BY <1>2 DEF Threads
  <2> QED
    BY <1>1, <2>1 DEF PromiseInv, MainFresh
<1>4. pc'[Main] # "idle" /\ job'[Main].source = "rollback" => Rolling'
  <2>1. /\ pc'[Main] # "idle" => pc[Main] # "idle"
        /\ pc'[Main] # "read target" /\ pc'[Main] # "idle" => pc[Main] # "read target"
    BY <1>2 DEF Threads
  <2> QED
    BY <1>1, <2>1 DEF PromiseInv, Rolling
<1>5. Faithful'
  BY <1>1 DEF PromiseInv, Faithful
<1>6. ASSUME NEW s \in Applies, pc'[s] \in Unsaved PROVE ApplyFresh(s)'
  <2>1. ApplyFresh(s)
    BY <1>2, <1>6 DEF PromiseInv, Threads
  <2>2. AppliesPast(IndexOrDefault) /\ AppliesPast({})
    BY <2>1 DEF ApplyFresh, AppliesPast, IndexOrDefault, Index, IInv, TypeOK, IndexOK
  <2>3. \A o \in Threads : idx'[o] \in {idx[o], IndexOrDefault}
    BY DEF ReadIndex, CreateTmp, WriteTmp, disk, IInv, TypeOK, ThreadsOK
  <2>4. \A i \in Inodes : inode'[i] \in {inode[i], {}, Torn, idx[t]}
    BY DEF ReadIndex, CreateTmp, WriteTmp, disk, IInv, TypeOK, IndexOK
  <2>5. \A o \in Threads : AppliesPast(idx[o])'
    BY <1>1, <2>1, <2>2, <2>3 DEF ApplyFresh, AppliesPast
  <2>6. \A i \in Inodes : inode'[i] # Torn => AppliesPast(inode[i])'
    BY <1>1, <2>1, <2>2, <2>4 DEF ApplyFresh, AppliesPast
  <2> QED
    BY <1>1, <2>1, <2>5, <2>6 DEF ApplyFresh, AppliesPast
<1> QED
  BY <1>1, <1>3, <1>4, <1>5, <1>6 DEF PromiseInv

\* The file of a snapshot is a new one: no text that is offered or about to be
\* rolled back to is lost to it.
LEMMA SaveFilePromise ==
  ASSUME IInv, ListsInv, PromiseInv, \A s, t \in Applies : s = t,
         NEW t \in Threads, SaveFile(t)
  PROVE  PromiseInv'
<1> DEFINE n == NewMeta(t)
<1> SUFFICES ASSUME "twice" \notin mix PROVE PromiseInv'
  BY DEF PromiseInv, SaveFile
<1>1. UNCHANGED <<inode, shown, clock, mistaken, mix>>
  BY DEF SaveFile, ghosts
<1>2. /\ n \in Metas /\ Id(n) = [at |-> clock, label |-> job[t].label]
      /\ n.at = clock /\ n.label = job[t].label /\ n.source = job[t].source
      /\ clock \in Nat /\ job[t] \in Jobs
  BY NewMetaType, BoundAssumption DEF NewMeta, IInv, TypeOK, ThreadsOK, Times
<1>3. /\ \A i \in DOMAIN files : i # Id(n) => i \in DOMAIN files' /\ files'[i] = files[i]
      /\ \A o \in Threads \ {t} : pc'[o] = pc[o] /\ job'[o] = job[o] /\ idx'[o] = idx[o]
      /\ pc[t] = "save file" /\ pc'[t] = "create tmp"
      /\ idx'[t] = Upsert(idx[t], n)
      /\ job'[t] = [job[t] EXCEPT !.new = Id(n)]
  BY DEF SaveFile, Goto, IInv, TypeOK, ThreadsOK
<1>4. /\ job'[t].label = job[t].label /\ job'[t].source = job[t].source
      /\ job'[t].of = job[t].of /\ job'[t].after = job[t].after
  BY <1>2, <1>3 DEF Jobs
<1>5. /\ job'[Main].label = job[Main].label /\ job'[Main].source = job[Main].source
      /\ job'[Main].of = job[Main].of /\ job'[Main].after = job[Main].after
      /\ pc'[Main] # "idle" => pc[Main] # "idle"
      /\ pc'[Main] \notin {"idle", "read target"} => pc[Main] # "read target"
  BY <1>3, <1>4 DEF Threads
<1>6. t # Main => t \in Applies /\ ApplyFresh(t)
  BY <1>3 DEF PromiseInv, Threads, Unsaved
<1>7. Faithful'
  <2>1. ASSUME NEW m \in DOMAIN shown, Offered(m) PROVE Id(m) # Id(n)
    <3>1. m \in Metas
      BY DEF IInv, TypeOK, ShownOK
    <3>2. CASE t = Main
      <4>1. m.at < clock
        BY <1>3, <3>2 DEF PromiseInv, MainFresh
      <4> QED
        BY <1>2, <4>1 DEF Id
    <3>3. CASE t # Main
      <4>1. m.source = "write" /\ job[t].label = ApplyLabel /\ AppliesPast(DOMAIN shown)
        BY <1>6, <2>1, <3>1, <3>3 DEF ApplyFresh, Offered, Metas
      <4>2. m.label = ApplyLabel => m.at < clock
        BY <4>1 DEF AppliesPast
      <4> QED
        BY <1>2, <4>1, <4>2 DEF Id
    <3> QED
      BY <3>2, <3>3
  <2>2. \A m \in DOMAIN shown : Id(m) \in DOMAIN files
    BY DEF ListsInv
  <2> QED
    BY <1>1, <1>3, <2>1, <2>2 DEF PromiseInv, Faithful
<1>8. pc'[Main] # "idle" => MainFresh'
  BY <1>1, <1>5 DEF PromiseInv, MainFresh
<1>9. pc'[Main] # "idle" /\ job'[Main].source = "rollback" => Rolling'
  <2> SUFFICES ASSUME pc'[Main] # "idle", job'[Main].source = "rollback"
               PROVE  Rolling'
    OBVIOUS
  <2>1. Rolling
    BY <1>5 DEF PromiseInv
  <2>2. job[Main].of # Id(n)
    <3>1. job[Main].of.at < clock
      BY <2>1 DEF Rolling
    <3>2. Id(n).at = clock /\ clock \in Nat
      BY <1>2
    <3> QED
      BY <3>1, <3>2
  <2> QED
    BY <1>1, <1>3, <1>5, <2>1, <2>2 DEF Rolling
<1>10. ASSUME NEW s \in Applies, pc'[s] \in Unsaved PROVE ApplyFresh(s)'
  <2>1. t = Main
    BY <1>3, <1>6, <1>10 DEF Unsaved
  <2>2. s # t /\ s \in Threads /\ ApplyFresh(s)
    BY <1>3, <1>10, <2>1, ThreadAssumption DEF PromiseInv, Threads
  <2>3. n.source = "write" => n.label # ApplyLabel
    BY <1>2, <1>3, <2>1 DEF PromiseInv, MainFresh
  <2>4. AppliesPast(idx'[t])
    <3>1. Upsert(idx[t], n) \subseteq idx[t] \cup {n}
      BY UpsertAdds
    <3>2. idx'[t] \subseteq idx[t] \cup {n}
      BY <1>3, <3>1
    <3> QED
      BY <2>2, <2>3, <3>2 DEF ApplyFresh, AppliesPast
  <2>5. \A o \in Threads : AppliesPast(idx[o])'
    BY <1>1, <1>3, <2>2, <2>4 DEF ApplyFresh, AppliesPast
  <2> QED
    BY <1>1, <1>3, <2>2, <2>5 DEF ApplyFresh, AppliesPast
<1> QED
  BY <1>1, <1>7, <1>8, <1>9, <1>10 DEF PromiseInv

\* The steps of a job that change nothing a rollback relies on.
LEMMA PlainPromise ==
  ASSUME IInv, PromiseInv, QuietStep,
         NEW t \in Threads,
         \/ ReadBackup /\ t = Main
         \/ WriteConfigError /\ t = Main
         \/ t \in Applies /\ (ApplyChange(t) \/ ApplyEnd(t))
         \/ SaveFileError(t)
         \/ RenameTmp(t)
         \/ RenameError(t)
  PROVE  PromiseInv'
<1>1. mix' = mix /\ mistaken' = mistaken
  BY DEF ReadBackup, WriteConfigError, ApplyChange, ApplyEnd, SaveFileError,
     RenameTmp, RenameError, ghosts
<1>2. job[t] \in Jobs /\ job \in [Threads -> Jobs] /\ pc \in [Threads -> Places]
  BY DEF IInv, TypeOK, ThreadsOK
<1>3. \A o \in Threads \ {t} : pc'[o] = pc[o] /\ job'[o] = job[o]
  <2>1. Return(t) \/ \E l : Goto(t, l) /\ job' \in {job, [job EXCEPT ![t] = job'[t]]}
    BY <1>2 DEF ReadBackup, WriteConfigError, ApplyChange, ApplyEnd,
       SaveFileError, RenameTmp, RenameError, SaveFails
  <2> QED
    BY <1>2, <2>1 DEF Return, Goto
<1>4. CASE ReadBackup /\ t = Main
  <2>1. job'[Main] = [job[Main] EXCEPT !.before = ReadConfig]
    BY <1>2, <1>4 DEF ReadBackup
  <2>2. MainKept
    BY <1>2, <1>4, <2>1 DEF MainKept, ReadBackup, Goto, Jobs
  <2> QED
    BY <1>1, <1>3, <1>4, <2>2, PromiseQuiet, ThreadAssumption
       DEF PromiseInv, ApplyKept, Threads
<1>5. CASE ~(ReadBackup /\ t = Main)
  <2>1. /\ pc[t] \notin {"idle", "read target"} /\ pc'[t] \notin Unsaved
        /\ pc'[t] = "idle" \/ job'[t] = job[t]
    BY <1>2, <1>5 DEF WriteConfigError, ApplyChange, ApplyEnd, SaveFileError,
       RenameTmp, RenameError, SaveFails, Return, Goto, Unsaved
  <2>2. pc[Main] = "idle" => pc'[Main] = "idle"
    BY <1>3, <2>1 DEF Threads
  <2>3. MainKept
    BY <1>3, <2>1, <2>2 DEF MainKept, Threads
  <2>4. \A s \in Applies : ApplyKept(s)
    BY <1>3, <2>1 DEF ApplyKept, Threads
  <2> QED
    BY <1>1, <2>3, <2>4, PromiseQuiet DEF PromiseInv
<1> QED
  BY <1>4, <1>5

LEMMA StillPromise ==
  ASSUME PromiseInv, UNCHANGED <<clock, files, inode, shown, thread, mistaken, mix>>
  PROVE  PromiseInv'
<1>1. UNCHANGED <<pc, job, idx>>
  BY DEF thread
<1> QED
  BY <1>1 DEF PromiseInv, Faithful, MainFresh, Rolling, ApplyFresh, AppliesPast

LEMMA PromiseStep ==
  ASSUME \A s, t \in Applies : s = t, ApplyLabel \notin Labels,
         IInv, ListsInv, PromiseInv, [Next]_vars
  PROVE  PromiseInv'
<1> Main \in Threads /\ Applies \subseteq Threads /\ DOMAIN idx = Threads
  BY DEF Threads, IInv, TypeOK, ThreadsOK
<1>1. CASE Tick \/ ListHistory \/ Crash \/ ReadTarget \/ WriteConfig
  BY <1>1, TickPromise, ListHistoryPromise, CrashPromise, ReadTargetPromise,
     WriteConfigPromise
<1>2. ASSUME NEW x \in BadDocs, HandEdit(x) PROVE PromiseInv'
  BY <1>2, StillPromise DEF HandEdit
<1>3. ASSUME NEW l \in Labels, NEW x \in Docs, StartWrite(l, x) PROVE PromiseInv'
  BY <1>3, StartWritePromise
<1>4. ASSUME NEW m \in DOMAIN shown, StartRollback(m) PROVE PromiseInv'
  BY <1>4, StartRollbackPromise
<1>5. CASE ReadBackup
  BY <1>5, PlainPromise DEF ReadBackup, QuietStep, disk
<1>6. CASE WriteConfigError
  BY <1>6, PlainPromise DEF WriteConfigError, QuietStep, disk, Return
<1>7. ASSUME NEW t \in Applies, NEW x \in Docs, StartApply(t, x) PROVE PromiseInv'
  BY <1>7, StartApplyPromise
<1>8. ASSUME NEW t \in Applies, ApplyChange(t) \/ ApplyEnd(t) PROVE PromiseInv'
  <2>1. QuietStep
    BY <1>8 DEF ApplyChange, ApplyEnd, Return, QuietStep
  <2> QED
    BY <1>8, <2>1, PlainPromise
<1>9. ASSUME NEW t \in Threads, AddSnapshot(t) PROVE PromiseInv'
  <2>1. CASE ReadIndex(t) \/ CreateTmp(t) \/ WriteTmp(t)
    BY <2>1, SavePromise
  <2>2. CASE SaveFile(t)
    BY <2>2, SaveFilePromise
  <2>3. CASE SaveFileError(t) \/ RenameTmp(t) \/ RenameError(t)
    <3>1. QuietStep
      BY <2>3 DEF SaveFileError, RenameError, RenameTmp, SaveFails, Return,
         QuietStep, disk
    <3> QED
      BY <2>3, <3>1, PlainPromise
  <2> QED
    BY <1>9, <2>1, <2>2, <2>3 DEF AddSnapshot
<1>10. CASE UNCHANGED vars
  BY <1>10, StillPromise DEF vars, disk, ghosts
<1> QED
  BY <1>1, <1>2, <1>3, <1>4, <1>5, <1>6, <1>7, <1>8, <1>9, <1>10 DEF Next

\* A rollback writes the text its entry had when the page listed it, an apply
\* overlapping or not (commands/config.rs:377-416): no snapshot saved in the
\* meantime has the id, and with it the file, of the chosen one.  One apply at
\* a time: two that save in one second share an id and its file.  And no
\* direct write is labelled as an apply is.
THEOREM RollbackAsPromised ==
  ASSUME \A s, t \in Applies : s = t, ApplyLabel \notin Labels
  PROVE  Spec => []RollbackKeepsPromise
<1>1. Init => PromiseInv
  BY PromiseInit
<1>2. (IInv /\ ListsInv) /\ PromiseInv /\ [Next]_vars => PromiseInv'
  BY PromiseStep
<1>3. PromiseInv => RollbackKeepsPromise
  BY DEF PromiseInv, RollbackKeepsPromise
<1> QED
  BY <1>1, <1>2, <1>3, AlwaysLists, PTL DEF Spec

-----------------------------------------------------------------------------
(* One thread that writes the index *)

Writing == {"create tmp", "write tmp", "rename tmp"}

\* The temporary file is another than the index, the one the main thread has
\* open, and holds what it has in hand once written.
Alone ==
  /\ \A t \in Applies : pc[t] = "idle"
  /\ \A i \in Inodes : inode[i] # Torn
  /\ meta = tmp => meta = NoInode
  /\ pc[Main] \in {"write tmp", "rename tmp"} => fd[Main] = tmp /\ tmp # NoInode
  /\ pc[Main] = "write tmp" => inode[tmp] = {}
  /\ pc[Main] = "rename tmp" => inode[tmp] = idx[Main]
  /\ pc[Main] = "save file" => idx[Main] = IndexOrDefault

\* What was recorded is in the index, and in the one that will replace it.
Kept == /\ StayIn(IndexOrDefault)
        /\ pc[Main] \in Writing => StayIn(idx[Main])

OneInv == OneThread => Alone /\ Kept

LEMMA OneInit == Init => OneInv
<1> SUFFICES ASSUME Init PROVE OneInv
  OBVIOUS
<1>1. Alone
  BY TornAssumption DEF Init, Alone, Threads
<1>2. Kept
  BY DEF Init, Kept, StayIn, Writing, Threads
<1> QED
  BY <1>1, <1>2 DEF OneInv

\* The index is the same as long as its file is.
LEMMA SameIndex ==
  ASSUME meta' = meta, meta # NoInode => inode'[meta] = inode[meta]
  PROVE  Index' = Index /\ IndexOrDefault' = IndexOrDefault
BY DEF Index, IndexOrDefault

\* A step that leaves the files of the index alone, and takes the main thread
\* to a place where nothing is claimed of them or leaves it where it was.
LEMMA OneQuiet ==
  ASSUME OneInv, UNCHANGED <<inode, meta, tmp, recorded, mix>>,
         OneThread => \A t \in Applies : pc'[t] = "idle",
         \/ pc'[Main] \notin Writing \cup {"save file"}
         \/ pc'[Main] = pc[Main] /\ idx'[Main] = idx[Main] /\ fd'[Main] = fd[Main]
  PROVE  OneInv'
<1> SUFFICES ASSUME OneThread PROVE Alone' /\ Kept'
  BY DEF OneInv, OneThread
<1>1. Alone /\ Kept /\ IndexOrDefault' = IndexOrDefault
  BY SameIndex DEF OneInv
<1>2. Alone'
  BY <1>1 DEF Alone, Writing
<1>3. Kept'
  BY <1>1 DEF Kept, StayIn
<1> QED
  BY <1>2, <1>3

LEMMA ReadIndexOne ==
  ASSUME IInv, OneInv, ReadIndex(Main)
  PROVE  OneInv'
<1> SUFFICES ASSUME OneThread PROVE Alone' /\ Kept'
  BY DEF OneInv, OneThread, ReadIndex
<1>1. UNCHANGED <<inode, meta, tmp, recorded, mix, fd>> /\ Alone /\ Kept
  BY DEF ReadIndex, disk, ghosts, OneInv
<1>2. /\ idx'[Main] = IndexOrDefault /\ pc'[Main] = "save file"
      /\ \A t \in Applies : pc'[t] = pc[t]
  BY ThreadAssumption DEF ReadIndex, Goto, IInv, TypeOK, ThreadsOK, Threads
<1>3. IndexOrDefault' = IndexOrDefault
  BY <1>1, SameIndex
<1> QED
  BY <1>1, <1>2, <1>3 DEF Alone, Kept, StayIn, Writing

LEMMA SaveFileOne ==
  ASSUME IInv, ListsInv, OneInv, SaveFile(Main)
  PROVE  OneInv'
<1> DEFINE n == NewMeta(Main)
<1> SUFFICES ASSUME OneThread PROVE Alone' /\ Kept'
  BY DEF OneInv, OneThread, SaveFile
<1>1. UNCHANGED <<inode, meta, tmp, recorded, mix, fd>> /\ Alone /\ Kept
  BY DEF SaveFile, ghosts, OneInv
<1>2. /\ idx'[Main] = Upsert(idx[Main], n) /\ pc[Main] = "save file"
      /\ pc'[Main] = "create tmp" /\ \A t \in Applies : pc'[t] = pc[t]
  BY ThreadAssumption DEF SaveFile, Goto, IInv, TypeOK, ThreadsOK, Threads
<1>3. IndexOrDefault' = IndexOrDefault
  BY <1>1, SameIndex
<1>4. StayIn(Upsert(idx[Main], n))
  <2>1. idx[Main] \in SUBSET Metas /\ IsFiniteSet(idx[Main]) /\ Unique(idx[Main])
    BY DEF IInv, TypeOK, ThreadsOK, ListsInv, Threads
  <2>2. n \in Metas /\ recorded \in SUBSET Metas
    BY NewMetaType DEF IInv, TypeOK, GhostsOK, Threads
  <2>3. StayIn(idx[Main])
    BY <1>1, <1>2 DEF Alone, Kept
  <2> QED
    BY <2>1, <2>2, <2>3, UpsertStays
<1>5. Alone'
  BY <1>1, <1>2, <1>3 DEF Alone
<1>6. Kept'
  BY <1>1, <1>2, <1>3, <1>4 DEF Kept, StayIn
<1> QED
  BY <1>5, <1>6

LEMMA CreateTmpOne ==
  ASSUME IInv, OneInv, CreateTmp(Main)
  PROVE  OneInv' /\ (OneThread => IndexOrDefault' = IndexOrDefault)
<1> SUFFICES ASSUME OneThread
             PROVE  Alone' /\ Kept' /\ IndexOrDefault' = IndexOrDefault
  BY DEF OneInv, OneThread, CreateTmp
<1>1. UNCHANGED <<meta, recorded, mix, idx>> /\ Alone /\ Kept
  BY DEF CreateTmp, ghosts, OneInv
<1>2. PICK i \in IF tmp = NoInode THEN FreeInodes ELSE {tmp} :
        inode' = [inode EXCEPT ![i] = {}] /\ tmp' = i /\ fd' = [fd EXCEPT ![Main] = i]
  BY DEF CreateTmp
<1>3. i \in Inodes /\ i # meta /\ i # NoInode
  BY <1>1, <1>2, InodeAssumption DEF FreeInodes, Alone, IInv, TypeOK, IndexOK
<1>4. /\ inode'[i] = {} /\ \A j \in Inodes \ {i} : inode'[j] = inode[j]
      /\ fd'[Main] = i /\ pc[Main] = "create tmp" /\ pc'[Main] = "write tmp"
      /\ \A t \in Applies : pc'[t] = pc[t]
  BY <1>2, <1>3, ThreadAssumption DEF CreateTmp, Goto, IInv, TypeOK, IndexOK,
     ThreadsOK, Threads
<1>5. IndexOrDefault' = IndexOrDefault
  BY <1>1, <1>3, <1>4, SameIndex DEF IInv, TypeOK, IndexOK
<1>6. Alone'
  BY <1>1, <1>2, <1>3, <1>4, TornAssumption DEF Alone
<1>7. Kept'
  BY <1>1, <1>4, <1>5 DEF Kept, StayIn, Writing
<1> QED
  BY <1>5, <1>6, <1>7

LEMMA WriteTmpOne ==
  ASSUME IInv, OneInv, WriteTmp(Main)
  PROVE  OneInv' /\ (OneThread => IndexOrDefault' = IndexOrDefault)
<1> SUFFICES ASSUME OneThread
             PROVE  Alone' /\ Kept' /\ IndexOrDefault' = IndexOrDefault
  BY DEF OneInv, OneThread, WriteTmp
<1>1. UNCHANGED <<meta, tmp, recorded, mix, idx, fd>> /\ Alone /\ Kept
  BY DEF WriteTmp, ghosts, OneInv
<1>2. /\ fd[Main] = tmp /\ tmp \in Inodes /\ tmp # meta
      /\ inode[tmp] = {} /\ inode' = [inode EXCEPT ![tmp] = idx[Main]]
  BY <1>1 DEF WriteTmp, Alone, IInv, TypeOK, IndexOK
<1>3. /\ inode'[tmp] = idx[Main] /\ \A j \in Inodes \ {tmp} : inode'[j] = inode[j]
      /\ pc[Main] = "write tmp" /\ pc'[Main] = "rename tmp"
      /\ \A t \in Applies : pc'[t] = pc[t] /\ idx[Main] \in SUBSET Metas
  BY <1>2, ThreadAssumption DEF WriteTmp, Goto, IInv, TypeOK, IndexOK,
     ThreadsOK, Threads
<1>4. idx[Main] # Torn
  BY TornAssumption DEF IInv, TypeOK, ThreadsOK, Threads
<1>5. IndexOrDefault' = IndexOrDefault
  BY <1>1, <1>2, <1>3, SameIndex DEF IInv, TypeOK, IndexOK
<1>6. Alone'
  BY <1>1, <1>2, <1>3, <1>4 DEF Alone
<1>7. Kept'
  BY <1>1, <1>3, <1>5 DEF Kept, StayIn, Writing
<1> QED
  BY <1>5, <1>6, <1>7

LEMMA RenameTmpOne ==
  ASSUME IInv, OneInv, RenameTmp(Main)
  PROVE  OneInv' /\ (OneThread => IndexOrDefault' = idx[Main])
<1> SUFFICES ASSUME OneThread
             PROVE  Alone' /\ Kept' /\ IndexOrDefault' = idx[Main]
  BY DEF OneInv, OneThread, RenameTmp
<1>1. UNCHANGED <<inode, mix, idx>> /\ Alone /\ Kept
  BY DEF RenameTmp, OneInv
<1>2. /\ meta' = tmp /\ tmp' = NoInode /\ tmp # NoInode /\ tmp \in Inodes
      /\ recorded' = recorded \cup {m \in idx[Main] : Id(m) = job[Main].new}
      /\ pc[Main] = "rename tmp" /\ pc'[Main] = "saved"
      /\ \A t \in Applies : pc'[t] = pc[t]
  BY ThreadAssumption DEF RenameTmp, Goto, IInv, TypeOK, IndexOK, ThreadsOK,
     Threads
<1>3. IndexOrDefault' = idx[Main]
  BY <1>1, <1>2 DEF Alone, IndexOrDefault, Index
<1>4. Alone'
  BY <1>1, <1>2 DEF Alone
<1>5. StayIn(idx[Main])
  BY <1>1, <1>2 DEF Kept, Writing
<1>6. Kept'
  BY <1>2, <1>3, <1>5 DEF Kept, StayIn, Writing
<1> QED
  BY <1>3, <1>4, <1>6

LEMMA OneStep ==
  ASSUME IInv, ListsInv, OneInv, [Next]_vars
  PROVE  OneInv'
<1> SUFFICES ASSUME OneThread PROVE OneInv'
  <2>1. mix' = mix
    BY DEF Next, Tick, HandEdit, StartWrite, ListHistory, StartRollback,
       ReadTarget, ReadBackup, WriteConfig, WriteConfigError, StartApply,
       ApplyChange, ApplyEnd, AddSnapshot, ReadIndex, SaveFile, SaveFileError,
       CreateTmp, WriteTmp, RenameTmp, RenameError, Crash, vars
  <2> QED
    BY <2>1 DEF OneInv, OneThread
<1>1. Main \in Threads /\ Applies \subseteq Threads /\ pc \in [Threads -> Places]
  BY DEF Threads, IInv, TypeOK, ThreadsOK
<1>2. \A t \in Applies : pc[t] = "idle"
  BY DEF OneInv, Alone
<1>3. CASE Tick \/ ListHistory \/ UNCHANGED vars
  BY <1>2, <1>3, OneQuiet DEF Tick, ListHistory, vars, disk, thread, ghosts
<1>4. ASSUME NEW x \in BadDocs, HandEdit(x) PROVE OneInv'
  BY <1>2, <1>4, OneQuiet DEF HandEdit, thread
<1>5. ASSUME NEW l \in Labels, NEW x \in Docs, StartWrite(l, x) PROVE OneInv'
  BY <1>1, <1>2, <1>5, OneQuiet, ThreadAssumption DEF StartWrite, Goto, disk,
     ghosts, Writing
<1>6. ASSUME NEW m \in DOMAIN shown, StartRollback(m) PROVE OneInv'
  BY <1>1, <1>2, <1>6, OneQuiet, ThreadAssumption DEF StartRollback, Goto, disk,
     ghosts, Writing
<1>7. CASE ReadTarget \/ ReadBackup
  BY <1>1, <1>2, <1>7, OneQuiet, ThreadAssumption DEF ReadTarget, ReadBackup,
     Goto, disk, ghosts, Writing
<1>8. CASE WriteConfig \/ WriteConfigError
  BY <1>1, <1>2, <1>8, OneQuiet, ThreadAssumption DEF WriteConfig,
     WriteConfigError, Return, disk, ghosts, Writing
<1>9. ASSUME NEW t \in Applies, NEW x \in Docs, StartApply(t, x) PROVE OneInv'
  BY <1>9 DEF StartApply, OneThread
<1>10. ASSUME NEW t \in Applies, ApplyChange(t) \/ ApplyEnd(t) PROVE OneInv'
  BY <1>2, <1>10 DEF ApplyChange, ApplyEnd
<1>11. ASSUME NEW t \in Threads, AddSnapshot(t) PROVE OneInv'
  <2>1. t = Main
    BY <1>2, <1>11 DEF Threads, AddSnapshot, ReadIndex, SaveFile, SaveFileError,
       CreateTmp, WriteTmp, RenameTmp, RenameError
  <2>2. CASE SaveFileError(t) \/ RenameError(t)
    <3>1. Return(Main) /\ UNCHANGED <<inode, meta, tmp, recorded, mix>>
      BY <2>1, <2>2 DEF SaveFileError, RenameError, SaveFails, disk, ghosts
    <3> QED
      BY <1>1, <1>2, <3>1, OneQuiet, ThreadAssumption DEF Return, Writing
  <2> QED
    BY <1>11, <2>1, <2>2, ReadIndexOne, SaveFileOne, CreateTmpOne, WriteTmpOne,
       RenameTmpOne DEF AddSnapshot
<1>12. CASE Crash
  BY <1>1, <1>12, OneQuiet DEF Crash, disk, ghosts, Writing
<1> QED
  BY <1>3, <1>4, <1>5, <1>6, <1>7, <1>8, <1>9, <1>10, <1>11, <1>12 DEF Next

LEMMA AlwaysOne == Spec => [](IInv /\ ListsInv /\ OneInv)
<1>1. Init => OneInv
  BY OneInit
<1>2. (IInv /\ ListsInv) /\ OneInv /\ [Next]_vars => OneInv'
  BY OneStep
<1> QED
  BY <1>1, <1>2, AlwaysLists, PTL DEF Spec

\* As long as no apply writes the index on a thread of its own, an entry that
\* add_snapshot returned Ok for stays listed, until the list is full of
\* entries at least as new (history.rs:42-49 and 124-138), whatever commands
\* follow, fail or are cut short by a stop of the application.
THEOREM RecordedStays == Spec => []RecordedStayListed
<1>1. OneInv => RecordedStayListed
  BY DEF OneInv, Kept, StayIn, RecordedStayListed, EntriesStay
<1> QED
  BY <1>1, AlwaysOne, PTL

-----------------------------------------------------------------------------
(* Commands taken in turn, and what VersionedConfig says of them *)

\* The new snapshot holds the present text, and the index in hand has it
\* besides what is listed, of which an entry is missing only for room.
Listing ==
  /\ job[Main].new \in DOMAIN files /\ files[job[Main].new] = config
  /\ \E n \in idx[Main] : /\ Id(n) = job[Main].new
                          /\ idx[Main] \subseteq IndexOrDefault \cup {n}
  /\ IndexOrDefault \subseteq idx[Main] \/ Cardinality(IndexOrDefault) >= Cap

\* The present text is listed.
Listed == /\ \E m \in IndexOrDefault : Id(m) = job[Main].new
          /\ files[job[Main].new] = config

InDocs == config \in Docs /\ \A i \in DOMAIN files : files[i] \in Docs
FilesPast == \A i \in DOMAIN files : i.at < clock

Turn == /\ InDocs
        /\ pc[Main] \in Unsaved => FilesPast
        /\ pc[Main] \in {"read index", "save file"} => job[Main].before = config
        /\ pc[Main] \notin {"idle", "read target"} => job[Main].after \in Docs
        /\ pc[Main] \in Writing => Listing
        /\ pc[Main] = "saved" => Listed

TurnInv == InTurn => Turn

VInit == Versioned!Init
VNext == [Versioned!Next]_Versioned!vars
\* A step of the mapped variables, in turn.
VStep == \/ config' = config /\ Saved' = Saved
         \/ /\ config' = config
            /\ \E n \in Ids : /\ Saved' \in SUBSET (Saved \cup {<<n, config>>})
                              /\ <<n, config>> \in Saved'
            /\ Saved \subseteq Saved' \/ Cardinality(Saved) >= Cap
         \/ /\ \E n \in Ids : <<n, config>> \in Saved
            /\ config' \in Docs
            /\ Saved' = Saved

LEMMA MixStays == [Next]_vars => mix' = mix
BY DEF Next, Tick, HandEdit, StartWrite, ListHistory, StartRollback, ReadTarget,
   ReadBackup, WriteConfig, WriteConfigError, StartApply, ApplyChange, ApplyEnd,
   AddSnapshot, ReadIndex, SaveFile, SaveFileError, CreateTmp, WriteTmp,
   RenameTmp, RenameError, Crash, vars

LEMMA TurnInit == Init => TurnInv
<1> SUFFICES ASSUME Init PROVE Turn
  BY DEF TurnInv
<1>1. DOMAIN files = {} /\ pc[Main] = "idle"
  BY DEF Init, Threads
<1> QED
  BY <1>1, DocsAssumption DEF Init, Turn, InDocs, Unsaved, Writing

\* A step that leaves the configuration and the history alone, and the job's
\* place or the whole job.
LEMMA TurnQuiet ==
  ASSUME Turn, UNCHANGED <<config, files, inode, meta>>,
         \/ pc'[Main] = "idle"
         \/ /\ pc'[Main] = pc[Main] /\ job'[Main] = job[Main]
            /\ idx'[Main] = idx[Main]
            /\ FilesPast => FilesPast'
  PROVE  Turn' /\ VStep
<1>1. IndexOrDefault' = IndexOrDefault
  BY SameIndex
<1>2. Saved' = Saved
  BY <1>1 DEF Saved
<1>3. InDocs'
  BY DEF Turn, InDocs
<1>4. CASE pc'[Main] = "idle"
  BY <1>2, <1>3, <1>4 DEF Turn, Unsaved, Writing, VStep
<1>5. CASE pc'[Main] # "idle"
  <2>1. /\ pc'[Main] = pc[Main] /\ job'[Main] = job[Main]
        /\ idx'[Main] = idx[Main]
        /\ FilesPast => FilesPast'
    BY <1>5
  <2>2. (Listing => Listing') /\ (Listed => Listed')
    BY <1>1, <2>1 DEF Listing, Listed
  <2> QED
    BY <1>2, <1>3, <2>1, <2>2 DEF Turn, VStep
<1> QED
  BY <1>4, <1>5

\* The commands up to add_snapshot.
LEMMA StartTurn ==
  ASSUME IInv, Turn, InTurn,
         \/ \E l \in Labels, x \in Docs : StartWrite(l, x)
         \/ \E m \in DOMAIN shown : StartRollback(m)
         \/ ReadTarget
         \/ ReadBackup
         \/ ReadIndex(Main)
  PROVE  Turn' /\ VStep
<1>1. /\ Main \in Threads /\ job \in [Threads -> Jobs] /\ pc \in [Threads -> Places]
      /\ job[Main] \in Jobs
  BY DEF IInv, TypeOK, ThreadsOK, Threads
<1>2. UNCHANGED <<config, files, inode, meta, clock>>
  BY DEF StartWrite, StartRollback, ReadTarget, ReadBackup, ReadIndex, disk
<1>3. IndexOrDefault' = IndexOrDefault
  BY <1>2, SameIndex
<1>4. VStep
  BY <1>2, <1>3 DEF Saved, VStep
<1>5. InDocs' /\ (FilesPast => FilesPast') /\ ReadConfig = config
  BY <1>2, DocsAssumption DEF Turn, InDocs, FilesPast, ReadConfig
<1>6. ASSUME NEW l \in Labels, NEW x \in Docs, StartWrite(l, x) PROVE Turn'
  <2>1. FilesPast
    BY <1>6 DEF StartWrite, Waited, InTurn, FilesPast
  <2>2. /\ pc'[Main] = "read index"
        /\ job'[Main] = [Idle EXCEPT !.label = l, !.before = ReadConfig, !.after = x]
    BY <1>1, <1>6 DEF StartWrite, Goto
  <2>3. job'[Main].before = config /\ job'[Main].after = x
    BY <1>5, <2>2 DEF Idle
  <2> QED
    BY <1>2, <1>5, <2>1, <2>2, <2>3 DEF Turn, Unsaved, Writing
<1>7. ASSUME NEW m \in DOMAIN shown, StartRollback(m) PROVE Turn'
  <2>1. FilesPast
    BY <1>7 DEF StartRollback, Waited, InTurn, FilesPast
  <2>2. pc'[Main] = "read target"
    BY <1>1, <1>7 DEF StartRollback, Goto
  <2> QED
    BY <1>5, <2>1, <2>2 DEF Turn, Writing
<1>8. CASE ReadTarget
  <2>1. FilesPast
    BY <1>8 DEF ReadTarget, Turn, Unsaved
  <2>2. files[job[Main].of] \in Docs
    BY <1>8 DEF ReadTarget, IInv, ThreadInv, Threads, Turn, InDocs
  <2>3. /\ pc'[Main] = "read backup"
        /\ job'[Main] = [job[Main] EXCEPT !.after = files[job[Main].of]]
    BY <1>1, <1>8 DEF ReadTarget, Goto
  <2>4. job'[Main].after = files[job[Main].of]
    BY <1>1, <2>3 DEF Jobs
  <2> QED
    BY <1>4, <1>5, <2>1, <2>2, <2>3, <2>4 DEF Turn, Unsaved, Writing
<1>9. CASE ReadBackup
  <2>1. FilesPast /\ job[Main].after \in Docs
    BY <1>9 DEF ReadBackup, Turn, Unsaved
  <2>2. /\ pc'[Main] = "read index"
        /\ job'[Main] = [job[Main] EXCEPT !.before = ReadConfig]
    BY <1>1, <1>9 DEF ReadBackup, Goto
  <2>3. job'[Main].before = ReadConfig /\ job'[Main].after = job[Main].after
    BY <1>1, <2>2 DEF Jobs
  <2> QED
    BY <1>2, <1>4, <1>5, <2>1, <2>2, <2>3 DEF Turn, Unsaved, Writing
<1>10. CASE ReadIndex(Main)
  <2>1. FilesPast /\ job[Main].after \in Docs /\ job[Main].before = config
    BY <1>10 DEF ReadIndex, Turn, Unsaved
  <2>2. pc'[Main] = "save file" /\ job' = job
    BY <1>1, <1>10 DEF ReadIndex, Goto
  <2> QED
    BY <1>2, <1>4, <1>5, <2>1, <2>2 DEF Turn, Unsaved, Writing
<1> QED
  BY <1>4, <1>6, <1>7, <1>8, <1>9, <1>10

\* The file written is new, so no saved text is lost; and the index in hand
\* has the new entry.
LEMMA SaveFileTurn ==
  ASSUME IInv, ListsInv, Alone, Turn, SaveFile(Main)
  PROVE  Turn' /\ VStep
<1> DEFINE n == NewMeta(Main)
<1>1. /\ n \in Metas /\ n.at = clock /\ clock \in Nat
      /\ Id(n) = [at |-> clock, label |-> job[Main].label] /\ job[Main] \in Jobs
  BY NewMetaType, BoundAssumption DEF NewMeta, IInv, TypeOK, ThreadsOK, Threads,
     Times
<1>2. /\ pc[Main] = "save file" /\ pc'[Main] = "create tmp"
      /\ idx'[Main] = Upsert(idx[Main], n)
      /\ job'[Main] = [job[Main] EXCEPT !.new = Id(n)]
      /\ UNCHANGED <<config, inode, meta>>
  BY DEF SaveFile, Goto, IInv, TypeOK, ThreadsOK, Threads
<1>3. job'[Main].new = Id(n) /\ job'[Main].after = job[Main].after
  BY <1>1, <1>2 DEF Jobs
<1>4. idx[Main] = IndexOrDefault /\ IndexOrDefault' = IndexOrDefault
  BY <1>2, SameIndex DEF Alone
<1>5. job[Main].before = config /\ config \in Docs /\ job[Main].after \in Docs
  BY <1>2 DEF Turn, InDocs
<1>6. FilesPast
  BY <1>2 DEF Turn, Unsaved
<1>7. /\ DOMAIN files' = DOMAIN files \cup {Id(n)}
      /\ files'[Id(n)] = config
      /\ \A i \in DOMAIN files : i # Id(n) => files'[i] = files[i]
  BY <1>5 DEF SaveFile
<1>8. \A e \in IndexOrDefault : Id(e) \in DOMAIN files /\ e.at < clock
  BY <1>6, IndexHasFiles DEF IInv, HaveFiles, FilesPast, Id
<1>9. Saved' = Saved
  <2>1. \A e \in IndexOrDefault : Id(e) # Id(n)
    <3>1. \A e \in IndexOrDefault : e.at # n.at
      BY <1>1, <1>8
    <3> QED
      BY <3>1 DEF Id
  <2> QED
    BY <1>4, <1>7, <1>8, <2>1 DEF Saved
<1>10. Listing'
  <2>1. /\ IndexOrDefault \in SUBSET Metas
        /\ IsFiniteSet(IndexOrDefault) /\ Unique(IndexOrDefault)
    BY IndexHasFiles, IndexListed DEF IInv
  <2>2. /\ n \in idx'[Main] /\ idx'[Main] \subseteq IndexOrDefault \cup {n}
        /\ IndexOrDefault \subseteq idx'[Main] \/ Cardinality(IndexOrDefault) >= Cap
    <3>1. idx'[Main] = Upsert(IndexOrDefault, n) /\ \A e \in IndexOrDefault : e.at < n.at
      BY <1>1, <1>2, <1>4, <1>8
    <3> HIDE DEF n
    <3> QED
      BY <1>1, <2>1, <3>1, UpsertNewest
  <2> QED
    BY <1>2, <1>3, <1>4, <1>7, <2>2 DEF Listing
<1>11. InDocs'
  BY <1>2, <1>5, <1>7 DEF Turn, InDocs
<1> QED
  BY <1>2, <1>3, <1>5, <1>9, <1>10, <1>11 DEF Turn, Unsaved, VStep

\* The temporary file is prepared beside the index.
LEMMA TmpTurn ==
  ASSUME IInv, OneInv, OneThread, Turn, CreateTmp(Main) \/ WriteTmp(Main)
  PROVE  Turn' /\ VStep
<1>1. IndexOrDefault' = IndexOrDefault
  BY CreateTmpOne, WriteTmpOne
<1>2. UNCHANGED <<config, files, job, idx>>
  BY DEF CreateTmp, WriteTmp
<1>3. pc[Main] \in Writing /\ pc'[Main] \in {"write tmp", "rename tmp"}
  BY DEF CreateTmp, WriteTmp, Goto, Writing, IInv, TypeOK, ThreadsOK, Threads
<1>4. Saved' = Saved
  BY <1>1, <1>2 DEF Saved
<1>5. InDocs' /\ Listing' /\ job'[Main].after \in Docs
  BY <1>1, <1>2, <1>3 DEF Turn, InDocs, Listing, Writing
<1> QED
  BY <1>2, <1>3, <1>4, <1>5 DEF Turn, Unsaved, Writing, VStep

\* There are as many saved texts as entries, for no two have one id.
LEMMA SavedCount ==
  ASSUME IInv, ListsInv
  PROVE  Cardinality(Saved) = Cardinality(IndexOrDefault)
<1> DEFINE S == IndexOrDefault
           f == [m \in S |-> <<Id(m), files[Id(m)]>>]
<1>1. IsFiniteSet(S) /\ Unique(S)
  BY IndexListed
<1>2. f \in [S -> Saved] /\ \A y \in Saved : \E m \in S : f[m] = y
  BY DEF Saved
<1>3. \A c, d \in S : f[c] = f[d] => c = d
  <2> SUFFICES ASSUME NEW c \in S, NEW d \in S, f[c] = f[d] PROVE c = d
    OBVIOUS
  <2>1. Id(c) = Id(d)
    OBVIOUS
  <2> QED
    BY <1>1, <2>1 DEF Unique
<1> HIDE DEF f, S
<1>4. f \in Bijection(S, Saved)
  BY <1>2, <1>3 DEF Bijection, Injection, IsInjective, Surjection
<1>5. ExistsBijection(S, Saved)
  BY <1>4 DEF ExistsBijection
<1>6. Cardinality(Saved) = Cardinality(S)
  BY <1>1, <1>5, FS_Bijection
<1> QED
  BY <1>6 DEF S

\* The rename puts the present text among the saved ones.
LEMMA RenameTurn ==
  ASSUME IInv, ListsInv, OneInv, OneThread, Turn, RenameTmp(Main)
  PROVE  Turn' /\ VStep
<1>1. IndexOrDefault' = idx[Main]
  BY RenameTmpOne
<1>2. UNCHANGED <<config, files, job, idx>>
  BY DEF RenameTmp
<1>3. pc[Main] \in Writing /\ pc[Main] = "rename tmp" /\ pc'[Main] = "saved"
  BY DEF RenameTmp, Goto, Writing, IInv, TypeOK, ThreadsOK, Threads
<1>4. Listing /\ job[Main].after \in Docs
  BY <1>3 DEF Turn
<1>5. PICK n \in idx[Main] : /\ Id(n) = job[Main].new
                            /\ idx[Main] \subseteq IndexOrDefault \cup {n}
  BY <1>4 DEF Listing
<1>6. files[job[Main].new] = config
  BY <1>4 DEF Listing
<1>7. Id(n) \in Ids
  BY IdType DEF IInv, TypeOK, ThreadsOK, Threads
<1>8. Saved' = {<<Id(m), files[Id(m)]>> : m \in idx[Main]}
  BY <1>1, <1>2 DEF Saved
<1>9. Saved' \in SUBSET (Saved \cup {<<Id(n), config>>}) /\ <<Id(n), config>> \in Saved'
  BY <1>5, <1>6, <1>8 DEF Saved
<1>10. Saved \subseteq Saved' \/ Cardinality(Saved) >= Cap
  <2>1. CASE IndexOrDefault \subseteq idx[Main]
    BY <1>8, <2>1 DEF Saved
  <2>2. CASE Cardinality(IndexOrDefault) >= Cap
    BY <2>2, SavedCount
  <2> QED
    BY <1>4, <2>1, <2>2 DEF Listing
<1>11. VStep
  BY <1>2, <1>7, <1>9, <1>10 DEF VStep
<1>12. Turn'
  BY <1>1, <1>2, <1>3, <1>4, <1>5, <1>6 DEF Turn, InDocs, Listed, Unsaved, Writing
<1> QED
  BY <1>11, <1>12

\* The configuration is replaced when its text is listed.
LEMMA WriteConfigTurn ==
  ASSUME IInv, Turn, WriteConfig
  PROVE  Turn' /\ VStep
<1>1. UNCHANGED <<files, inode, meta>> /\ config' = job[Main].after
  BY DEF WriteConfig
<1>2. pc[Main] = "saved" /\ pc'[Main] = "idle"
  BY DEF WriteConfig, Return, IInv, TypeOK, ThreadsOK, Threads
<1>3. job[Main].after \in Docs /\ Listed
  BY <1>2 DEF Turn
<1>4. PICK m \in IndexOrDefault : Id(m) = job[Main].new /\ files[Id(m)] = config
  BY <1>3 DEF Listed
<1>5. Id(m) \in Ids /\ <<Id(m), config>> \in Saved
  BY <1>4, IdType, IndexHasFiles DEF IInv, Saved
<1>6. Saved' = Saved
  BY <1>1, SameIndex DEF Saved
<1>7. Turn'
  BY <1>1, <1>2, <1>3 DEF Turn, InDocs, Unsaved, Writing
<1> QED
  BY <1>1, <1>3, <1>5, <1>6, <1>7 DEF VStep

LEMMA TurnStep ==
  ASSUME IInv, ListsInv, OneInv, InTurn, Turn, [Next]_vars
  PROVE  Turn' /\ VStep
<1>1. Main \in Threads /\ Applies \subseteq Threads /\ pc \in [Threads -> Places]
  BY DEF Threads, IInv, TypeOK, ThreadsOK
<1>2. OneThread /\ Alone /\ \A t \in Applies : pc[t] = "idle"
  BY DEF OneInv, Alone, InTurn, OneThread
<1>3. CASE Tick
  <2>1. FilesPast => FilesPast'
    <3>1. clock' = clock + 1 /\ clock \in Nat /\ files' = files
      BY <1>3, BoundAssumption DEF Tick, IInv, TypeOK, Times, disk
    <3>2. \A i \in DOMAIN files : i.at \in Nat
      BY BoundAssumption DEF IInv, TypeOK, FilesOK, Ids, Times
    <3> QED
      BY <3>1, <3>2 DEF FilesPast
  <2> QED
    BY <1>3, <2>1, TurnQuiet DEF Tick, disk, thread
<1>4. CASE ListHistory \/ UNCHANGED vars
  BY <1>4, TurnQuiet DEF ListHistory, vars, disk, thread, FilesPast
<1>5. ASSUME NEW x \in BadDocs, HandEdit(x) PROVE FALSE
  BY <1>5 DEF HandEdit, InTurn
<1>6. ASSUME NEW t \in Applies, NEW x \in Docs, StartApply(t, x) PROVE FALSE
  BY <1>6 DEF StartApply, InTurn
<1>7. ASSUME NEW t \in Applies, ApplyChange(t) \/ ApplyEnd(t) PROVE FALSE
  BY <1>2, <1>7 DEF ApplyChange, ApplyEnd
<1>8. CASE WriteConfig
  BY <1>8, WriteConfigTurn
<1>9. CASE WriteConfigError
  BY <1>1, <1>9, TurnQuiet DEF WriteConfigError, Return, disk
<1>10. ASSUME NEW t \in Threads, AddSnapshot(t) PROVE Turn' /\ VStep
  <2>1. t = Main
    BY <1>2, <1>10 DEF Threads, AddSnapshot, ReadIndex, SaveFile, SaveFileError,
       CreateTmp, WriteTmp, RenameTmp, RenameError
  <2>2. CASE SaveFileError(t) \/ RenameError(t)
    BY <1>1, <2>1, <2>2, TurnQuiet DEF SaveFileError, RenameError, SaveFails,
       Return, disk
  <2> QED
    BY <1>2, <1>10, <2>1, <2>2, StartTurn, SaveFileTurn, TmpTurn, RenameTurn
       DEF AddSnapshot
<1>11. CASE Crash
  BY <1>1, <1>11, TurnQuiet DEF Crash, disk
<1> QED
  BY <1>3, <1>4, <1>5, <1>6, <1>7, <1>8, <1>9, <1>10, <1>11, StartTurn DEF Next

LEMMA VersionedInit == Init => VInit
<1> SUFFICES ASSUME Init PROVE VInit
  OBVIOUS
<1>1. IndexOrDefault = {}
  BY TornAssumption DEF Init, IndexOrDefault, Index
<1> QED
  BY <1>1 DEF Init, VInit, Versioned!Init, Saved

\* VersionedConfig counts as SnapshotHistory does.
LEMMA SameCount == \A S : Versioned!Cardinality(S) = Cardinality(S)
BY DEF Cardinality, Versioned!Cardinality

LEMMA VersionedStep ==
  ASSUME IInv, ListsInv, OneInv, TurnInv, [Next]_vars
  PROVE  TurnInv' /\ VNext
<1>1. InTurn' = InTurn
  BY MixStays DEF InTurn
<1>2. CASE ~InTurn
  BY <1>1, <1>2 DEF TurnInv, VNext, Versioned!vars
<1>3. CASE InTurn
  <2>1. Turn' /\ VStep
    BY <1>3, TurnStep DEF TurnInv
  <2>2. ASSUME config' = config, Saved' = Saved PROVE VNext
    BY <1>1, <1>3, <2>2 DEF VNext, Versioned!vars
  <2>3. ASSUME config' = config, NEW n \in Ids,
               Saved' \in SUBSET (Saved \cup {<<n, config>>}),
               <<n, config>> \in Saved',
               Saved \subseteq Saved' \/ Cardinality(Saved) >= Cap
        PROVE  VNext
    <3>1. /\ (IF InTurn THEN config ELSE First) = config
          /\ (IF InTurn THEN config ELSE First)' = config
          /\ (IF InTurn THEN Saved ELSE {}) = Saved
          /\ (IF InTurn THEN Saved ELSE {})' = Saved'
      BY <1>1, <1>3, <2>3
    <3>2. Versioned!Save
      BY <2>3, <3>1, SameCount DEF Versioned!Save
    <3> QED
      BY <3>2 DEF VNext, Versioned!Next
  <2>4. ASSUME config' \in Docs, Saved' = Saved,
               NEW n \in Ids, <<n, config>> \in Saved
        PROVE  VNext
    <3>1. Versioned!Replace
      BY <1>1, <1>3, <2>4 DEF Versioned!Replace
    <3> QED
      BY <3>1 DEF VNext, Versioned!Next
  <2>5. VNext
    BY <2>1, <2>2, <2>3, <2>4 DEF VStep
  <2> QED
    BY <1>1, <2>1, <2>5 DEF TurnInv
<1> QED
  BY <1>2, <1>3

\* Taken one at a time and a second apart, without hand edits that do not
\* parse, the commands implement VersionedConfig: openclaw.json is replaced
\* only when its present text is in the index and in its file, and a saved
\* text leaves only a full list (commands/config.rs:349-372, history.rs:96-138).
THEOREM HistoryIsVersioned == Spec => ConfigIsVersioned
<1>1. Init => VInit /\ TurnInv
  BY VersionedInit, TurnInit
<1>2. (IInv /\ ListsInv /\ OneInv) /\ TurnInv /\ [Next]_vars => TurnInv' /\ VNext
  BY VersionedStep
<1> QED
  BY <1>1, <1>2, AlwaysOne, PTL DEF Spec, ConfigIsVersioned, VInit, VNext,
     Versioned!Spec
=============================================================================
