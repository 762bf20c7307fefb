-------------------------- MODULE SnapshotHistory --------------------------
(***************************************************************************)
(* The local configuration history of ClawPal: history.rs (snapshot files  *)
(* and their index, metadata.json), the commands of commands/config.rs     *)
(* that save a snapshot and then replace openclaw.json, the rollback, and  *)
(* the History page that offers it.                                        *)
(*                                                                         *)
(* The synchronous commands run one at a time on the main thread (Main).   *)
(* An apply of the pending queue runs on a thread of its own and saves a   *)
(* snapshot the same way; CommandApply models the rest of it.  The index   *)
(* is read, extended and replaced without a lock, through one temporary    *)
(* file whose name all threads share, so files are modelled as inodes:     *)
(* truncating, writing and renaming are separate steps.                    *)
(***************************************************************************)
EXTENDS Naturals, FiniteSets

CONSTANTS
  Docs,         \* texts that parse
  BadDocs,      \* texts a hand edit leaves behind that do not parse
  EmptyDoc,     \* the document "{}", in Docs
  First,        \* the text at the start, in Docs
  Main,         \* the main thread
  Applies,      \* threads of apply_queued_commands
  Labels,       \* sources of the direct writes: "set-agent-model", ...
  ApplyLabel,   \* the summary or recipe name under which an apply saves
  NoInode,      \* no file of that name
  Inodes,       \* inodes for metadata.json and its temporary file
  Torn,         \* the content of an index overwritten in part
  Cap,          \* the length upsert_snapshot truncates to (200 in the code)
  MaxClock,     \* bound: seconds that may pass
  MaxShort,     \* bound: the same where commands share a second
  MaxCrashes,   \* bound: how often the application may stop
  Mixes         \* what may happen besides, in one behaviour or another

Threads == {Main} \cup Applies
AllLabels == Labels \cup {ApplyLabel}
Texts == Docs \cup BadDocs
Times == 0..MaxClock

\* The user rolls back, edits openclaw.json by hand, makes two changes within
\* a second; the pending queue is applied; the application stops.
Disturbances == {"rollback", "edit", "twice", "apply", "stop"}

ASSUME DocsAssumption == /\ EmptyDoc \in Docs
                         /\ First \in Docs
                         /\ Docs \cap BadDocs = {}
ASSUME ThreadAssumption == Main \notin Applies
ASSUME InodeAssumption == NoInode \notin Inodes
ASSUME CapAssumption == Cap \in Nat \ {0}
ASSUME MixesAssumption == Mixes \subseteq SUBSET Disturbances
ASSUME BoundAssumption ==
  MaxClock \in Nat /\ MaxShort \in 0..MaxClock /\ MaxCrashes \in Nat

VARIABLES
  mix,       \* the disturbances of this behaviour, chosen at its start
  clock,     \* Utc::now(), in whole seconds as the ids have it
  config,    \* the text of openclaw.json
  files,     \* the snapshot files: id to text
  inode,     \* the content of each inode: a set of metas, or Torn
  meta,      \* the inode of metadata.json, or NoInode
  tmp,       \* the inode of metadata.tmp, or NoInode
  pc,        \* where each thread is
  job,       \* what it does: the snapshot's label and source, its texts
  idx,       \* the index it has read, then the one it writes
  fd,        \* the inode it has open
  shown,     \* the metas on the History page, each with the text it had then
  used,      \* texts openclaw.json has held
  recorded,  \* metas of add_snapshot calls that returned Ok
  mistaken,  \* whether a rollback wrote another text than the page promised
  crashes

disk == <<config, files, inode, meta, tmp>>
thread == <<pc, job, idx, fd>>
ghosts == <<used, recorded, mistaken>>
context == <<mix, crashes>>
vars == <<clock, disk, thread, shown, ghosts, context>>

\* SnapshotMeta; its id is the second and the label, so two snapshots of one
\* second with one label have one id and one file.
Metas == [at : Times, label : AllLabels, source : {"write", "rollback"}]
Ids == [at : Times, label : AllLabels]
Id(m) == [at |-> m.at, label |-> m.label]

ASSUME TornAssumption == \A S \in SUBSET Metas : S # Torn

\* list_snapshots: a missing file and an empty one are an empty index.
Index == IF meta = NoInode THEN {} ELSE inode[meta]
IndexOrDefault == IF Index = Torn THEN {} ELSE Index

\* Mutant: sorted oldest first, so that the newest is dropped.
UpsertAscending(index, m) ==
  LET all == {e \in index : Id(e) # Id(m)} \cup {m}
      last == CHOOSE e \in all : \A o \in all : e.at >= o.at
  IN  IF Cardinality(all) > Cap THEN all \ {last} ELSE all

\* upsert_snapshot: replaces the entry of the same id, and when there are too
\* many drops the last of the list, which is sorted by time, newest first.
Upsert(index, m) ==
  LET all == {e \in index : Id(e) # Id(m)} \cup {m}
      last == CHOOSE e \in all : \A o \in all : e.at <= o.at
  IN  IF Cardinality(all) > Cap THEN all \ {last} ELSE all

Unused == Docs \ used
\* read_openclaw_config: a text that does not parse is read as "{}".
ReadConfig == IF config \in BadDocs THEN EmptyDoc ELSE config

Idle == [label |-> ApplyLabel, source |-> "write", before |-> EmptyDoc,
         after |-> EmptyDoc, of |-> [at |-> 0, label |-> ApplyLabel],
         new |-> [at |-> 0, label |-> ApplyLabel]]

Init == /\ mix \in Mixes
        /\ clock = 0
        /\ config = First
        /\ files = <<>>
        /\ inode = [i \in Inodes |-> {}]
        /\ meta = NoInode
        /\ tmp = NoInode
        /\ pc = [t \in Threads |-> "idle"]
        /\ job = [t \in Threads |-> Idle]
        /\ idx = [t \in Threads |-> {}]
        /\ fd = [t \in Threads |-> NoInode]
        /\ shown = <<>>
        /\ used = {First, EmptyDoc}
        /\ recorded = {}
        /\ mistaken = FALSE
        /\ crashes = 0

Goto(t, l) == pc' = [pc EXCEPT ![t] = l]
\* The thread's call returns and its locals are gone.
Return(t) == /\ pc' = [pc EXCEPT ![t] = "idle"]
             /\ job' = [job EXCEPT ![t] = Idle]
             /\ idx' = [idx EXCEPT ![t] = {}]

\* add_snapshot returns Err: a command of the main thread returns it, an apply
\* drops it.
SaveFails(t) == IF t = Main THEN Return(t)
                            ELSE Goto(t, "save failed") /\ UNCHANGED <<job, idx>>

Tick == /\ clock < IF mix \cap {"apply", "twice"} = {} THEN MaxClock ELSE MaxShort
        /\ clock' = clock + 1
        /\ UNCHANGED <<disk, thread, shown, ghosts, context>>

\* The user's hand edit with a syntax error, while the application rests.
HandEdit(x) == /\ "edit" \in mix
               /\ pc = [t \in Threads |-> "idle"]
               /\ x \in BadDocs \ used
               /\ config' = x
               /\ used' = used \cup {x}
               /\ UNCHANGED <<clock, files, inode, meta, tmp, thread, shown,
                              recorded, mistaken, context>>

\* Without "twice", a command waits for the next second.
Waited == "twice" \in mix \/ \A i \in DOMAIN files : i.at < clock

-----------------------------------------------------------------------------
(* The commands of the main thread *)

\* set_agent_model, delete_agent, apply_config_patch, ...: the configuration
\* is read and the next document x computed from it.
StartWrite(l, x) ==
  /\ pc[Main] = "idle"
  /\ Waited
  /\ x \in Unused
  /\ job' = [job EXCEPT ![Main] =
       [Idle EXCEPT !.label = l, !.before = ReadConfig, !.after = x]]
  /\ Goto(Main, "read index")
  /\ UNCHANGED <<clock, disk, idx, fd, shown, ghosts, context>>

\* list_history: an index that does not parse is an error, the page keeps
\* what it had.
ListHistory ==
  /\ pc[Main] = "idle"
  /\ Index # Torn
  /\ shown' = [m \in Index |-> files[Id(m)]]
  /\ UNCHANGED <<clock, disk, thread, ghosts, context>>

\* The page offers the button for entries that are no rollbacks themselves;
\* the command finds the entry by its id in the index as it is now.
Offered(m) == m.source # "rollback"

StartRollback(m) ==
  /\ "rollback" \in mix
  /\ pc[Main] = "idle"
  /\ Waited
  /\ m \in DOMAIN shown
  /\ Offered(m)
  /\ Index # Torn
  /\ \E e \in Index :
       /\ Id(e) = Id(m)
       /\ job' = [job EXCEPT ![Main] =
            [Idle EXCEPT !.label = e.label, !.source = "rollback",
                         !.of = Id(e)]]
  /\ Goto(Main, "read target")
  /\ UNCHANGED <<clock, disk, idx, fd, shown, ghosts, context>>

\* Mutant: the newest snapshot in place of the chosen one.
ReadTargetNewest ==
  /\ pc[Main] = "read target"
  /\ \E i \in DOMAIN files : /\ \A o \in DOMAIN files : i.at >= o.at
                            /\ job' = [job EXCEPT ![Main].after = files[i]]
  /\ Goto(Main, "read backup")
  /\ UNCHANGED <<clock, disk, idx, fd, shown, ghosts, context>>

ReadTarget ==
  /\ pc[Main] = "read target"
  /\ job' = [job EXCEPT ![Main].after = files[job[Main].of]]
  /\ Goto(Main, "read backup")
  /\ UNCHANGED <<clock, disk, idx, fd, shown, ghosts, context>>

ReadBackup ==
  /\ pc[Main] = "read backup"
  /\ job' = [job EXCEPT ![Main].before = ReadConfig]
  /\ Goto(Main, "read index")
  /\ UNCHANGED <<clock, disk, idx, fd, shown, ghosts, context>>

\* write_text of the next document, after add_snapshot has returned Ok.
WriteConfig ==
  /\ pc[Main] = "saved"
  /\ config' = job[Main].after
  /\ used' = used \cup {job[Main].after}
  /\ mistaken' = (mistaken \/
       \E m \in DOMAIN shown : /\ job[Main].source = "rollback"
                               /\ Id(m) = job[Main].of
                               /\ shown[m] # job[Main].after)
  /\ Return(Main)
  /\ UNCHANGED <<clock, files, inode, meta, tmp, fd, shown, recorded, context>>

\* The template of a patch does not apply, or write_text fails: the snapshot
\* stays, the configuration too.
WriteConfigError ==
  /\ pc[Main] = "saved"
  /\ Return(Main)
  /\ UNCHANGED <<clock, disk, fd, shown, ghosts, context>>

-----------------------------------------------------------------------------
(* An apply of the pending queue *)

StartApply(t, x) ==
  /\ "apply" \in mix
  /\ pc[t] = "idle"
  /\ Waited
  /\ x \in Unused
  /\ job' = [job EXCEPT ![t] = [Idle EXCEPT !.before = config, !.after = x]]
  /\ Goto(t, "read index")
  /\ UNCHANGED <<clock, disk, idx, fd, shown, ghosts, context>>

\* Its commands change the configuration whether the snapshot was saved or not.
ApplyChange(t) ==
  /\ t # Main
  /\ pc[t] \in {"saved", "save failed"}
  /\ config' = job[t].after
  /\ used' = used \cup {job[t].after}
  /\ Goto(t, "changed")
  /\ UNCHANGED <<clock, files, inode, meta, tmp, job, idx, fd, shown, recorded,
                 mistaken, context>>

ApplyEnd(t) ==
  /\ pc[t] = "changed"
  /\ config' \in {config, job[t].before}
  /\ Return(t)
  /\ UNCHANGED <<clock, files, inode, meta, tmp, fd, shown, ghosts, context>>

-----------------------------------------------------------------------------
(* add_snapshot, on any thread *)

ReadIndex(t) ==
  /\ pc[t] = "read index"
  /\ idx' = [idx EXCEPT ![t] = IndexOrDefault]
  /\ Goto(t, "save file")
  /\ UNCHANGED <<clock, disk, job, fd, shown, ghosts, context>>

\* Mutant: the two string arguments of add_snapshot swapped.
NewMetaSwapped(t) == [at |-> clock, label |-> job[t].source, source |-> job[t].label]

NewMeta(t) == [at |-> clock, label |-> job[t].label, source |-> job[t].source]

SaveFile(t) ==
  /\ pc[t] = "save file"
  /\ files' = [i \in DOMAIN files \cup {Id(NewMeta(t))} |->
                 IF i = Id(NewMeta(t)) THEN job[t].before ELSE files[i]]
  /\ idx' = [idx EXCEPT ![t] = Upsert(@, NewMeta(t))]
  /\ job' = [job EXCEPT ![t].new = Id(NewMeta(t))]
  /\ Goto(t, "create tmp")
  /\ UNCHANGED <<clock, config, inode, meta, tmp, fd, shown, ghosts, context>>

\* Mutant: the failure is dropped and the entry written.
SaveFileErrorIgnored(t) ==
  /\ pc[t] = "save file"
  /\ idx' = [idx EXCEPT ![t] = Upsert(@, NewMeta(t))]
  /\ job' = [job EXCEPT ![t].new = Id(NewMeta(t))]
  /\ Goto(t, "create tmp")
  /\ UNCHANGED <<clock, disk, fd, shown, ghosts, context>>

\* fs::write of the snapshot file fails.
SaveFileError(t) ==
  /\ pc[t] = "save file"
  /\ SaveFails(t)
  /\ UNCHANGED <<clock, disk, fd, shown, ghosts, context>>

\* File::create: a new inode, or the existing one emptied.
FreeInodes == Inodes \ ({meta, tmp} \cup {fd[t] : t \in Threads})

\* Mutant: the index is overwritten in place.
CreateTmpInPlace(t) ==
  /\ pc[t] = "create tmp"
  /\ \E i \in IF meta = NoInode THEN FreeInodes ELSE {meta} :
       /\ inode' = [inode EXCEPT ![i] = {}]
       /\ tmp' = i
       /\ fd' = [fd EXCEPT ![t] = i]
  /\ Goto(t, "write tmp")
  /\ UNCHANGED <<clock, config, files, meta, job, idx, shown, ghosts, context>>

CreateTmp(t) ==
  /\ pc[t] = "create tmp"
  /\ \E i \in IF tmp = NoInode THEN FreeInodes ELSE {tmp} :
       /\ inode' = [inode EXCEPT ![i] = {}]
       /\ tmp' = i
       /\ fd' = [fd EXCEPT ![t] = i]
  /\ Goto(t, "write tmp")
  /\ UNCHANGED <<clock, config, files, meta, job, idx, shown, ghosts, context>>

\* write_all at the start of the inode.  If another thread has written a text
\* of its own there, the end of a longer one stays.
WriteTmp(t) ==
  /\ pc[t] = "write tmp"
  /\ \E c \in IF inode[fd[t]] \in {{}, idx[t]} THEN {idx[t]}
                                               ELSE {idx[t], Torn} :
       inode' = [inode EXCEPT ![fd[t]] = c]
  /\ Goto(t, "rename tmp")
  /\ UNCHANGED <<clock, config, files, meta, tmp, job, idx, fd, shown, ghosts,
                 context>>

RenameTmp(t) ==
  /\ pc[t] = "rename tmp"
  /\ tmp # NoInode
  /\ meta' = tmp
  /\ tmp' = NoInode
  /\ fd' = [fd EXCEPT ![t] = NoInode]
  /\ recorded' = recorded \cup {m \in idx[t] : Id(m) = job[t].new}
  /\ Goto(t, "saved")
  /\ UNCHANGED <<clock, config, files, inode, job, idx, shown, used, mistaken,
                 context>>

\* Another thread has renamed the file away.
RenameError(t) ==
  /\ pc[t] = "rename tmp"
  /\ tmp = NoInode
  /\ fd' = [fd EXCEPT ![t] = NoInode]
  /\ SaveFails(t)
  /\ UNCHANGED <<clock, disk, shown, ghosts, context>>

AddSnapshot(t) == \/ ReadIndex(t) \/ SaveFile(t) \/ SaveFileError(t)
                  \/ CreateTmp(t) \/ WriteTmp(t) \/ RenameTmp(t)
                  \/ RenameError(t)

-----------------------------------------------------------------------------
\* The application stops: what is on disk stays, the temporary file included.
Crash == /\ "stop" \in mix
         /\ crashes < MaxCrashes
         /\ crashes' = crashes + 1
         /\ pc' = [t \in Threads |-> "idle"]
         /\ job' = [t \in Threads |-> Idle]
         /\ idx' = [t \in Threads |-> {}]
         /\ fd' = [t \in Threads |-> NoInode]
         /\ shown' = <<>>
         /\ UNCHANGED <<mix, clock, disk, ghosts>>

Next == \/ Tick
        \/ \E x \in BadDocs : HandEdit(x)
        \/ \E l \in Labels, x \in Docs : StartWrite(l, x)
        \/ ListHistory
        \/ \E m \in DOMAIN shown : StartRollback(m)
        \/ ReadTarget
        \/ ReadBackup
        \/ WriteConfig
        \/ WriteConfigError
        \/ \E t \in Applies, x \in Docs : StartApply(t, x)
        \/ \E t \in Applies : ApplyChange(t) \/ ApplyEnd(t)
        \/ \E t \in Threads : AddSnapshot(t)
        \/ Crash

Spec == Init /\ [][Next]_vars

-----------------------------------------------------------------------------
(* Properties *)

FilesOK == DOMAIN files \subseteq Ids /\ \A i \in DOMAIN files : files[i] \in Texts
IndexOK == /\ inode \in [Inodes -> (SUBSET Metas) \cup {Torn}]
           /\ meta \in Inodes \cup {NoInode}
           /\ tmp \in Inodes \cup {NoInode}
Jobs == [label : AllLabels, source : {"write", "rollback"}, before : Texts,
         after : Texts, of : Ids, new : Ids]
Places == {"idle", "read target", "read backup", "read index", "save file",
           "create tmp", "write tmp", "rename tmp", "saved", "save failed",
           "changed"}
ThreadsOK == /\ pc \in [Threads -> Places]
             /\ job \in [Threads -> Jobs]
             /\ idx \in [Threads -> SUBSET Metas]
             /\ fd \in [Threads -> Inodes \cup {NoInode}]
ShownOK == /\ DOMAIN shown \subseteq Metas
           /\ \A m \in DOMAIN shown : shown[m] \in Texts
GhostsOK == /\ used \in SUBSET Texts /\ recorded \in SUBSET Metas
            /\ mistaken \in BOOLEAN

\* Every variable has its type (history.rs:11-29 and the arguments of
\* add_snapshot).
TypeOK == /\ mix \in Mixes
          /\ clock \in Times /\ config \in Texts /\ crashes \in 0..MaxCrashes
          /\ FilesOK /\ IndexOK /\ ThreadsOK /\ ShownOK /\ GhostsOK

\* Every snapshot the index lists has its file, whatever threads overlap and
\* wherever the application stops: add_snapshot writes the file first
\* (history.rs:107) and the index after it (history.rs:124).
ListedHaveFiles ==
  \A i \in Inodes : inode[i] # Torn => \A m \in inode[i] : Id(m) \in DOMAIN files

\* The threads that write the index do not overlap.
OneThread == "apply" \notin mix
\* And each command reads a text that parses, in a second of its own.
InTurn == mix \cap {"apply", "edit", "twice"} = {}

\* "Every config change is snapshotted; roll back to any point in time"
\* (README.md:13): an entry that was recorded stays in the index until the
\* list is full of entries at least as new.
EntriesStay ==
  \A m \in recorded :
    \/ \E e \in IndexOrDefault : Id(e) = Id(m)
    \/ Cardinality({e \in IndexOrDefault : e.at >= m.at}) >= Cap

\* A snapshot that add_snapshot returned Ok for (history.rs:124-138) stays
\* listed, as long as no apply writes the index on a thread of its own.
RecordedStayListed == OneThread => EntriesStay

\* A rollback writes the text its entry had when the page listed it
\* (commands/config.rs:377-416), an apply overlapping or not; two applies that
\* save in one second would share an id and its file.
RollbackKeepsPromise == "twice" \notin mix => ~mistaken

\* The texts the history can bring back.
Saved == {<<Id(m), files[Id(m)]>> : m \in IndexOrDefault}

\* Where the commands are not taken in turn, the mapping stands still.
Versioned == INSTANCE VersionedConfig WITH
  Names <- Ids, Texts <- Docs,
  config <- IF InTurn THEN config ELSE First,
  saved <- IF InTurn THEN Saved ELSE {}

\* Taken one at a time and a second apart, the commands keep the promise of
\* VersionedConfig: openclaw.json is only replaced once its text is listed.
ConfigIsVersioned == Versioned!Spec
=============================================================================
