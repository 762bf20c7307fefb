------------------------------ MODULE BugReports ------------------------------
(***************************************************************************)
(* Bug reports (src-tauri/src/bug_report/collector.rs, queue.rs): a report *)
(* is written to a file of pending reports, handed to a sender thread      *)
(* under a limit per hour, and marked as sent; what is still pending when  *)
(* the application starts is sent by a flush, or becomes a dead letter.    *)
(*                                                                         *)
(* One lock covers the three files.  Files are written one after the       *)
(* other, in place; a write that fails leaves a part of its file and gives *)
(* up the rest of the change.  The reports' server is external.            *)
(***************************************************************************)
EXTENDS Naturals, Sequences, SequencesExt

CONSTANTS
  Reports,       \* the reports captured, by their ids
  Low,           \* those below the severity threshold
  MaxPending, MaxDeadLetter, RetryLimit,
  MaxPerHour,    \* settings.max_reports_per_hour
  Mixes,         \* what may go wrong, in one behaviour or another
  MaxBoots,      \* bound: starts of the application
  MaxHours,      \* bound: hours that pass
  MaxTests,      \* bound: test reports
  Nobody         \* no report, no holder

\* The application may stop at any time but in the middle of a change of the
\* files; or between two files as well; or even within a file; and files may
\* fail to be read or written while it goes on.
Faults == {"between", "within", "errors"}

ASSUME LowAssumption == Low \subseteq Reports
ASSUME MixesAssumption == Mixes \subseteq SUBSET Faults
ASSUME BoundsAssumption ==
  /\ MaxPending \in Nat \ {0} /\ MaxDeadLetter \in Nat \ {0}
  /\ RetryLimit \in Nat \ {0} /\ MaxPerHour \in Nat \ {0}
  /\ MaxBoots \in Nat \ {0} /\ MaxHours \in Nat /\ MaxTests \in Nat
ASSUME NobodyAssumption ==
  /\ Nobody \notin Reports \cup {"flush", "mark"}
  /\ {"flush", "mark"} \cap Reports = {}

VARIABLES
  mix,
  file,       \* pending.jsonl, dead_letter.jsonl, sent.jsonl
  dropped,    \* what fell out at the end of a full file
  holder,     \* who holds pending_lock: a report's capture, flush or mark_sent
  writes,     \* the files the holder has still to write, with their content
  boots,      \* starts of the application so far
  starting,   \* where the startup is: "clean", "flush", "sending", "up"
  batch, keep, dead, sent,  \* what flush has read, and where it puts it
  enabled,    \* settings.enabled
  capture,    \* where the capture of each report is
  channel,    \* the sender's channel
  sender,     \* the sender thread, and the report it has in hand
  waiting,    \* pending_reports
  stamps,     \* sent_timestamps within the hour
  hours, tests, testing,
  received    \* the reports the server has got

diskVars == <<file, dropped, holder, writes>>
flushVars == <<starting, batch, keep, dead, sent>>
rateVars == <<waiting, stamps, hours, tests, testing>>
sendVars == <<channel, sender>>
vars == <<mix, diskVars, boots, flushVars, enabled, capture, sendVars,
          rateVars, received>>

Idle == [pc |-> "idle", id |-> Nobody]
Files == {"pending", "dead", "sent"}
Ids(entries) == {entries[i].id : i \in DOMAIN entries}
Entry(r) == [id |-> r, attempts |-> 0]

Init ==
  /\ mix \in Mixes
  /\ file = [f \in Files |-> <<>>] /\ dropped = {}
  /\ holder = Nobody /\ writes = <<>>
  /\ boots = 1 /\ starting = "clean"
  /\ batch = <<>> /\ keep = <<>> /\ dead = <<>> /\ sent = <<>>
  /\ enabled \in BOOLEAN
  /\ capture = [r \in Reports |-> "none"]
  /\ channel = <<>> /\ sender = Idle
  /\ waiting = 0 /\ stamps = 0 /\ hours = 0 /\ tests = 0 /\ testing = FALSE
  /\ received = {}

-----------------------------------------------------------------------------
(* The files (QueueStore).                                                 *)

Free == holder = Nobody

\* Mutant: a full file is not cut.
NewestAll(n, s) == s

\* The newest entries that fit.
Newest(n, s) == IF Len(s) <= n THEN s ELSE SubSeq(s, Len(s) - n + 1, Len(s))

Write(f, content) == [file |-> f, content |-> content]

\* write_jsonl of the next file; with the last one the lock is released.
WriteNext ==
  /\ writes # <<>>
  /\ file' = [file EXCEPT ![Head(writes).file] = Head(writes).content]
  /\ writes' = Tail(writes)
  /\ holder' = IF Len(writes) = 1 THEN Nobody ELSE holder
  /\ capture' = [r \in Reports |-> IF Len(writes) = 1 /\ holder = r
                                   THEN "persisted" ELSE capture[r]]
  /\ sender' = IF Len(writes) = 1 /\ holder = "mark" THEN Idle ELSE sender
  /\ starting' = IF Len(writes) = 1 /\ holder = "flush"
                 THEN IF starting = "clean" THEN "flush" ELSE "up"
                 ELSE starting
  /\ UNCHANGED <<mix, dropped, boots, batch, keep, dead, sent, enabled,
                 channel, rateVars, received>>

\* What File::create and the lines written so far leave of a file.
Torn(w) == {SubSeq(w.content, 1, n) : n \in 0..Len(w.content)}

\* write_jsonl returns its error, at once or part-way: the other files are not
\* written, the lock is released, and all that called go on; a capture does so
\* without the id of an entry (capture).
WriteFails ==
  /\ "errors" \in mix /\ writes # <<>>
  /\ \E part \in Torn(Head(writes)) \cup {file[Head(writes).file]} :
       file' = [file EXCEPT ![Head(writes).file] = part]
  /\ writes' = <<>> /\ holder' = Nobody
  /\ capture' = [r \in Reports |-> IF holder = r THEN "unfiled" ELSE capture[r]]
  /\ sender' = IF holder = "mark" THEN Idle ELSE sender
  /\ starting' = IF holder = "flush"
                 THEN IF starting = "clean" THEN "flush" ELSE "up"
                 ELSE starting
  /\ UNCHANGED <<mix, dropped, boots, batch, keep, dead, sent, enabled,
                 channel, rateVars, received>>

\* enqueue: at the end, and out with the oldest of a full file.
Enqueue(r) ==
  /\ capture[r] = "none"
  /\ Free
  /\ LET all == Append(file["pending"], Entry(r))
         new == Newest(MaxPending, all)
     IN  /\ writes' = <<Write("pending", new)>>
         /\ dropped' = dropped \cup (Ids(all) \ Ids(new))
  /\ holder' = r
  /\ capture' = [capture EXCEPT ![r] = "enqueue"]
  /\ UNCHANGED <<mix, file, boots, flushVars, enabled, sendVars, rateVars,
                 received>>

\* cleanup_old_logs: the entries of sent.jsonl that are too old go.
CleanUp ==
  /\ starting = "clean"
  /\ Free
  /\ holder' = "flush"
  /\ \E n \in 0..Len(file["sent"]) :
       writes' = <<Write("sent", Newest(n, file["sent"]))>>
  /\ UNCHANGED <<mix, file, dropped, boots, flushVars, enabled, capture,
                 sendVars, rateVars, received>>

\* Nothing to send, or a file that cannot be read.
FlushNothing ==
  /\ starting = "flush"
  /\ ~enabled \/ (Free /\ (file["pending"] = <<>> \/ "errors" \in mix))
  /\ starting' = "up"
  /\ UNCHANGED <<mix, diskVars, boots, batch, keep, dead, sent, enabled,
                 capture, sendVars, rateVars, received>>

\* Mutant: the dead letters there are not read.
FlushBeginAfresh ==
  /\ starting = "flush"
  /\ enabled /\ Free /\ file["pending"] # <<>>
  /\ starting' = "sending"
  /\ holder' = "flush"
  /\ batch' = file["pending"] /\ keep' = <<>>
  /\ dead' = <<>> /\ sent' = file["sent"]
  /\ UNCHANGED <<mix, file, dropped, writes, boots, enabled, capture,
                 sendVars, rateVars, received>>

\* flush: the lock is taken, and held while reports are sent.
FlushBegin ==
  /\ starting = "flush"
  /\ enabled /\ Free /\ file["pending"] # <<>>
  /\ starting' = "sending"
  /\ holder' = "flush"
  /\ batch' = file["pending"] /\ keep' = <<>>
  /\ dead' = file["dead"] /\ sent' = file["sent"]
  /\ UNCHANGED <<mix, file, dropped, writes, boots, enabled, capture,
                 sendVars, rateVars, received>>

FlushSent ==
  /\ starting = "sending" /\ batch # <<>>
  /\ batch' = Tail(batch)
  /\ sent' = Append(sent, Head(batch))
  /\ received' = received \cup {Head(batch).id}
  /\ UNCHANGED <<mix, diskVars, boots, starting, keep, dead, enabled, capture,
                 sendVars, rateVars>>

\* A failure counts as an attempt, also when the server got the report.
FlushFails ==
  /\ starting = "sending" /\ batch # <<>>
  /\ LET entry == [Head(batch) EXCEPT !.attempts = @ + 1]
     IN  IF entry.attempts >= RetryLimit
         THEN dead' = Append(dead, entry) /\ UNCHANGED keep
         ELSE keep' = Append(keep, entry) /\ UNCHANGED dead
  /\ batch' = Tail(batch)
  /\ received' \in {received, received \cup {Head(batch).id}}
  /\ UNCHANGED <<mix, diskVars, boots, starting, sent, enabled, capture,
                 sendVars, rateVars>>

\* The three files, pending first.
FlushFiles ==
  /\ starting = "sending" /\ batch = <<>> /\ writes = <<>>
  /\ writes' = <<Write("pending", keep),
                 Write("dead", Newest(MaxDeadLetter, dead)),
                 Write("sent", sent)>>
  /\ dropped' = dropped \cup (Ids(dead) \ Ids(Newest(MaxDeadLetter, dead)))
  /\ UNCHANGED <<mix, file, holder, boots, flushVars, enabled, capture,
                 sendVars, rateVars, received>>

-----------------------------------------------------------------------------
(* The collector.  The sender holds its lock until mark_sent is through.   *)

StateFree == sender.pc # "mark"

\* Mutant: reports in the channel are not counted.
RoomUnqueued == stamps < MaxPerHour

Room == stamps + waiting < MaxPerHour

\* prepare_event and the channel, or one of the early returns; a report that
\* could not be filed goes on without an entry.
Prepare(r) ==
  /\ capture[r] \in {"persisted", "unfiled"}
  /\ StateFree
  /\ IF enabled /\ r \notin Low /\ Room
     THEN waiting' = waiting + 1 /\ channel' = Append(channel, r)
     ELSE UNCHANGED <<waiting, channel>>
  /\ capture' = [capture EXCEPT ![r] = IF @ = "persisted" THEN "done" ELSE "adrift"]
  /\ UNCHANGED <<mix, diskVars, boots, flushVars, enabled, sender, stamps,
                 hours, tests, testing, received>>

SenderTakes ==
  /\ sender.pc = "idle" /\ channel # <<>>
  /\ sender' = [pc |-> "send", id |-> Head(channel)]
  /\ channel' = Tail(channel)
  /\ UNCHANGED <<mix, diskVars, boots, flushVars, enabled, capture, rateVars,
                 received>>

SendOk ==
  /\ sender.pc = "send"
  /\ sender' = IF capture[sender.id] = "adrift" THEN Idle
               ELSE [sender EXCEPT !.pc = "mark"]
  /\ received' = received \cup {sender.id}
  /\ waiting' = waiting - 1 /\ stamps' = stamps + 1
  /\ UNCHANGED <<mix, diskVars, boots, flushVars, enabled, capture, channel,
                 hours, tests, testing>>

\* The report stays pending until the next start.
SendFails ==
  /\ sender.pc = "send"
  /\ sender' = Idle
  /\ received' \in {received, received \cup {sender.id}}
  /\ waiting' = waiting - 1
  /\ UNCHANGED <<mix, diskVars, boots, flushVars, enabled, capture, channel,
                 stamps, hours, tests, testing>>

\* Where the first pending entry of a report is.
FirstOf(id) ==
  CHOOSE i \in DOMAIN file["pending"] :
    /\ file["pending"][i].id = id
    /\ \A j \in 1..(i - 1) : file["pending"][j].id # id

\* Mutant: the sent file first.
MarkSentFirst ==
  /\ sender.pc = "mark" /\ holder # "mark"
  /\ Free
  /\ IF sender.id \in Ids(file["pending"])
     THEN /\ holder' = "mark" /\ UNCHANGED sender
          /\ LET i == FirstOf(sender.id)
             IN  writes' = <<Write("sent", Append(file["sent"], file["pending"][i])),
                             Write("pending", RemoveAt(file["pending"], i))>>
     ELSE sender' = Idle /\ UNCHANGED <<holder, writes>>
  /\ UNCHANGED <<mix, file, dropped, boots, flushVars, enabled, capture,
                 channel, rateVars, received>>

\* mark_sent: an entry that flush or a full file took away is let go.
MarkSent ==
  /\ sender.pc = "mark" /\ holder # "mark"
  /\ Free
  /\ IF sender.id \in Ids(file["pending"])
     THEN /\ holder' = "mark" /\ UNCHANGED sender
          /\ LET i == FirstOf(sender.id)
             IN  writes' = <<Write("pending", RemoveAt(file["pending"], i)),
                             Write("sent", Append(file["sent"], file["pending"][i]))>>
     ELSE sender' = Idle /\ UNCHANGED <<holder, writes>>
  /\ UNCHANGED <<mix, file, dropped, boots, flushVars, enabled, capture,
                 channel, rateVars, received>>

\* send_test_report: past the limit, but counted.
TestBegins ==
  /\ starting = "up" /\ StateFree
  /\ ~testing /\ tests < MaxTests
  /\ testing' = TRUE /\ tests' = tests + 1
  /\ waiting' = waiting + 1
  /\ UNCHANGED <<mix, diskVars, boots, flushVars, enabled, capture, sendVars,
                 stamps, hours, received>>

TestEnds ==
  /\ testing /\ StateFree
  /\ testing' = FALSE
  /\ waiting' = waiting - 1
  /\ stamps' \in {stamps, stamps + 1}
  /\ UNCHANGED <<mix, diskVars, boots, flushVars, enabled, capture, sendVars,
                 hours, tests, received>>

\* prune: the stamps that are more than an hour old go, the first ones.
HourPasses ==
  /\ hours < MaxHours
  /\ hours' = hours + 1
  /\ stamps' \in 0..stamps
  /\ UNCHANGED <<mix, diskVars, boots, flushVars, enabled, capture, sendVars,
                 waiting, tests, testing, received>>

-----------------------------------------------------------------------------
(* The application stops and starts again, with other settings perhaps.    *)

Filing == Len(writes) > 0 /\ holder \notin Reports

Stop ==
  /\ boots < MaxBoots
  /\ boots' = boots + 1
  /\ \/ ("between" \in mix \/ ~Filing) /\ UNCHANGED file
     \/ /\ "within" \in mix /\ writes # <<>>
        /\ \E part \in Torn(Head(writes)) :
             file' = [file EXCEPT ![Head(writes).file] = part]
  /\ holder' = Nobody /\ writes' = <<>>
  /\ starting' = "clean"
  /\ batch' = <<>> /\ keep' = <<>> /\ dead' = <<>> /\ sent' = <<>>
  /\ enabled' \in BOOLEAN
  /\ capture' = [r \in Reports |-> IF capture[r] = "none" THEN "none"
                                   ELSE IF capture[r] \in {"persisted", "done"}
                                   THEN "done" ELSE "lost"]
  /\ channel' = <<>> /\ sender' = Idle
  /\ waiting' = 0 /\ stamps' = 0 /\ testing' = FALSE
  /\ UNCHANGED <<mix, dropped, hours, tests, received>>

Next ==
  \/ WriteNext \/ WriteFails
  \/ \E r \in Reports : Enqueue(r) \/ Prepare(r)
  \/ CleanUp \/ FlushNothing \/ FlushBegin \/ FlushSent \/ FlushFails
  \/ FlushFiles
  \/ SenderTakes \/ SendOk \/ SendFails \/ MarkSent
  \/ TestBegins \/ TestEnds \/ HourPasses
  \/ Stop

Spec == Init /\ [][Next]_vars

-----------------------------------------------------------------------------
\* "unfiled" and "adrift": as "persisted" and "done", with no entry.
Stages == {"none", "enqueue", "persisted", "done", "unfiled", "adrift", "lost"}

Entries == [id : Reports, attempts : 0..RetryLimit]

\* The type invariant; the lock is held as long as files are to be written.
TypeOK ==
  /\ mix \in Mixes
  /\ file \in [Files -> Seq(Entries)]
  /\ Len(file["pending"]) <= MaxPending
  /\ Len(file["dead"]) <= MaxDeadLetter
  /\ dropped \in SUBSET Reports
  /\ holder \in Reports \cup {"flush", "mark", Nobody}
  /\ writes \in Seq([file : Files, content : Seq(Entries)])
  /\ writes # <<>> => holder # Nobody
  /\ boots \in 1..MaxBoots
  /\ starting \in {"clean", "flush", "sending", "up"}
  /\ batch \in Seq(Entries) /\ keep \in Seq(Entries)
  /\ dead \in Seq(Entries) /\ sent \in Seq(Entries)
  /\ enabled \in BOOLEAN /\ testing \in BOOLEAN
  /\ capture \in [Reports -> Stages]
  /\ channel \in Seq(Reports)
  /\ sender \in [pc : {"idle", "send", "mark"}, id : Reports \cup {Nobody}]
  /\ waiting \in Nat /\ stamps \in Nat
  /\ hours \in 0..MaxHours /\ tests \in 0..MaxTests
  /\ received \in SUBSET Reports

Once(entries) == \A i, j \in DOMAIN entries :
                   entries[i].id = entries[j].id => i = j

\* A report is filed in one place: however the flush, the sender thread and
\* new captures interleave, wherever the application stops and whichever write
\* fails, no report is in two of them or in one of them twice, and only what
\* the server has got is filed as sent (enqueue, mark_sent, flush).
FiledOnce ==
  /\ \A f \in Files : Once(file[f])
  /\ \A f, g \in Files : f # g => Ids(file[f]) \cap Ids(file[g]) = {}
  /\ Ids(file["sent"]) \subseteq received

Stored == Ids(file["pending"]) \cup Ids(file["dead"])
InHand == UNION {Ids(writes[i].content) : i \in DOMAIN writes}

\* No report is forgotten: as long as no stop and no failing write cuts a change
\* of the files short, what was captured is pending, a dead letter or with the
\* server, unless a full file dropped it (enqueue, mark_sent, flush).
NothingForgotten ==
  mix = {} =>
    \A r \in Reports :
      capture[r] \in {"persisted", "done"} =>
        r \in Stored \cup InHand \cup received \cup dropped

\* The limit per hour counts what it should: every report that waits for the
\* sender is counted once, and admitted reports stay within the limit but for
\* the test reports (prepare_event, sender, send_event_sync).
RateKept ==
  /\ waiting = Len(channel) + (IF sender.pc = "send" THEN 1 ELSE 0)
                            + (IF testing THEN 1 ELSE 0)
  /\ stamps + waiting <= MaxPerHour + tests
=============================================================================
