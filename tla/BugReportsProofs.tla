-------------------------- MODULE BugReportsProofs --------------------------
(***************************************************************************)
(* Proofs about BugReports, for any number of reports, starts and hours:   *)
(* the limit per hour counts every report that waits for the sender, each  *)
(* report is filed in one place, and none is forgotten.                    *)
(***************************************************************************)
EXTENDS BugReports, TLAPS

\* What the limit depends on: the types of its counters, and that the sender
\* waits while the files are written for it.
RateTypes ==
  /\ waiting \in Nat /\ stamps \in Nat /\ tests \in Nat
  /\ testing \in BOOLEAN
  /\ channel \in Seq(Reports)
  /\ sender \in [pc : {"idle", "send", "mark"}, id : Reports \cup {Nobody}]
  /\ holder = "mark" => sender.pc = "mark"

RateInv == RateTypes /\ RateKept

\* The two places a report can wait in.
Sending == IF sender.pc = "send" THEN 1 ELSE 0
Tested == IF testing THEN 1 ELSE 0

LEMMA RateParts ==
  RateKept <=> /\ waiting = Len(channel) + Sending + Tested
               /\ stamps + waiting <= MaxPerHour + tests
BY DEF RateKept, Sending, Tested

LEMMA IdleType == /\ Idle \in [pc : {"idle", "send", "mark"}, id : Reports \cup {Nobody}]
                  /\ Idle.pc = "idle"
BY DEF Idle

LEMMA CountType ==
  RateTypes => /\ Len(channel) \in Nat /\ Sending \in {0, 1} /\ Tested \in {0, 1}
               /\ waiting \in Nat /\ stamps \in Nat /\ tests \in Nat
BY DEF RateTypes, Sending, Tested

LEMMA FreshTypes ==
  ASSUME waiting = 0, stamps = 0, tests \in Nat, testing = FALSE,
         channel = <<>>, sender = Idle, holder = Nobody
  PROVE  RateTypes
<1>1. testing \in BOOLEAN
  OBVIOUS
<1>2. channel \in Seq(Reports)
  OBVIOUS
<1>3. holder # "mark"
  BY NobodyAssumption
<1> QED
  BY <1>1, <1>2, <1>3, IdleType DEF RateTypes

LEMMA InitRate == Init => RateInv
<1> SUFFICES ASSUME Init PROVE RateInv
  OBVIOUS
<1>1. RateTypes
  BY FreshTypes DEF Init
<1>2. RateKept
  BY IdleType, BoundsAssumption DEF Init, RateKept
<1> QED
  BY <1>1, <1>2 DEF RateInv

\* Steps that leave the counters alone, and the sender unless it is through
\* with mark_sent.
LEMMA FileSteps ==
  ASSUME RateInv, UNCHANGED <<waiting, stamps, tests, testing, channel>>,
         \/ UNCHANGED sender /\ (holder' = "mark" => sender.pc = "mark")
         \/ sender.pc = "mark" /\ sender' = Idle /\ holder' # "mark"
  PROVE  RateInv'
<1>1. RateTypes'
  BY IdleType DEF RateInv, RateTypes
<1>2. Sending' = Sending
  BY IdleType DEF Sending
<1>3. RateKept'
  BY <1>2 DEF RateInv, RateKept, Sending
<1> QED
  BY <1>1, <1>3 DEF RateInv

LEMMA WriteRate == ASSUME RateInv, WriteNext PROVE RateInv'
<1>1. UNCHANGED <<waiting, stamps, tests, testing, channel>>
  BY DEF WriteNext, rateVars
<1>2. CASE Len(writes) = 1 /\ holder = "mark"
  <2>1. sender.pc = "mark" /\ sender' = Idle /\ holder' = Nobody
    BY <1>2 DEF WriteNext, RateInv, RateTypes
  <2> QED
    BY <1>1, <2>1, FileSteps, NobodyAssumption
<1>3. CASE ~(Len(writes) = 1 /\ holder = "mark")
  <2>1. UNCHANGED sender /\ holder' \in {Nobody, holder}
    BY <1>3 DEF WriteNext
  <2> QED
    BY <1>1, <2>1, FileSteps, NobodyAssumption DEF RateInv, RateTypes
<1> QED
  BY <1>2, <1>3

LEMMA FailsRate == ASSUME RateInv, WriteFails PROVE RateInv'
<1>1. UNCHANGED <<waiting, stamps, tests, testing, channel>> /\ holder' = Nobody
  BY DEF WriteFails, rateVars
<1>2. CASE holder = "mark"
  <2>1. sender.pc = "mark" /\ sender' = Idle
    BY <1>2 DEF WriteFails, RateInv, RateTypes
  <2> QED
    BY <1>1, <2>1, FileSteps, NobodyAssumption
<1>3. CASE holder # "mark"
  <2>1. UNCHANGED sender
    BY <1>3 DEF WriteFails
  <2> QED
    BY <1>1, <2>1, FileSteps, NobodyAssumption
<1> QED
  BY <1>2, <1>3

LEMMA DiskRate ==
  ASSUME RateInv,
         \/ \E r \in Reports : Enqueue(r)
         \/ CleanUp \/ FlushNothing \/ FlushBegin \/ FlushSent \/ FlushFails
         \/ FlushFiles
  PROVE  RateInv'
<1>1. UNCHANGED <<waiting, stamps, tests, testing, channel, sender>>
  BY DEF Enqueue, CleanUp, FlushNothing, FlushBegin, FlushSent, FlushFails,
     FlushFiles, rateVars, sendVars, diskVars
<1>2. holder' \in Reports \cup {"flush", holder}
  BY DEF Enqueue, CleanUp, FlushNothing, FlushBegin, FlushSent, FlushFails,
     FlushFiles, diskVars
<1>3. holder' = "mark" => sender.pc = "mark"
  BY <1>2, NobodyAssumption DEF RateInv, RateTypes
<1> QED
  BY <1>1, <1>3, FileSteps

LEMMA MarkRate == ASSUME RateInv, MarkSent PROVE RateInv'
<1>1. UNCHANGED <<waiting, stamps, tests, testing, channel>> /\ sender.pc = "mark"
  BY DEF MarkSent, rateVars
<1>2. \/ UNCHANGED sender
      \/ sender' = Idle /\ holder' = holder /\ holder # "mark"
  BY DEF MarkSent
<1> QED
  BY <1>1, <1>2, FileSteps

-----------------------------------------------------------------------------
(* The collector and its sender                                            *)

LEMMA PrepareRate ==
  ASSUME RateInv, NEW r \in Reports, Prepare(r)
  PROVE  RateInv'
<1>1. UNCHANGED <<stamps, tests, testing, sender, holder>>
  BY DEF Prepare, diskVars
<1>2. CASE UNCHANGED <<waiting, channel>>
  BY <1>1, <1>2, FileSteps DEF RateInv, RateTypes
<1>3. CASE Room /\ waiting' = waiting + 1 /\ channel' = Append(channel, r)
  <2>1. Len(channel') = Len(channel) + 1 /\ channel' \in Seq(Reports)
    BY <1>3 DEF RateInv, RateTypes
  <2>2. RateTypes'
    BY <1>1, <1>3, <2>1 DEF RateInv, RateTypes
  <2>3. Sending' = Sending /\ Tested' = Tested
    BY <1>1 DEF Sending, Tested
  <2>4. RateKept'
    <3>1. /\ waiting' = Len(channel') + Sending' + Tested'
          /\ stamps' + waiting' <= MaxPerHour + tests'
      BY <1>1, <1>3, <2>1, <2>3, RateParts, CountType, BoundsAssumption
       DEF RateInv, Room
    <3> QED
      BY <3>1 DEF RateKept, Sending, Tested
  <2> QED
    BY <2>2, <2>4 DEF RateInv
<1> QED
  BY <1>2, <1>3 DEF Prepare

LEMMA TakeRate == ASSUME RateInv, SenderTakes PROVE RateInv'
<1>1. UNCHANGED <<waiting, stamps, tests, testing, holder>>
  BY DEF SenderTakes, rateVars, diskVars
<1>2. /\ Head(channel) \in Reports /\ channel' \in Seq(Reports)
      /\ Len(channel') = Len(channel) - 1
  BY DEF SenderTakes, RateInv, RateTypes
<1>3. /\ sender.pc = "idle" /\ sender'.pc = "send"
      /\ sender' \in [pc : {"idle", "send", "mark"}, id : Reports \cup {Nobody}]
  BY <1>2 DEF SenderTakes
<1>4. RateTypes'
  BY <1>1, <1>2, <1>3 DEF RateInv, RateTypes
<1>5. RateKept'
  BY <1>1, <1>2, <1>3 DEF RateInv, RateTypes, RateKept
<1> QED
  BY <1>4, <1>5 DEF RateInv

LEMMA SendRate == ASSUME RateInv, SendOk \/ SendFails PROVE RateInv'
<1>0. /\ sender.pc = "send" /\ waiting' = waiting - 1
      /\ UNCHANGED <<tests, testing, channel, holder>>
      /\ stamps' \in {stamps, stamps + 1}
  BY DEF SendOk, SendFails, diskVars
<1>1. /\ sender'.pc \in {"idle", "mark"}
      /\ sender' \in [pc : {"idle", "send", "mark"}, id : Reports \cup {Nobody}]
  BY IdleType DEF SendOk, SendFails, RateInv, RateTypes
<1>2. waiting' \in Nat /\ waiting >= 1
  BY <1>0 DEF RateInv, RateTypes, RateKept
<1>3. RateTypes'
  BY <1>0, <1>1, <1>2 DEF RateInv, RateTypes
<1>4. Sending = 1 /\ Sending' = 0 /\ Tested' = Tested
  BY <1>0, <1>1 DEF Sending, Tested
<1>5. RateKept'
  <2>1. /\ waiting' = Len(channel') + Sending' + Tested'
        /\ stamps' + waiting' <= MaxPerHour + tests'
    BY <1>0, <1>4, RateParts, CountType, BoundsAssumption DEF RateInv
  <2> QED
    BY <2>1 DEF RateKept, Sending, Tested
<1> QED
  BY <1>3, <1>5 DEF RateInv

LEMMA TestRate ==
  ASSUME RateInv, TestBegins \/ TestEnds \/ HourPasses PROVE RateInv'
<1>1. UNCHANGED <<channel, sender, holder>>
  BY DEF TestBegins, TestEnds, HourPasses, sendVars, diskVars
<1>2. Sending' = Sending
  BY <1>1 DEF Sending
<1>3. CASE TestBegins
  <2>1. ~testing /\ testing' = TRUE
    BY <1>3 DEF TestBegins
  <2>2. Tested = 0 /\ Tested' = 1
    BY <2>1 DEF Tested
  <2>3. /\ waiting' = waiting + 1 /\ tests' = tests + 1 /\ stamps' = stamps
    BY <1>3 DEF TestBegins
  <2>4. RateTypes'
    BY <1>1, <2>1, <2>3 DEF RateInv, RateTypes
  <2>5. RateKept'
    <3>1. /\ waiting' = Len(channel') + Sending' + Tested'
          /\ stamps' + waiting' <= MaxPerHour + tests'
      BY <1>1, <1>2, <2>2, <2>3, RateParts, CountType, BoundsAssumption DEF RateInv
    <3> QED
      BY <3>1 DEF RateKept, Sending, Tested
  <2> QED
    BY <2>4, <2>5 DEF RateInv
<1>4. CASE TestEnds
  <2>1. testing /\ testing' = FALSE
    BY <1>4 DEF TestEnds
  <2>2. Tested = 1 /\ Tested' = 0
    BY <2>1 DEF Tested
  <2>3. /\ waiting' = waiting - 1 /\ tests' = tests
        /\ stamps' \in {stamps, stamps + 1}
    BY <1>4 DEF TestEnds
  <2>4. waiting' \in Nat /\ stamps' \in Nat
    BY <2>2, <2>3, RateParts, CountType DEF RateInv
  <2>5. RateTypes'
    BY <1>1, <2>1, <2>3, <2>4 DEF RateInv, RateTypes
  <2>6. RateKept'
    <3>1. /\ waiting' = Len(channel') + Sending' + Tested'
          /\ stamps' + waiting' <= MaxPerHour + tests'
      BY <1>1, <1>2, <2>2, <2>3, RateParts, CountType, BoundsAssumption DEF RateInv
    <3> QED
      BY <3>1 DEF RateKept, Sending, Tested
  <2> QED
    BY <2>5, <2>6 DEF RateInv
<1>5. CASE HourPasses
  <2>1. UNCHANGED <<waiting, tests, testing>> /\ stamps' \in 0..stamps
    BY <1>5 DEF HourPasses
  <2>2. Tested' = Tested
    BY <2>1 DEF Tested
  <2>5. stamps' \in Nat /\ stamps' <= stamps
    BY <2>1, CountType DEF RateInv
  <2>3. RateTypes'
    BY <1>1, <2>1, <2>5 DEF RateInv, RateTypes
  <2>4. RateKept'
    <3>1. /\ waiting' = Len(channel') + Sending' + Tested'
          /\ stamps' + waiting' <= MaxPerHour + tests'
      BY <1>1, <1>2, <2>1, <2>2, <2>5, RateParts, CountType, BoundsAssumption DEF RateInv
    <3> QED
      BY <3>1 DEF RateKept, Sending, Tested
  <2> QED
    BY <2>3, <2>4 DEF RateInv
<1> QED
  BY <1>3, <1>4, <1>5

LEMMA StopRate == ASSUME RateInv, Stop PROVE RateInv'
<1>1. /\ waiting' = 0 /\ stamps' = 0 /\ testing' = FALSE /\ tests' = tests
      /\ channel' = <<>> /\ sender' = Idle /\ holder' = Nobody
  BY DEF Stop
<1>2. tests' \in Nat
  BY <1>1 DEF RateInv, RateTypes
<1>4. RateTypes'
  <2>1. testing' \in BOOLEAN
    BY <1>1
  <2>2. channel' \in Seq(Reports)
    BY <1>1
  <2>3. holder' # "mark"
    BY <1>1, NobodyAssumption
  <2> QED
    BY <1>1, <1>2, <2>1, <2>2, <2>3, IdleType DEF RateTypes
<1>3. RateKept'
  BY <1>1, <1>2, IdleType, BoundsAssumption DEF RateKept
<1> QED
  BY <1>3, <1>4 DEF RateInv

LEMMA RateNext == ASSUME RateInv, [Next]_vars PROVE RateInv'
<1>1. CASE UNCHANGED vars
  BY <1>1 DEF vars, rateVars, sendVars, diskVars, RateInv, RateTypes, RateKept
<1> QED
  BY <1>1, WriteRate, FailsRate, DiskRate, MarkRate, PrepareRate, TakeRate, SendRate,
     TestRate, StopRate DEF Next

\* However captures, the sender, the flush, test reports and stops interleave,
\* the counter of waiting reports is exact and the limit per hour is kept but
\* for the test reports (prepare_event, sender, send_event_sync).
THEOREM LimitIsKept == Spec => []RateKept
<1>1. Init => RateInv
  BY InitRate
<1>2. RateInv /\ [Next]_vars => RateInv'
  BY RateNext
<1>3. RateInv => RateKept
  BY DEF RateInv
<1> QED
  BY <1>1, <1>2, <1>3, PTL DEF Spec

-----------------------------------------------------------------------------
(* The files: what is written, and what is still to be                     *)

\* The files once the first k of the writes ws are done.
Applied(d, ws, k) ==
  [f \in Files |->
     IF \E i \in 1..k : ws[i].file = f
     THEN ws[CHOOSE i \in 1..k : ws[i].file = f].content ELSE d[f]]

After(k) == Applied(file, writes, k)
Written == After(Len(writes))

\* The reports there have been a capture of.
Known == {r \in Reports : capture[r] # "none"}

\* Contents of the three files that are as they should be, for the reports
\* known and those received.
SoundFiles(d, known, got) ==
  /\ d \in [Files -> Seq(Entries)]
  /\ Len(d["pending"]) <= MaxPending /\ Len(d["dead"]) <= MaxDeadLetter
  /\ \A i \in DOMAIN d["pending"] : d["pending"][i].attempts < RetryLimit
  /\ \A f \in Files : Once(d[f]) /\ Ids(d[f]) \subseteq known
  /\ \A f, g \in Files : f # g => Ids(d[f]) \cap Ids(d[g]) = {}
  /\ Ids(d["sent"]) \subseteq got

\* The types of the rest.
FlowTypes ==
  /\ mix \in Mixes
  /\ dropped \in SUBSET Reports /\ received \in SUBSET Reports
  /\ boots \in 1..MaxBoots /\ enabled \in BOOLEAN
  /\ hours \in 0..MaxHours /\ tests \in 0..MaxTests
  /\ starting \in {"clean", "flush", "sending", "up"}
  /\ capture \in [Reports -> Stages]
  /\ writes \in Seq([file : Files, content : Seq(Entries)])
  /\ batch \in Seq(Entries) /\ keep \in Seq(Entries)
  /\ dead \in Seq(Entries) /\ sent \in Seq(Entries)

\* Who holds the lock, and what for.
LockInv ==
  /\ holder \in Reports \cup {"flush", "mark", Nobody}
  /\ holder = Nobody => writes = <<>>
  /\ holder = "flush" => starting \in {"clean", "sending"}
  /\ starting = "sending" => holder = "flush" /\ (writes # <<>> => batch = <<>>)
  /\ holder \in Reports => capture[holder] = "enqueue" /\ Len(writes) = 1
  /\ sender.pc # "idle" => sender.id \in Reports
  /\ sender.pc = "mark" => sender.id \in received
  /\ \A i, j \in DOMAIN writes : writes[i].file = writes[j].file => i = j

\* Whatever is written next, and wherever that ends.
DiskInv ==
  /\ file \in [Files -> Seq(Entries)]
  /\ \A k \in 0..Len(writes) : SoundFiles(After(k), Known, received)

Sorting == starting = "sending" /\ writes = <<>>

\* What flush has in hand while it sends: each report of the files as they
\* are is still to be sent, or filed anew, in one place.
HandInv ==
  Sorting =>
    /\ Once(batch) /\ Once(keep) /\ Once(dead) /\ Once(sent)
    /\ Ids(batch) \cap Ids(keep) = {} /\ Ids(batch) \cap Ids(dead) = {}
    /\ Ids(batch) \cap Ids(sent) = {} /\ Ids(keep) \cap Ids(dead) = {}
    /\ Ids(keep) \cap Ids(sent) = {} /\ Ids(dead) \cap Ids(sent) = {}
    /\ Ids(batch) \subseteq Ids(file["pending"])
    /\ Ids(keep) \subseteq Ids(file["pending"])
    /\ Ids(dead) \subseteq Ids(file["pending"]) \cup Ids(file["dead"])
    /\ Ids(sent) \subseteq Ids(file["pending"]) \cup Ids(file["sent"])
    /\ Ids(sent) \subseteq received
    /\ Len(batch) + Len(keep) <= MaxPending
    /\ \A i \in DOMAIN batch : batch[i].attempts < RetryLimit
    /\ \A i \in DOMAIN keep : keep[i].attempts < RetryLimit

FlowInv == FlowTypes /\ LockInv /\ DiskInv /\ HandInv
FileInv == RateInv /\ FlowInv

Taken == {r \in Reports : capture[r] \in {"enqueue", "persisted", "done"}}
Captured == {r \in Reports : capture[r] \in {"persisted", "done"}}
LetGo == received \cup dropped

\* Where the captured reports are: in the files when all is written, in the
\* files as they are when a stop may find them so, in the hands of flush.
KeptInv ==
  mix = {} =>
    /\ ~Sorting => Taken \subseteq Ids(Written["pending"]) \cup Ids(Written["dead"]) \cup LetGo
    /\ ~Filing => Captured \subseteq Stored \cup LetGo
    /\ Sorting => Taken \subseteq Ids(batch) \cup Ids(keep) \cup Ids(dead) \cup LetGo

-----------------------------------------------------------------------------
(* Sequences of entries                                                    *)

LEMMA EntryType == \A r \in Reports : Entry(r) \in Entries /\ Entry(r).id = r /\ Entry(r).attempts = 0
BY BoundsAssumption DEF Entry, Entries

LEMMA IdsReports == \A s \in Seq(Entries) : Ids(s) \subseteq Reports
<1> TAKE s \in Seq(Entries)
<1>1. \A i \in DOMAIN s : s[i] \in Entries
  OBVIOUS
<1>2. \A e \in Entries : e.id \in Reports
  BY DEF Entries
<1> QED
  BY <1>1, <1>2 DEF Ids

\* An entry put at the end.
LEMMA AppendIds ==
  ASSUME NEW s \in Seq(Entries), NEW e \in Entries
  PROVE  /\ Append(s, e) \in Seq(Entries)
         /\ Len(Append(s, e)) = Len(s) + 1
         /\ Ids(Append(s, e)) = Ids(s) \cup {e.id}
         /\ Once(s) /\ e.id \notin Ids(s) => Once(Append(s, e))
         /\ \A i \in DOMAIN Append(s, e) : Append(s, e)[i] = e \/ \E j \in DOMAIN s : Append(s, e)[i] = s[j]
<1> DEFINE t == Append(s, e)
<1>1. /\ t \in Seq(Entries) /\ Len(t) = Len(s) + 1
      /\ DOMAIN t = 1..(Len(s) + 1) /\ DOMAIN s = 1..Len(s)
      /\ \A i \in 1..Len(s) : t[i] = s[i]
      /\ t[Len(s) + 1] = e
  OBVIOUS
<1> HIDE DEF t
<1>2. Ids(t) = Ids(s) \cup {e.id}
  <2>1. ASSUME NEW x \in Ids(t) PROVE x \in Ids(s) \cup {e.id}
    <3>1. PICK i \in 1..(Len(s) + 1) : x = t[i].id
      BY <1>1 DEF Ids
    <3>2. CASE i = Len(s) + 1
      BY <1>1, <3>1, <3>2
    <3>3. CASE i \in 1..Len(s)
      BY <1>1, <3>1, <3>3 DEF Ids
    <3> QED
      BY <3>1, <3>2, <3>3
  <2>2. Ids(s) \subseteq Ids(t)
    BY <1>1 DEF Ids
  <2>3. e.id \in Ids(t)
    BY <1>1 DEF Ids
  <2> QED
    BY <2>1, <2>2, <2>3
<1>3. ASSUME Once(s), e.id \notin Ids(s) PROVE Once(t)
  <2> SUFFICES ASSUME NEW i \in DOMAIN t, NEW j \in DOMAIN t, t[i].id = t[j].id
               PROVE  i = j
    BY DEF Once
  <2>1. \A k \in 1..Len(s) : t[k].id # e.id
    BY <1>1, <1>3 DEF Ids
  <2> QED
    BY <1>1, <1>3, <2>1 DEF Once
<1>4. \A i \in DOMAIN t : t[i] = e \/ \E j \in DOMAIN s : t[i] = s[j]
  BY <1>1
<1> QED
  BY <1>1, <1>2, <1>3, <1>4 DEF t

\* A part of a sequence.
LEMMA CutIds ==
  ASSUME NEW s \in Seq(Entries), NEW m \in Nat \ {0}, NEW n \in 0..Len(s)
  PROVE  /\ SubSeq(s, m, n) \in Seq(Entries)
         /\ Ids(SubSeq(s, m, n)) \subseteq Ids(s)
         /\ Once(s) => Once(SubSeq(s, m, n))
         /\ \A i \in DOMAIN SubSeq(s, m, n) : \E j \in DOMAIN s : SubSeq(s, m, n)[i] = s[j]
         /\ Len(SubSeq(s, m, n)) = IF m <= n THEN n - m + 1 ELSE 0
<1> DEFINE t == SubSeq(s, m, n)
           at(i) == i + m - 1
<1>1. t \in Seq(Entries) /\ Len(t) = (IF m <= n THEN n - m + 1 ELSE 0)
  OBVIOUS
<1>2. \A i \in DOMAIN t : at(i) \in DOMAIN s /\ t[i] = s[at(i)]
  OBVIOUS
<1>3. \A i, j \in DOMAIN t : at(i) = at(j) => i = j
  OBVIOUS
<1> HIDE DEF t, at
<1>4. /\ Ids(t) \subseteq Ids(s)
      /\ Once(s) => Once(t)
      /\ \A i \in DOMAIN t : \E j \in DOMAIN s : t[i] = s[j]
  BY <1>1, <1>2, <1>3 DEF Ids, Once
<1> QED
  BY <1>1, <1>4 DEF t

\* The newest entries of a file, and those cut off.
LEMMA NewestIds ==
  ASSUME NEW s \in Seq(Entries), NEW n \in Nat
  PROVE  /\ Newest(n, s) \in Seq(Entries) /\ Len(Newest(n, s)) <= n
         /\ Ids(Newest(n, s)) \subseteq Ids(s)
         /\ Once(s) => Once(Newest(n, s))
         /\ \A i \in DOMAIN Newest(n, s) : \E j \in DOMAIN s : Newest(n, s)[i] = s[j]
<1>1. CASE Len(s) <= n
  BY <1>1 DEF Newest
<1>2. CASE ~(Len(s) <= n)
  <2> DEFINE m == Len(s) - n + 1
  <2>1. /\ m \in Nat \ {0} /\ Len(s) \in 0..Len(s)
        /\ (IF m <= Len(s) THEN Len(s) - m + 1 ELSE 0) = n
    BY <1>2
  <2>2. Newest(n, s) = SubSeq(s, m, Len(s))
    BY <1>2 DEF Newest
  <2> HIDE DEF m
  <2>3. Len(SubSeq(s, m, Len(s))) = n
    BY <2>1, CutIds
  <2>4. /\ SubSeq(s, m, Len(s)) \in Seq(Entries)
        /\ Ids(SubSeq(s, m, Len(s))) \subseteq Ids(s)
        /\ Once(s) => Once(SubSeq(s, m, Len(s)))
        /\ \A i \in DOMAIN SubSeq(s, m, Len(s)) : \E j \in DOMAIN s : SubSeq(s, m, Len(s))[i] = s[j]
    BY <2>1, CutIds
  <2> QED
    BY <2>2, <2>3, <2>4
<1> QED
  BY <1>1, <1>2

LEMMA TornIds ==
  ASSUME NEW s \in Seq(Entries), NEW n \in 0..Len(s)
  PROVE  /\ SubSeq(s, 1, n) \in Seq(Entries) /\ Len(SubSeq(s, 1, n)) <= Len(s)
         /\ Ids(SubSeq(s, 1, n)) \subseteq Ids(s)
         /\ Once(s) => Once(SubSeq(s, 1, n))
         /\ \A i \in DOMAIN SubSeq(s, 1, n) : \E j \in DOMAIN s : SubSeq(s, 1, n)[i] = s[j]
BY CutIds

\* The first entry taken off.
LEMMA TailIds ==
  ASSUME NEW s \in Seq(Entries), s # <<>>
  PROVE  /\ Head(s) \in Entries /\ Tail(s) \in Seq(Entries) /\ Len(Tail(s)) = Len(s) - 1
         /\ Ids(s) = Ids(Tail(s)) \cup {Head(s).id}
         /\ Once(s) => Once(Tail(s)) /\ Head(s).id \notin Ids(Tail(s))
         /\ \E j \in DOMAIN s : Head(s) = s[j]
         /\ \A i \in DOMAIN Tail(s) : \E j \in DOMAIN s : Tail(s)[i] = s[j]
<1> DEFINE t == Tail(s)
<1>1. /\ Head(s) = s[1] /\ Head(s) \in Entries /\ t \in Seq(Entries)
      /\ Len(s) \in Nat /\ Len(s) >= 1 /\ Len(t) = Len(s) - 1
      /\ DOMAIN s = 1..Len(s) /\ DOMAIN t = 1..(Len(s) - 1)
      /\ \A i \in DOMAIN t : t[i] = s[i + 1]
  OBVIOUS
<1> HIDE DEF t
<1>2. Ids(s) = Ids(t) \cup {Head(s).id}
  <2>1. Ids(t) \subseteq Ids(s) /\ Head(s).id \in Ids(s)
    BY <1>1 DEF Ids
  <2>2. ASSUME NEW x \in Ids(s), x # Head(s).id PROVE x \in Ids(t)
    <3>1. PICK i \in 1..Len(s) : x = s[i].id
      BY <1>1 DEF Ids
    <3>2. i - 1 \in DOMAIN t /\ t[i - 1] = s[i]
      BY <1>1, <2>2, <3>1
    <3> QED
      BY <3>1, <3>2 DEF Ids
  <2> QED
    BY <2>1, <2>2
<1>3. ASSUME Once(s) PROVE Once(t) /\ Head(s).id \notin Ids(t)
  <2>1. Once(t)
    BY <1>1, <1>3 DEF Once
  <2>2. \A i \in DOMAIN t : t[i].id # s[1].id
    BY <1>1, <1>3 DEF Once
  <2> QED
    BY <1>1, <2>1, <2>2 DEF Ids
<1> QED
  BY <1>1, <1>2, <1>3 DEF t

\* One entry taken out.
LEMMA RemoveIds ==
  ASSUME NEW s \in Seq(Entries), NEW i \in DOMAIN s
  PROVE  /\ RemoveAt(s, i) \in Seq(Entries) /\ Len(RemoveAt(s, i)) = Len(s) - 1
         /\ Ids(s) = Ids(RemoveAt(s, i)) \cup {s[i].id}
         /\ Once(s) => Once(RemoveAt(s, i)) /\ s[i].id \notin Ids(RemoveAt(s, i))
         /\ \A j \in DOMAIN RemoveAt(s, i) : \E k \in DOMAIN s : RemoveAt(s, i)[j] = s[k]
<1> DEFINE t == RemoveAt(s, i)
           at(j) == IF j < i THEN j ELSE j + 1
<1>1. /\ Len(s) \in Nat /\ i \in 1..Len(s) /\ DOMAIN s = 1..Len(s)
  OBVIOUS
<1>2. /\ t \in Seq(Entries) /\ Len(t) = Len(s) - 1 /\ DOMAIN t = 1..(Len(s) - 1)
  BY <1>1 DEF RemoveAt
<1>3. ASSUME NEW j \in DOMAIN t PROVE t[j] = s[at(j)]
  <2> DEFINE a == SubSeq(s, 1, i - 1)
             b == SubSeq(s, i + 1, Len(s))
  <2>1. /\ a \in Seq(Entries) /\ Len(a) = i - 1 /\ b \in Seq(Entries) /\ Len(b) = Len(s) - i
        /\ \A k \in 1..(i - 1) : a[k] = s[k]
        /\ \A k \in 1..(Len(s) - i) : b[k] = s[k + i]
    BY <1>1
  <2> HIDE DEF a, b
  <2>2. t = a \o b
    BY DEF RemoveAt, a, b
  <2>3. j \in 1..(Len(s) - 1)
    BY <1>2
  <2>4. t[j] = IF j <= Len(a) THEN a[j] ELSE b[j - Len(a)]
    BY <1>1, <2>1, <2>2, <2>3
  <2>5. CASE j < i
    BY <1>1, <2>1, <2>3, <2>4, <2>5
  <2>6. CASE ~(j < i)
    <3>1. j - (i - 1) \in 1..(Len(s) - i) /\ j - (i - 1) + i = j + 1 /\ ~(j <= Len(a))
      BY <1>1, <2>1, <2>3, <2>6
    <3> QED
      BY <2>1, <2>4, <2>6, <3>1
  <2> QED
    BY <2>5, <2>6
<1> HIDE DEF t
<1>4. /\ \A j \in DOMAIN t : at(j) \in DOMAIN s /\ at(j) # i
      /\ \A j, k \in DOMAIN t : at(j) = at(k) => j = k
  BY <1>1, <1>2
<1>5. \A k \in DOMAIN s : k = i \/ \E j \in DOMAIN t : k = at(j)
  <2> TAKE k \in DOMAIN s
  <2>1. CASE k < i
    <3>1. k \in DOMAIN t /\ k = at(k)
      BY <1>1, <1>2, <2>1
    <3> QED
      BY <3>1
  <2>2. CASE k > i
    <3>1. k - 1 \in DOMAIN t /\ k = at(k - 1)
      BY <1>1, <1>2, <2>2
    <3> QED
      BY <3>1
  <2> QED
    BY <1>1, <2>1, <2>2
<1> HIDE DEF at
<1>6. Ids(s) = Ids(t) \cup {s[i].id}
  <2>1. Ids(t) \cup {s[i].id} \subseteq Ids(s)
    BY <1>3, <1>4 DEF Ids
  <2>2. Ids(s) \subseteq Ids(t) \cup {s[i].id}
    BY <1>3, <1>5 DEF Ids
  <2> QED
    BY <2>1, <2>2
<1>7. ASSUME Once(s) PROVE Once(t) /\ s[i].id \notin Ids(t)
  BY <1>3, <1>4, <1>7 DEF Once, Ids
<1>8. \A j \in DOMAIN t : \E k \in DOMAIN s : t[j] = s[k]
  BY <1>3, <1>4
<1> QED
  BY <1>2, <1>6, <1>7, <1>8 DEF t

-----------------------------------------------------------------------------
(* Files written one after the other                                       *)

Contents == [Files -> Seq(Entries)]
WriteType == [file : Files, content : Seq(Entries)]
Distinct(ws) == \A i, j \in DOMAIN ws : ws[i].file = ws[j].file => i = j

\* A file written.
Done(d, w) == [d EXCEPT ![w.file] = w.content]

LEMMA AppliedNone ==
  ASSUME NEW d \in Contents, NEW ws PROVE Applied(d, ws, 0) = d
BY DEF Applied, Contents

\* The first write done, the others follow.
LEMMA AppliedNext ==
  ASSUME NEW d \in Contents, NEW ws \in Seq(WriteType), ws # <<>>, Distinct(ws),
         NEW k \in 0..(Len(ws) - 1)
  PROVE  /\ Applied(Done(d, Head(ws)), Tail(ws), k) = Applied(d, ws, k + 1)
         /\ Done(d, Head(ws)) \in Contents
         /\ Distinct(Tail(ws))
<1> DEFINE h == Head(ws)
           t == Tail(ws)
           n == [d EXCEPT ![h.file] = h.content]
<1>0. h \in WriteType
  OBVIOUS
<1>1. /\ h = ws[1] /\ h.file \in Files /\ h.content \in Seq(Entries)
      /\ Len(ws) \in Nat /\ Len(ws) >= 1 /\ DOMAIN ws = 1..Len(ws)
      /\ DOMAIN t = 1..(Len(ws) - 1)
      /\ \A i \in DOMAIN t : t[i] = ws[i + 1]
  BY <1>0 DEF WriteType
<1> HIDE DEF h, t
<1>2. n \in Contents
  BY <1>1 DEF Contents
<1>3. Distinct(t)
  BY <1>1 DEF Distinct
<1>4. ASSUME NEW f \in Files PROVE Applied(n, t, k)[f] = Applied(d, ws, k + 1)[f]
  <2> DEFINE C(i) == i \in 1..k /\ t[i].file = f
             D(i) == i \in 1..(k + 1) /\ ws[i].file = f
  <2>0. \A i \in 1..k : i \in DOMAIN t
    BY <1>1
  <2>1. \A i : D(i) => i \in DOMAIN ws
    BY <1>1
  <2>2. Applied(n, t, k)[f] = IF \E i \in 1..k : t[i].file = f
                              THEN t[CHOOSE i \in 1..k : t[i].file = f].content ELSE n[f]
    BY DEF Applied
  <2>3. Applied(d, ws, k + 1)[f] = IF \E i \in 1..(k + 1) : ws[i].file = f
                                   THEN ws[CHOOSE i \in 1..(k + 1) : ws[i].file = f].content ELSE d[f]
    BY DEF Applied
  <2>4. CASE f = h.file
    <3>1. 1 \in 1..(k + 1) /\ ws[1].file = f /\ \A i \in 1..(k + 1) : ws[i].file = f => i = 1
      BY <1>1, <2>4 DEF Distinct
    <3>2. (CHOOSE i \in 1..(k + 1) : ws[i].file = f) = 1
      BY <3>1
    <3>3. ~\E i \in 1..k : t[i].file = f
      BY <1>1, <2>0, <3>1
    <3>4. n[f] = h.content
      BY <2>4 DEF Contents
    <3> QED
      BY <1>1, <2>2, <2>3, <3>1, <3>2, <3>3, <3>4
  <2>5. CASE f # h.file
    <3>1. n[f] = d[f]
      BY <2>5 DEF Contents
    <3>2. CASE \E i \in 1..k : t[i].file = f
      <4>1. PICK i \in 1..k : t[i].file = f
        BY <3>2
      <4>2. \A j \in 1..k : t[j].file = f => j = i
        BY <1>3, <2>0, <4>1 DEF Distinct
      <4>3. (CHOOSE j \in 1..k : t[j].file = f) = i
        BY <4>1, <4>2
      <4>4. i + 1 \in 1..(k + 1) /\ ws[i + 1] = t[i]
        BY <1>1, <2>0
      <4>5. \A j \in 1..(k + 1) : ws[j].file = f => j = i + 1
        BY <1>1, <4>1, <4>4 DEF Distinct
      <4>6. (CHOOSE j \in 1..(k + 1) : ws[j].file = f) = i + 1
        BY <4>1, <4>4, <4>5
      <4> QED
        BY <2>2, <2>3, <4>1, <4>3, <4>4, <4>6
    <3>3. CASE ~\E i \in 1..k : t[i].file = f
      <4>1. ASSUME NEW j \in 1..(k + 1), ws[j].file = f PROVE FALSE
        <5>1. j # 1
          BY <1>1, <2>5, <4>1
        <5>2. j - 1 \in 1..k /\ t[j - 1] = ws[j]
          BY <1>1, <5>1
        <5> QED
          BY <3>3, <4>1, <5>2
      <4> QED
        BY <2>2, <2>3, <3>1, <3>3, <4>1
    <3> QED
      BY <3>2, <3>3
  <2> QED
    BY <2>4, <2>5
<1>5. Applied(n, t, k) = Applied(d, ws, k + 1)
  BY <1>4 DEF Applied
<1> QED
  BY <1>2, <1>3, <1>5 DEF h, t, Done

LEMMA WritesSound ==
  ASSUME NEW d \in Contents, NEW ws \in Seq(WriteType), ws # <<>>, Distinct(ws),
         NEW known, NEW got,
         SoundFiles(d, known, got),
         \A k \in 0..Len(Tail(ws)) :
           SoundFiles(Applied(Done(d, Head(ws)), Tail(ws), k), known, got)
  PROVE  \A k \in 0..Len(ws) : SoundFiles(Applied(d, ws, k), known, got)
<1> TAKE k \in 0..Len(ws)
<1>1. CASE k = 0
  BY <1>1, AppliedNone
<1>2. CASE k # 0
  <2> DEFINE j == k - 1
  <2>1. j \in 0..(Len(ws) - 1) /\ j + 1 = k /\ Len(Tail(ws)) = Len(ws) - 1
    BY <1>2
  <2> HIDE DEF j
  <2>2. Applied(Done(d, Head(ws)), Tail(ws), j) = Applied(d, ws, j + 1)
    BY <2>1, AppliedNext
  <2> QED
    BY <2>1, <2>2
<1> QED
  BY <1>1, <1>2

LEMMA AppliedAll ==
  ASSUME NEW d \in Contents, NEW ws \in Seq(WriteType), ws # <<>>, Distinct(ws)
  PROVE  Applied(d, ws, Len(ws)) = Applied(Done(d, Head(ws)), Tail(ws), Len(Tail(ws)))
<1> DEFINE k == Len(Tail(ws))
<1>1. k \in 0..(Len(ws) - 1) /\ k + 1 = Len(ws)
  OBVIOUS
<1> HIDE DEF k
<1>2. Applied(Done(d, Head(ws)), Tail(ws), k) = Applied(d, ws, k + 1)
  BY <1>1, AppliedNext
<1> QED
  BY <1>1, <1>2 DEF k

LEMMA WriteIs ==
  ASSUME NEW f \in Files, NEW c \in Seq(Entries)
  PROVE  Write(f, c) \in WriteType /\ Write(f, c).file = f /\ Write(f, c).content = c
BY DEF Write, WriteType

LEMMA DoneType ==
  ASSUME NEW d \in Contents, NEW w \in WriteType PROVE Done(d, w) \in Contents
BY DEF Done, Contents, WriteType

LEMMA OneTuple ==
  ASSUME NEW W, NEW u \in W
  PROVE  /\ <<u>> \in Seq(W) /\ <<u>> # <<>> /\ Len(<<u>>) = 1
         /\ Head(<<u>>) = u /\ Tail(<<u>>) = <<>>
         /\ Distinct(<<u>>)
BY DEF Distinct

LEMMA TwoTuple ==
  ASSUME NEW W, NEW u \in W, NEW v \in W, u.file # v.file
  PROVE  /\ <<u, v>> \in Seq(W) /\ <<u, v>> # <<>> /\ Len(<<u, v>>) = 2
         /\ Head(<<u, v>>) = u /\ Tail(<<u, v>>) = <<v>>
         /\ Distinct(<<u, v>>)
<1>1. DOMAIN <<u, v>> = {1, 2}
  OBVIOUS
<1> QED
  BY <1>1 DEF Distinct

LEMMA ThreeTuple ==
  ASSUME NEW W, NEW u \in W, NEW v \in W, NEW w \in W,
         u.file # v.file, u.file # w.file, v.file # w.file
  PROVE  /\ <<u, v, w>> \in Seq(W) /\ <<u, v, w>> # <<>> /\ Len(<<u, v, w>>) = 3
         /\ Head(<<u, v, w>>) = u /\ Tail(<<u, v, w>>) = <<v, w>>
         /\ Distinct(<<u, v, w>>)
<1>1. DOMAIN <<u, v, w>> = {1, 2, 3}
  OBVIOUS
<1> QED
  BY <1>1 DEF Distinct

\* One, two or three files to write.
LEMMA OneWrite ==
  ASSUME NEW d \in Contents, NEW u \in WriteType
  PROVE  /\ <<u>> \in Seq(WriteType) /\ Distinct(<<u>>)
         /\ Applied(d, <<u>>, Len(<<u>>)) = Done(d, u)
         /\ \A known, got :
              SoundFiles(d, known, got) /\ SoundFiles(Done(d, u), known, got)
              => \A k \in 0..Len(<<u>>) : SoundFiles(Applied(d, <<u>>, k), known, got)
<1>1. /\ <<u>> \in Seq(WriteType) /\ <<u>> # <<>> /\ Distinct(<<u>>)
      /\ Head(<<u>>) = u /\ Tail(<<u>>) = <<>> /\ Len(<<>>) = 0
  BY OneTuple
<1>2. Done(d, u) \in Contents
  BY DoneType
<1>3. Applied(Done(d, u), <<>>, 0) = Done(d, u)
  BY <1>2, AppliedNone
<1>4. Applied(d, <<u>>, Len(<<u>>)) = Done(d, u)
  <2>1. Applied(d, <<u>>, Len(<<u>>)) = Applied(Done(d, Head(<<u>>)), Tail(<<u>>), Len(Tail(<<u>>)))
    BY <1>1, AppliedAll
  <2> QED
    BY <1>1, <1>3, <2>1
<1>5. ASSUME NEW known, NEW got, SoundFiles(d, known, got), SoundFiles(Done(d, u), known, got)
      PROVE  \A k \in 0..Len(<<u>>) : SoundFiles(Applied(d, <<u>>, k), known, got)
  <2>1. \A k \in 0..Len(Tail(<<u>>)) :
          SoundFiles(Applied(Done(d, Head(<<u>>)), Tail(<<u>>), k), known, got)
    BY <1>1, <1>3, <1>5
  <2> QED
    BY <1>1, <1>5, <2>1, WritesSound
<1> QED
  BY <1>1, <1>4, <1>5

LEMMA TwoWrites ==
  ASSUME NEW d \in Contents, NEW u \in WriteType, NEW v \in WriteType, u.file # v.file
  PROVE  /\ <<u, v>> \in Seq(WriteType) /\ Distinct(<<u, v>>)
         /\ Applied(d, <<u, v>>, Len(<<u, v>>)) = Done(Done(d, u), v)
         /\ \A known, got :
              /\ SoundFiles(d, known, got) /\ SoundFiles(Done(d, u), known, got)
              /\ SoundFiles(Done(Done(d, u), v), known, got)
              => \A k \in 0..Len(<<u, v>>) : SoundFiles(Applied(d, <<u, v>>, k), known, got)
<1>1. /\ <<u, v>> \in Seq(WriteType) /\ <<u, v>> # <<>> /\ Distinct(<<u, v>>)
      /\ Head(<<u, v>>) = u /\ Tail(<<u, v>>) = <<v>>
  BY TwoTuple
<1>2. Done(d, u) \in Contents
  BY DoneType
<1>3. Applied(Done(d, u), <<v>>, Len(<<v>>)) = Done(Done(d, u), v)
  BY <1>2, OneWrite
<1>4. Applied(d, <<u, v>>, Len(<<u, v>>)) = Done(Done(d, u), v)
  <2>1. Applied(d, <<u, v>>, Len(<<u, v>>))
          = Applied(Done(d, Head(<<u, v>>)), Tail(<<u, v>>), Len(Tail(<<u, v>>)))
    BY <1>1, AppliedAll
  <2> QED
    BY <1>1, <1>3, <2>1
<1>5. ASSUME NEW known, NEW got, SoundFiles(d, known, got), SoundFiles(Done(d, u), known, got),
             SoundFiles(Done(Done(d, u), v), known, got)
      PROVE  \A k \in 0..Len(<<u, v>>) : SoundFiles(Applied(d, <<u, v>>, k), known, got)
  <2>1. \A k \in 0..Len(Tail(<<u, v>>)) :
          SoundFiles(Applied(Done(d, Head(<<u, v>>)), Tail(<<u, v>>), k), known, got)
    BY <1>1, <1>2, <1>5, OneWrite
  <2> QED
    BY <1>1, <1>5, <2>1, WritesSound
<1> QED
  BY <1>1, <1>4, <1>5

LEMMA ThreeWrites ==
  ASSUME NEW d \in Contents, NEW u \in WriteType, NEW v \in WriteType, NEW w \in WriteType,
         u.file # v.file, u.file # w.file, v.file # w.file
  PROVE  /\ <<u, v, w>> \in Seq(WriteType) /\ Distinct(<<u, v, w>>)
         /\ Applied(d, <<u, v, w>>, Len(<<u, v, w>>)) = Done(Done(Done(d, u), v), w)
         /\ \A known, got :
              /\ SoundFiles(d, known, got) /\ SoundFiles(Done(d, u), known, got)
              /\ SoundFiles(Done(Done(d, u), v), known, got)
              /\ SoundFiles(Done(Done(Done(d, u), v), w), known, got)
              => \A k \in 0..Len(<<u, v, w>>) :
                   SoundFiles(Applied(d, <<u, v, w>>, k), known, got)
<1>1. /\ <<u, v, w>> \in Seq(WriteType) /\ <<u, v, w>> # <<>> /\ Distinct(<<u, v, w>>)
      /\ Head(<<u, v, w>>) = u /\ Tail(<<u, v, w>>) = <<v, w>>
  BY ThreeTuple
<1>2. Done(d, u) \in Contents
  BY DoneType
<1>3. Applied(Done(d, u), <<v, w>>, Len(<<v, w>>)) = Done(Done(Done(d, u), v), w)
  BY <1>2, TwoWrites
<1>4. Applied(d, <<u, v, w>>, Len(<<u, v, w>>)) = Done(Done(Done(d, u), v), w)
  <2>1. Applied(d, <<u, v, w>>, Len(<<u, v, w>>))
          = Applied(Done(d, Head(<<u, v, w>>)), Tail(<<u, v, w>>), Len(Tail(<<u, v, w>>)))
    BY <1>1, AppliedAll
  <2> QED
    BY <1>1, <1>3, <2>1
<1>5. ASSUME NEW known, NEW got, SoundFiles(d, known, got), SoundFiles(Done(d, u), known, got),
             SoundFiles(Done(Done(d, u), v), known, got),
             SoundFiles(Done(Done(Done(d, u), v), w), known, got)
      PROVE  \A k \in 0..Len(<<u, v, w>>) : SoundFiles(Applied(d, <<u, v, w>>, k), known, got)
  <2>1. \A k \in 0..Len(Tail(<<u, v, w>>)) :
          SoundFiles(Applied(Done(d, Head(<<u, v, w>>)), Tail(<<u, v, w>>), k), known, got)
    BY <1>1, <1>2, <1>5, TwoWrites
  <2> QED
    BY <1>1, <1>5, <2>1, WritesSound
<1> QED
  BY <1>1, <1>4, <1>5

\* What a file holds after one of the three is written.
LEMMA DoneParts ==
  ASSUME NEW d \in Contents, NEW f \in Files, NEW c \in Seq(Entries)
  PROVE  /\ Done(d, Write(f, c)) \in Contents /\ Done(d, Write(f, c))[f] = c
         /\ \A g \in Files \ {f} : Done(d, Write(f, c))[g] = d[g]
BY DEF Done, Write, Contents

\* The same, said of the three files by name.
SoundThree(p, d, s, known, got) ==
  /\ p \in Seq(Entries) /\ d \in Seq(Entries) /\ s \in Seq(Entries)
  /\ Len(p) <= MaxPending /\ Len(d) <= MaxDeadLetter
  /\ \A i \in DOMAIN p : p[i].attempts < RetryLimit
  /\ Once(p) /\ Once(d) /\ Once(s)
  /\ Ids(p) \cup Ids(d) \cup Ids(s) \subseteq known
  /\ Ids(p) \cap Ids(d) = {} /\ Ids(p) \cap Ids(s) = {} /\ Ids(d) \cap Ids(s) = {}
  /\ Ids(s) \subseteq got

LEMMA SoundParts ==
  ASSUME NEW d \in [Files -> Seq(Entries)], NEW known, NEW got
  PROVE  SoundFiles(d, known, got)
         <=> SoundThree(d["pending"], d["dead"], d["sent"], known, got)
<1> DEFINE p == d["pending"]
           l == d["dead"]
           s == d["sent"]
<1>1. /\ p \in Seq(Entries) /\ l \in Seq(Entries) /\ s \in Seq(Entries)
  BY DEF Files
<1>2. (\A f \in Files : Once(d[f]) /\ Ids(d[f]) \subseteq known)
      <=> /\ Once(p) /\ Once(l) /\ Once(s)
          /\ Ids(p) \cup Ids(l) \cup Ids(s) \subseteq known
  BY DEF Files
<1>3. (\A f, g \in Files : f # g => Ids(d[f]) \cap Ids(d[g]) = {})
      <=> /\ Ids(p) \cap Ids(l) = {} /\ Ids(p) \cap Ids(s) = {} /\ Ids(l) \cap Ids(s) = {}
  BY DEF Files
<1> QED
  BY <1>1, <1>2, <1>3 DEF SoundFiles, SoundThree

LEMMA SoundMore ==
  ASSUME NEW d, NEW known, NEW got, NEW more, NEW further,
         SoundFiles(d, known, got), known \subseteq more, got \subseteq further
  PROVE  SoundFiles(d, more, further)
BY DEF SoundFiles

LEMMA DoneOther ==
  ASSUME NEW d \in Contents, NEW f \in Files, NEW c \in Seq(Entries), NEW g \in Files \ {f}
  PROVE  Done(d, Write(f, c))[g] = d[g]
BY DoneParts

-----------------------------------------------------------------------------
(* The steps keep the files and what flush has in hand as they should be   *)

LEMMA FlowFacts ==
  ASSUME FlowInv
  PROVE  /\ file \in Contents /\ SoundFiles(file, Known, received)
         /\ SoundThree(file["pending"], file["dead"], file["sent"], Known, received)
         /\ writes \in Seq(WriteType) /\ Distinct(writes)
         /\ Known \subseteq Reports
<1>1. file \in Contents /\ writes \in Seq(WriteType) /\ Distinct(writes) /\ Len(writes) \in Nat
  BY DEF FlowInv, DiskInv, FlowTypes, LockInv, Contents, WriteType, Distinct
<1>2. After(0) = file
  BY <1>1, AppliedNone DEF After
<1>3. SoundFiles(file, Known, received)
  BY <1>1, <1>2 DEF FlowInv, DiskInv
<1>4. SoundThree(file["pending"], file["dead"], file["sent"], Known, received)
  BY <1>1, <1>3, SoundParts DEF Contents
<1> QED
  BY <1>1, <1>3, <1>4 DEF Known

\* Steps that leave the files, their lock and flush alone.
LEMMA FlowFrame ==
  ASSUME FlowInv, UNCHANGED <<mix, diskVars, boots, flushVars, enabled>>,
         hours' \in 0..MaxHours, tests' \in 0..MaxTests,
         capture' \in [Reports -> Stages],
         \A r \in Reports : capture[r] # "none" => capture'[r] # "none",
         holder \in Reports => capture'[holder] = "enqueue",
         received' \in SUBSET Reports, received \subseteq received',
         sender'.pc # "idle" => sender'.id \in Reports,
         sender'.pc = "mark" => sender'.id \in received'
  PROVE  FlowInv'
<1>1. Known \subseteq Known'
  BY DEF Known
<1>2. FlowTypes'
  BY DEF FlowInv, FlowTypes, diskVars, flushVars
<1>3. LockInv'
  BY DEF FlowInv, LockInv, diskVars, flushVars
<1>4. DiskInv'
  <2>1. UNCHANGED <<file, writes>>
    BY DEF diskVars
  <2>2. \A k \in 0..Len(writes) : SoundFiles(After(k), Known', received')
    BY <1>1, SoundMore DEF FlowInv, DiskInv
  <2> QED
    BY <2>1, <2>2 DEF FlowInv, DiskInv, After
<1>5. HandInv'
  BY DEF FlowInv, HandInv, Sorting, diskVars, flushVars
<1> QED
  BY <1>2, <1>3, <1>4, <1>5 DEF FlowInv

LEMMA PrepareFlow ==
  ASSUME FlowInv, NEW r \in Reports, Prepare(r) PROVE FlowInv'
<1>1. /\ UNCHANGED <<mix, diskVars, boots, flushVars, enabled, sender, hours, tests, received>>
      /\ capture[r] \in {"persisted", "unfiled"}
      /\ capture' = [capture EXCEPT ![r] = IF @ = "persisted" THEN "done" ELSE "adrift"]
  BY DEF Prepare
<1>2. holder \in Reports => capture'[holder] = "enqueue"
  BY <1>1 DEF FlowInv, FlowTypes, LockInv
<1>3. /\ hours' \in 0..MaxHours /\ tests' \in 0..MaxTests /\ received' \in SUBSET Reports
      /\ capture' \in [Reports -> Stages]
      /\ \A q \in Reports : capture[q] # "none" => capture'[q] # "none"
  BY <1>1 DEF FlowInv, FlowTypes, Stages
<1>4. /\ sender'.pc # "idle" => sender'.id \in Reports
      /\ sender'.pc = "mark" => sender'.id \in received'
  BY <1>1 DEF FlowInv, LockInv
<1> QED
  BY <1>1, <1>2, <1>3, <1>4, FlowFrame

LEMMA SenderFlow ==
  ASSUME RateInv, FlowInv, SenderTakes \/ SendOk \/ SendFails PROVE FlowInv'
<1>1. UNCHANGED <<mix, diskVars, boots, flushVars, enabled, capture, hours, tests>>
  BY DEF SenderTakes, SendOk, SendFails, rateVars
<1>2. /\ hours' \in 0..MaxHours /\ tests' \in 0..MaxTests
      /\ capture' \in [Reports -> Stages]
      /\ \A q \in Reports : capture[q] # "none" => capture'[q] # "none"
      /\ holder \in Reports => capture'[holder] = "enqueue"
  BY <1>1 DEF FlowInv, FlowTypes, LockInv
<1>3. /\ received' \in SUBSET Reports /\ received \subseteq received'
      /\ sender'.pc # "idle" => sender'.id \in Reports
      /\ sender'.pc = "mark" => sender'.id \in received'
  <2>1. CASE SenderTakes
    <3>1. Head(channel) \in Reports
      BY <2>1 DEF SenderTakes, RateInv, RateTypes
    <3> QED
      BY <2>1, <3>1 DEF SenderTakes, FlowInv, FlowTypes
  <2>2. CASE SendOk
    <3>1. sender.id \in Reports
      BY <2>2 DEF SendOk, FlowInv, LockInv
    <3>2. sender'.pc = "idle" \/ (sender'.pc = "mark" /\ sender'.id = sender.id)
      BY <2>2, IdleType DEF SendOk, RateInv, RateTypes
    <3> QED
      BY <2>2, <3>1, <3>2 DEF SendOk, FlowInv, FlowTypes
  <2>3. CASE SendFails
    <3>1. sender.id \in Reports
      BY <2>3 DEF SendFails, FlowInv, LockInv
    <3>2. sender'.pc = "idle"
      BY <2>3, IdleType DEF SendFails
    <3> QED
      BY <2>3, <3>1, <3>2 DEF SendFails, FlowInv, FlowTypes
  <2> QED
    BY <2>1, <2>2, <2>3
<1> QED
  BY <1>1, <1>2, <1>3, FlowFrame

LEMMA TestFlow ==
  ASSUME FlowInv, TestBegins \/ TestEnds \/ HourPasses PROVE FlowInv'
<1>1. UNCHANGED <<mix, diskVars, boots, flushVars, enabled, capture, sender, received>>
  BY DEF TestBegins, TestEnds, HourPasses, sendVars
<1>2. hours' \in 0..MaxHours /\ tests' \in 0..MaxTests
  BY BoundsAssumption DEF TestBegins, TestEnds, HourPasses, FlowInv, FlowTypes
<1>3. /\ capture' \in [Reports -> Stages]
      /\ \A q \in Reports : capture[q] # "none" => capture'[q] # "none"
      /\ holder \in Reports => capture'[holder] = "enqueue"
      /\ received' \in SUBSET Reports
      /\ sender'.pc # "idle" => sender'.id \in Reports
      /\ sender'.pc = "mark" => sender'.id \in received'
  BY <1>1 DEF FlowInv, FlowTypes, LockInv
<1> QED
  BY <1>1, <1>2, <1>3, FlowFrame

\* A write done is the first of those planned: what comes after it is as
\* planned.
LEMMA WriteDone ==
  ASSUME FlowInv, WriteNext
  PROVE  /\ file' = Done(file, Head(writes)) /\ file' \in Contents
         /\ Len(writes) \in Nat /\ Len(writes) >= 1 /\ Len(writes') = Len(writes) - 1
         /\ writes' \in Seq(WriteType) /\ Distinct(writes')
         /\ \A k \in 0..Len(writes') : Applied(file', writes', k) = Applied(file, writes, k + 1)
         /\ Applied(file', writes', Len(writes')) = Applied(file, writes, Len(writes))
<1>1. /\ writes # <<>> /\ writes' = Tail(writes) /\ file' = Done(file, Head(writes))
  BY DEF WriteNext, Done
<1>2. file \in Contents /\ writes \in Seq(WriteType) /\ Distinct(writes)
  BY FlowFacts
<1>3. /\ Len(writes) \in Nat /\ Len(writes) >= 1 /\ Len(writes') = Len(writes) - 1
      /\ writes' \in Seq(WriteType) /\ 0 \in 0..(Len(writes) - 1)
  BY <1>1, <1>2
<1>4. \A k \in 0..Len(writes') : Applied(file', writes', k) = Applied(file, writes, k + 1)
  BY <1>1, <1>2, <1>3, AppliedNext
<1>5. file' \in Contents /\ Distinct(writes')
  BY <1>1, <1>2, <1>3, AppliedNext
<1>6. Applied(file', writes', Len(writes')) = Applied(file, writes, Len(writes))
  BY <1>1, <1>2, AppliedAll
<1> QED
  BY <1>1, <1>3, <1>4, <1>5, <1>6

\* Flush does not go back to sending once it writes.
LEMMA WriteSorting == ASSUME FlowInv, WriteNext PROVE ~Sorting'
<1>1. starting' = IF Len(writes) = 1 /\ holder = "flush"
                  THEN IF starting = "clean" THEN "flush" ELSE "up"
                  ELSE starting
  BY DEF WriteNext
<1>2. CASE Len(writes) = 1
  BY <1>1, <1>2 DEF Sorting, FlowInv, LockInv
<1>3. CASE Len(writes) # 1
  <2>1. Len(writes') # 0
    BY <1>3, WriteDone
  <2> QED
    BY <2>1 DEF Sorting
<1> QED
  BY <1>2, <1>3

LEMMA WriteFlow == ASSUME RateInv, FlowInv, WriteNext PROVE FlowInv'
<1>1. /\ writes # <<>> /\ UNCHANGED <<mix, dropped, boots, batch, keep, dead, sent, enabled, received>>
      /\ hours' = hours /\ tests' = tests
      /\ holder' = IF Len(writes) = 1 THEN Nobody ELSE holder
      /\ capture' = [r \in Reports |-> IF Len(writes) = 1 /\ holder = r
                                       THEN "persisted" ELSE capture[r]]
      /\ sender' = IF Len(writes) = 1 /\ holder = "mark" THEN Idle ELSE sender
      /\ starting' = IF Len(writes) = 1 /\ holder = "flush"
                     THEN IF starting = "clean" THEN "flush" ELSE "up"
                     ELSE starting
  BY DEF WriteNext, rateVars
<1>2. Known' = Known
  <2>1. \A r \in Reports : holder = r => capture[r] = "enqueue"
    BY DEF FlowInv, LockInv
  <2> QED
    BY <1>1, <2>1 DEF Known
<1>3. FlowTypes'
  <2>1. capture' \in [Reports -> Stages]
    BY <1>1 DEF FlowInv, FlowTypes, Stages
  <2> QED
    BY <1>1, <2>1, WriteDone DEF FlowInv, FlowTypes, WriteType
<1>4. LockInv'
  <2>1. holder # Nobody
    BY <1>1 DEF FlowInv, LockInv
  <2>2. Distinct(writes')
    BY WriteDone
  <2>3. sender'.pc # "idle" => sender' = sender
    BY <1>1, IdleType
  <2>4. CASE Len(writes) = 1
    <3>1. holder' = Nobody /\ Nobody \notin Reports \cup {"flush", "mark"}
      BY <1>1, <2>4, NobodyAssumption
    <3>2. writes' = <<>>
      <4>1. Len(writes') = 0 /\ writes' \in Seq(WriteType)
        BY <2>4, WriteDone
      <4> QED
        BY <4>1
    <3>3. starting' # "sending"
      BY <1>1, <2>4 DEF FlowInv, LockInv
    <3> QED
      BY <1>1, <2>2, <2>3, <3>1, <3>2, <3>3 DEF FlowInv, LockInv, Distinct
  <2>5. CASE Len(writes) # 1
    <3>1. holder' = holder /\ starting' = starting /\ sender' = sender
      BY <1>1, <2>5
    <3>2. holder \in Reports => capture'[holder] = capture[holder]
      BY <1>1, <2>5
    <3> QED
      BY <1>1, <2>1, <2>2, <3>1, <3>2 DEF FlowInv, LockInv, Distinct
  <2> QED
    BY <2>4, <2>5
<1>5. DiskInv'
  <2>1. ASSUME NEW k \in 0..Len(writes')
        PROVE  SoundFiles(Applied(file', writes', k), Known, received)
    <3>1. k + 1 \in 0..Len(writes) /\ Applied(file', writes', k) = After(k + 1)
      BY WriteDone DEF After
    <3> QED
      BY <3>1 DEF FlowInv, DiskInv
  <2>2. file' \in [Files -> Seq(Entries)]
    BY WriteDone DEF Contents
  <2> QED
    BY <1>1, <1>2, <2>1, <2>2 DEF DiskInv, After
<1>6. ~Sorting'
  BY WriteSorting
<1> QED
  BY <1>3, <1>4, <1>5, <1>6 DEF FlowInv, HandInv

\* Nothing is being written while the lock is free.
LEMMA FreeFacts == ASSUME FlowInv, Free
                   PROVE  writes = <<>> /\ starting # "sending" /\ ~Sorting
BY NobodyAssumption DEF FlowInv, LockInv, Free, Sorting

\* What an enqueue keeps of the pending reports, and what it drops.
LEMMA EnqueueFacts ==
  ASSUME FlowInv, NEW r \in Reports, Enqueue(r)
  PROVE  LET all == Append(file["pending"], Entry(r))
             new == Newest(MaxPending, all)
         IN  /\ all \in Seq(Entries) /\ Ids(all) = Ids(file["pending"]) \cup {r}
             /\ SoundThree(new, file["dead"], file["sent"], Known', received)
             /\ Ids(new) \subseteq Ids(all)
             /\ Known' = Known \cup {r}
<1> DEFINE p == file["pending"]
           all == Append(p, Entry(r))
           new == Newest(MaxPending, all)
<1>1. SoundThree(p, file["dead"], file["sent"], Known, received) /\ p \in Seq(Entries)
  BY FlowFacts DEF SoundThree
<1>2. Known' = Known \cup {r} /\ r \notin Known
  BY DEF Enqueue, Known, FlowInv, FlowTypes
<1>3. Entry(r) \in Entries /\ Entry(r).id = r /\ Entry(r).attempts = 0
  BY EntryType
<1>4. /\ all \in Seq(Entries) /\ Ids(all) = Ids(p) \cup {r}
      /\ Once(p) /\ r \notin Ids(p) => Once(all)
      /\ \A i \in DOMAIN all : all[i] = Entry(r) \/ \E j \in DOMAIN p : all[i] = p[j]
  BY <1>1, <1>3, AppendIds
<1> HIDE DEF all
<1>5. /\ new \in Seq(Entries) /\ Len(new) <= MaxPending /\ Ids(new) \subseteq Ids(all)
      /\ Once(all) => Once(new)
      /\ \A i \in DOMAIN new : \E j \in DOMAIN all : new[i] = all[j]
  BY <1>4, NewestIds, BoundsAssumption
<1> HIDE DEF new
<1>6. \A i \in DOMAIN all : all[i].attempts < RetryLimit
  BY <1>1, <1>3, <1>4, BoundsAssumption DEF SoundThree
<1>7. \A i \in DOMAIN new : new[i].attempts < RetryLimit
  BY <1>5, <1>6
<1>8. SoundThree(new, file["dead"], file["sent"], Known', received)
  BY <1>1, <1>2, <1>4, <1>5, <1>7 DEF SoundThree
<1> QED
  BY <1>2, <1>4, <1>5, <1>8 DEF all, new

LEMMA EnqueueFlow ==
  ASSUME FlowInv, NEW r \in Reports, Enqueue(r) PROVE FlowInv'
<1> DEFINE all == Append(file["pending"], Entry(r))
           new == Newest(MaxPending, all)
           w == Write("pending", new)
<1>1. /\ holder' = r /\ writes' = <<w>> /\ dropped' = dropped \cup (Ids(all) \ Ids(new))
      /\ capture' = [capture EXCEPT ![r] = "enqueue"]
      /\ UNCHANGED <<mix, file, boots, starting, batch, keep, dead, sent, enabled,
                     sender, hours, tests, received>>
  BY DEF Enqueue, flushVars, sendVars, rateVars
<1>2. /\ all \in Seq(Entries) /\ SoundThree(new, file["dead"], file["sent"], Known', received)
      /\ Known' = Known \cup {r} /\ new \in Seq(Entries)
  BY EnqueueFacts DEF SoundThree
<1>3. w \in WriteType
  BY <1>2, WriteIs DEF Files
<1>4. file \in Contents /\ SoundFiles(file, Known, received)
  BY FlowFacts
<1>5. SoundFiles(Done(file, w), Known', received)
  BY <1>2, <1>4, DoneParts, SoundParts DEF Contents, Files
<1> HIDE DEF w
<1>6. /\ <<w>> \in Seq(WriteType) /\ Distinct(<<w>>)
      /\ \A k \in 0..Len(<<w>>) : SoundFiles(Applied(file, <<w>>, k), Known', received)
  BY <1>2, <1>3, <1>4, <1>5, OneWrite, SoundMore
<1>7. DiskInv'
  BY <1>1, <1>4, <1>6 DEF DiskInv, After, Contents
<1>8. starting # "sending"
  BY FreeFacts DEF Enqueue
<1>9. LockInv'
  BY <1>1, <1>6, <1>8, NobodyAssumption DEF FlowInv, FlowTypes, LockInv, Distinct
<1>10. FlowTypes'
  <2>1. dropped' \subseteq Reports
    BY <1>1, <1>2, IdsReports DEF FlowInv, FlowTypes
  <2>2. capture' \in [Reports -> Stages]
    BY <1>1 DEF FlowInv, FlowTypes, Stages
  <2> HIDE DEF all, new
  <2> QED
    BY <1>1, <1>6, <2>1, <2>2 DEF FlowInv, FlowTypes, WriteType
<1> QED
  BY <1>1, <1>7, <1>8, <1>9, <1>10 DEF FlowInv, HandInv, Sorting

LEMMA CleanUpFlow == ASSUME FlowInv, CleanUp PROVE FlowInv'
<1>1. PICK n \in 0..Len(file["sent"]) : writes' = <<Write("sent", Newest(n, file["sent"]))>>
  BY DEF CleanUp
<1> DEFINE s == file["sent"]
           new == Newest(n, s)
           w == Write("sent", new)
<1>2. /\ starting = "clean" /\ holder' = "flush" /\ writes' = <<w>>
      /\ UNCHANGED <<mix, file, dropped, boots, starting, batch, keep, dead, sent, enabled,
                     capture, sender, hours, tests, received>>
  BY <1>1 DEF CleanUp, flushVars, sendVars, rateVars
<1>3. /\ file \in Contents /\ SoundFiles(file, Known, received)
      /\ SoundThree(file["pending"], file["dead"], s, Known, received)
  BY FlowFacts
<1>4. s \in Seq(Entries) /\ n \in Nat
  BY <1>3 DEF SoundThree
<1>5. /\ new \in Seq(Entries) /\ Ids(new) \subseteq Ids(s)
      /\ Once(s) => Once(new)
  BY <1>4, NewestIds
<1> HIDE DEF new
<1>6. SoundThree(file["pending"], file["dead"], new, Known, received)
  BY <1>3, <1>5 DEF SoundThree
<1>7. w \in WriteType /\ SoundFiles(Done(file, w), Known, received)
  BY <1>3, <1>5, <1>6, WriteIs, DoneParts, SoundParts DEF Contents, Files
<1> HIDE DEF w
<1>8. /\ <<w>> \in Seq(WriteType) /\ Distinct(<<w>>)
      /\ \A k \in 0..Len(<<w>>) : SoundFiles(Applied(file, <<w>>, k), Known, received)
  BY <1>3, <1>7, OneWrite
<1>9. Known' = Known
  BY <1>2 DEF Known
<1>10. DiskInv'
  BY <1>2, <1>3, <1>8, <1>9 DEF DiskInv, After, Contents
<1>11. LockInv'
  BY <1>2, <1>8, NobodyAssumption DEF FlowInv, LockInv, Distinct
<1>12. FlowTypes'
  BY <1>2, <1>8 DEF FlowInv, FlowTypes, WriteType
<1> QED
  BY <1>2, <1>10, <1>11, <1>12 DEF FlowInv, HandInv, Sorting

LEMMA NothingFlow == ASSUME FlowInv, FlushNothing PROVE FlowInv'
<1>1. /\ starting = "flush" /\ starting' = "up"
      /\ UNCHANGED <<mix, file, dropped, holder, writes, boots, batch, keep, dead, sent, enabled,
                     capture, sender, hours, tests, received>>
  BY DEF FlushNothing, diskVars, sendVars, rateVars
<1>2. FlowTypes'
  BY <1>1 DEF FlowInv, FlowTypes
<1>3. LockInv'
  BY <1>1 DEF FlowInv, LockInv
<1>4. DiskInv'
  BY <1>1 DEF FlowInv, DiskInv, After, Known
<1> QED
  BY <1>1, <1>2, <1>3, <1>4 DEF FlowInv, HandInv, Sorting

LEMMA BeginFlow == ASSUME FlowInv, FlushBegin PROVE FlowInv'
<1>1. /\ starting = "flush" /\ Free /\ starting' = "sending" /\ holder' = "flush"
      /\ batch' = file["pending"] /\ keep' = <<>> /\ dead' = file["dead"] /\ sent' = file["sent"]
      /\ UNCHANGED <<mix, file, dropped, writes, boots, enabled, capture, sender, hours,
                     tests, received>>
  BY DEF FlushBegin, sendVars, rateVars
<1>2. SoundThree(file["pending"], file["dead"], file["sent"], Known, received)
  BY FlowFacts
<1>3. /\ <<>> \in Seq(Entries) /\ Ids(<<>>) = {} /\ Once(<<>>) /\ Len(<<>>) = 0
      /\ \A i \in DOMAIN <<>> : FALSE
  BY DEF Ids, Once
<1>4. FlowTypes'
  BY <1>1, <1>2, <1>3 DEF FlowInv, FlowTypes, SoundThree
<1>5. LockInv'
  BY <1>1, FreeFacts, NobodyAssumption DEF FlowInv, LockInv
<1>6. DiskInv'
  BY <1>1 DEF FlowInv, DiskInv, After, Known
<1>7. HandInv'
  <2>1. Len(batch') + Len(keep') <= MaxPending
    BY <1>1, <1>2, <1>3 DEF SoundThree
  <2> QED
    BY <1>1, <1>2, <1>3, <2>1 DEF HandInv, SoundThree
<1> QED
  BY <1>4, <1>5, <1>6, <1>7 DEF FlowInv

\* A report sent, kept or given up leaves the batch.
LEMMA SortFrame ==
  ASSUME FlowInv, starting = "sending", batch # <<>>,
         UNCHANGED <<mix, diskVars, boots, starting, enabled, capture, sender, hours, tests>>,
         batch' \in Seq(Entries), keep' \in Seq(Entries), dead' \in Seq(Entries),
         sent' \in Seq(Entries),
         received' \in SUBSET Reports, received \subseteq received',
         HandInv'
  PROVE  FlowInv'
<1>1. Known' = Known
  BY DEF Known
<1>2. FlowTypes'
  BY DEF FlowInv, FlowTypes, diskVars
<1>3. LockInv'
  BY DEF FlowInv, LockInv, diskVars
<1>4. DiskInv'
  <2>1. UNCHANGED <<file, writes>>
    BY DEF diskVars
  <2>2. \A k \in 0..Len(writes) : SoundFiles(After(k), Known', received')
    BY <1>1, SoundMore DEF FlowInv, DiskInv
  <2> QED
    BY <2>1, <2>2 DEF FlowInv, DiskInv, After
<1> QED
  BY <1>2, <1>3, <1>4 DEF FlowInv

LEMMA BatchFacts ==
  ASSUME FlowInv, starting = "sending", batch # <<>>
  PROVE  /\ Sorting
         /\ Head(batch) \in Entries /\ Head(batch).id \in Reports
         /\ Tail(batch) \in Seq(Entries) /\ Len(Tail(batch)) = Len(batch) - 1
         /\ Len(batch) \in Nat
         /\ Ids(batch) = Ids(Tail(batch)) \cup {Head(batch).id}
         /\ Once(batch) => Once(Tail(batch)) /\ Head(batch).id \notin Ids(Tail(batch))
         /\ (\A i \in DOMAIN batch : batch[i].attempts < RetryLimit)
            => /\ \A i \in DOMAIN Tail(batch) : Tail(batch)[i].attempts < RetryLimit
               /\ Head(batch).attempts < RetryLimit
<1>1. batch \in Seq(Entries)
  BY DEF FlowInv, FlowTypes
<1>2. Len(batch) \in Nat /\ Head(batch) \in Entries
  BY <1>1
<1>3. Head(batch).id \in Reports
  BY <1>2 DEF Entries
<1>4. Sorting
  BY DEF Sorting, FlowInv, LockInv
<1> QED
  BY <1>1, <1>2, <1>3, <1>4, TailIds

LEMMA SentFlow == ASSUME FlowInv, FlushSent PROVE FlowInv'
<1> DEFINE e == Head(batch)
<1>1. /\ starting = "sending" /\ batch # <<>> /\ batch' = Tail(batch) /\ sent' = Append(sent, e)
      /\ received' = received \cup {e.id}
      /\ UNCHANGED <<mix, diskVars, boots, starting, keep, dead, enabled, capture, sender,
                     hours, tests>>
  BY DEF FlushSent, sendVars, rateVars
<1>2. /\ Sorting /\ e \in Entries /\ e.id \in Reports /\ batch' \in Seq(Entries)
      /\ Len(batch') = Len(batch) - 1 /\ Len(batch) \in Nat
      /\ Ids(batch) = Ids(batch') \cup {e.id}
      /\ Once(batch) => Once(batch') /\ e.id \notin Ids(batch')
      /\ (\A i \in DOMAIN batch : batch[i].attempts < RetryLimit)
            => \A i \in DOMAIN batch' : batch'[i].attempts < RetryLimit
  BY <1>1, BatchFacts
<1> HIDE DEF e
<1>3. /\ sent \in Seq(Entries) /\ keep \in Seq(Entries) /\ dead \in Seq(Entries)
      /\ received \in SUBSET Reports
  BY DEF FlowInv, FlowTypes
<1>4. /\ sent' \in Seq(Entries) /\ Ids(sent') = Ids(sent) \cup {e.id}
      /\ Once(sent) /\ e.id \notin Ids(sent) => Once(sent')
  BY <1>1, <1>2, <1>3, AppendIds
<1>5. HandInv'
  <2>1. UNCHANGED <<file, keep, dead>> /\ Len(keep) \in Nat /\ MaxPending \in Nat
    BY <1>1, <1>3, BoundsAssumption DEF diskVars
  <2>2. e.id \in Ids(batch)
    BY <1>2
  <2>3. Len(batch') + Len(keep') <= MaxPending
    BY <1>2, <2>1 DEF FlowInv, HandInv
  <2> QED
    BY <1>1, <1>2, <1>4, <2>1, <2>2, <2>3 DEF FlowInv, HandInv
<1> QED
  BY <1>1, <1>2, <1>3, <1>4, <1>5, SortFrame

LEMMA FailsFlow == ASSUME FlowInv, FlushFails PROVE FlowInv'
<1> DEFINE h == Head(batch)
           e == [h EXCEPT !.attempts = @ + 1]
<1>1. /\ starting = "sending" /\ batch # <<>> /\ batch' = Tail(batch)
      /\ received' \in {received, received \cup {h.id}}
      /\ UNCHANGED <<mix, diskVars, boots, starting, sent, enabled, capture, sender,
                     hours, tests>>
      /\ IF e.attempts >= RetryLimit
         THEN dead' = Append(dead, e) /\ UNCHANGED keep
         ELSE keep' = Append(keep, e) /\ UNCHANGED dead
  BY DEF FlushFails, sendVars, rateVars
<1>2. /\ Sorting /\ h \in Entries /\ h.id \in Reports /\ batch' \in Seq(Entries)
      /\ Len(batch') = Len(batch) - 1 /\ Len(batch) \in Nat
      /\ Ids(batch) = Ids(batch') \cup {h.id}
      /\ Once(batch) => Once(batch') /\ h.id \notin Ids(batch')
      /\ (\A i \in DOMAIN batch : batch[i].attempts < RetryLimit)
            => /\ \A i \in DOMAIN batch' : batch'[i].attempts < RetryLimit
               /\ h.attempts < RetryLimit
  BY <1>1, BatchFacts
<1> HIDE DEF h
<1>3. /\ sent \in Seq(Entries) /\ keep \in Seq(Entries) /\ dead \in Seq(Entries)
      /\ received \in SUBSET Reports
  BY DEF FlowInv, FlowTypes
<1>4. /\ e \in [id : Reports, attempts : Nat] /\ e.id = h.id /\ e.attempts = h.attempts + 1
  BY <1>2 DEF Entries
<1> HIDE DEF e
<1>5. e \in Entries /\ (e.attempts >= RetryLimit \/ e.attempts < RetryLimit)
  <2>1. h.attempts < RetryLimit
    BY <1>2 DEF FlowInv, HandInv
  <2> QED
    BY <1>2, <1>4, <2>1, BoundsAssumption DEF Entries
<1>8. \/ e.attempts >= RetryLimit /\ dead' = Append(dead, e) /\ keep' = keep
      \/ ~(e.attempts >= RetryLimit) /\ keep' = Append(keep, e) /\ dead' = dead
  BY <1>1
<1>6. /\ received' \in SUBSET Reports /\ received \subseteq received'
      /\ keep' \in Seq(Entries) /\ dead' \in Seq(Entries)
  <2>1. received' \in SUBSET Reports /\ received \subseteq received'
    BY <1>1, <1>2, <1>3
  <2>2. keep' \in Seq(Entries) /\ dead' \in Seq(Entries)
    BY <1>8, <1>3, <1>5, AppendIds
  <2> QED
    BY <2>1, <2>2
<1>7. HandInv'
  <2>1. UNCHANGED <<file, sent>> /\ Len(keep) \in Nat /\ MaxPending \in Nat
    BY <1>1, <1>3, BoundsAssumption DEF diskVars
  <2>2. h.id \in Ids(batch)
    BY <1>2
  <2>3. CASE e.attempts >= RetryLimit
    <3>1. /\ Ids(dead') = Ids(dead) \cup {h.id} /\ keep' = keep
          /\ Once(dead) /\ h.id \notin Ids(dead) => Once(dead')
      <4>1. dead' = Append(dead, e) /\ keep' = keep
        BY <1>8, <2>3
      <4> QED
        BY <1>3, <1>4, <1>5, <4>1, AppendIds
    <3>2. Len(batch') + Len(keep') <= MaxPending
      BY <1>2, <2>1, <3>1 DEF FlowInv, HandInv
    <3> QED
      BY <1>2, <1>6, <2>1, <2>2, <3>1, <3>2 DEF FlowInv, HandInv
  <2>4. CASE ~(e.attempts >= RetryLimit)
    <3>1. /\ Ids(keep') = Ids(keep) \cup {h.id} /\ dead' = dead /\ Len(keep') = Len(keep) + 1
          /\ Once(keep) /\ h.id \notin Ids(keep) => Once(keep')
          /\ \A i \in DOMAIN keep' : keep'[i] = e \/ \E j \in DOMAIN keep : keep'[i] = keep[j]
      <4>1. keep' = Append(keep, e) /\ dead' = dead
        BY <1>8, <2>4
      <4> QED
        BY <1>3, <1>4, <1>5, <4>1, AppendIds
    <3>2. Len(batch') + Len(keep') <= MaxPending
      BY <1>2, <2>1, <3>1 DEF FlowInv, HandInv
    <3>3. \A i \in DOMAIN keep' : keep'[i].attempts < RetryLimit
      BY <1>2, <1>5, <2>4, <3>1 DEF FlowInv, HandInv
    <3> QED
      BY <1>2, <1>6, <2>1, <2>2, <3>1, <3>2, <3>3 DEF FlowInv, HandInv
  <2> QED
    BY <2>3, <2>4
<1> QED
  BY <1>1, <1>2, <1>3, <1>6, <1>7, SortFrame

LEMMA FilesFlow == ASSUME FlowInv, FlushFiles PROVE FlowInv'
<1> DEFINE new == Newest(MaxDeadLetter, dead)
           u == Write("pending", keep)
           v == Write("dead", new)
           w == Write("sent", sent)
<1>1. /\ starting = "sending" /\ batch = <<>> /\ writes = <<>>
      /\ writes' = <<u, v, w>> /\ dropped' = dropped \cup (Ids(dead) \ Ids(new))
      /\ UNCHANGED <<mix, file, holder, boots, starting, batch, keep, dead, sent, enabled,
                     capture, sender, hours, tests, received>>
  BY DEF FlushFiles, flushVars, sendVars, rateVars
<1>2. /\ file \in Contents /\ SoundFiles(file, Known, received)
      /\ SoundThree(file["pending"], file["dead"], file["sent"], Known, received)
  BY FlowFacts
<1>3. keep \in Seq(Entries) /\ dead \in Seq(Entries) /\ sent \in Seq(Entries)
  BY DEF FlowInv, FlowTypes
<1>4. /\ new \in Seq(Entries) /\ Len(new) <= MaxDeadLetter /\ Ids(new) \subseteq Ids(dead)
      /\ Once(dead) => Once(new)
  BY <1>3, NewestIds, BoundsAssumption
<1> HIDE DEF new
<1>5. Len(keep) <= MaxPending
  <2>1. Len(batch) + Len(keep) <= MaxPending /\ Len(batch) = 0 /\ Len(keep) \in Nat
    BY <1>1, <1>3 DEF FlowInv, HandInv, Sorting
  <2> QED
    BY <2>1, BoundsAssumption
<1>6. Sorting
  BY <1>1 DEF Sorting
<1>7. SoundThree(keep, file["dead"], file["sent"], Known, received)
  BY <1>2, <1>3, <1>5, <1>6 DEF FlowInv, HandInv, SoundThree
<1>8. SoundThree(keep, new, file["sent"], Known, received)
  BY <1>2, <1>4, <1>6, <1>7 DEF FlowInv, HandInv, SoundThree
<1>9. SoundThree(keep, new, sent, Known, received)
  BY <1>2, <1>3, <1>4, <1>6, <1>8 DEF FlowInv, HandInv, SoundThree
<1>10. /\ u \in WriteType /\ v \in WriteType /\ w \in WriteType
       /\ u.file # v.file /\ u.file # w.file /\ v.file # w.file
  BY <1>3, <1>4, WriteIs DEF Files
<1>11. /\ Done(file, u) \in Contents /\ SoundFiles(Done(file, u), Known, received)
       /\ Done(file, u)["pending"] = keep /\ Done(file, u)["dead"] = file["dead"]
       /\ Done(file, u)["sent"] = file["sent"]
  BY <1>2, <1>3, <1>7, DoneParts, SoundParts DEF Contents, Files
<1> HIDE DEF u
<1>12. /\ Done(Done(file, u), v) \in Contents /\ SoundFiles(Done(Done(file, u), v), Known, received)
       /\ Done(Done(file, u), v)["pending"] = keep /\ Done(Done(file, u), v)["dead"] = new
       /\ Done(Done(file, u), v)["sent"] = file["sent"]
  BY <1>4, <1>8, <1>11, DoneParts, SoundParts DEF Contents, Files
<1> HIDE DEF v
<1>13. SoundFiles(Done(Done(Done(file, u), v), w), Known, received)
  BY <1>3, <1>9, <1>12, DoneParts, SoundParts DEF Contents, Files
<1> HIDE DEF w
<1>14. /\ <<u, v, w>> \in Seq(WriteType) /\ Distinct(<<u, v, w>>)
       /\ \A k \in 0..Len(<<u, v, w>>) : SoundFiles(Applied(file, <<u, v, w>>, k), Known, received)
  BY <1>2, <1>10, <1>11, <1>12, <1>13, ThreeWrites
<1>15. Known' = Known
  BY <1>1 DEF Known
<1>16. DiskInv'
  BY <1>1, <1>2, <1>14, <1>15 DEF DiskInv, After, Contents
<1>17. LockInv'
  BY <1>1, <1>14, NobodyAssumption DEF FlowInv, LockInv, Distinct
<1>18. FlowTypes'
  <2>1. dropped' \in SUBSET Reports
    BY <1>1, <1>3, IdsReports DEF FlowInv, FlowTypes
  <2> QED
    BY <1>1, <1>14, <2>1 DEF FlowInv, FlowTypes, WriteType
<1>19. writes' # <<>>
  BY <1>1
<1> QED
  BY <1>16, <1>17, <1>18, <1>19 DEF FlowInv, HandInv, Sorting

\* As no report is pending twice, the first entry of a report is the one.
LEMMA FirstIs ==
  ASSUME FlowInv, NEW id \in Ids(file["pending"])
  PROVE  /\ FirstOf(id) \in DOMAIN file["pending"]
         /\ file["pending"][FirstOf(id)].id = id
<1> DEFINE p == file["pending"]
<1>1. p \in Seq(Entries) /\ Once(p)
  BY FlowFacts DEF SoundThree
<1>2. PICK i \in DOMAIN p : p[i].id = id
  BY DEF Ids
<1>3. \A j \in 1..(i - 1) : j \in DOMAIN p /\ j # i
  BY <1>1
<1>4. \A j \in 1..(i - 1) : p[j].id # id
  BY <1>1, <1>2, <1>3 DEF Once
<1> QED
  BY <1>2, <1>4 DEF FirstOf

LEMMA MarkFlow == ASSUME FlowInv, MarkSent PROVE FlowInv'
<1>1. /\ sender.pc = "mark" /\ Free
      /\ UNCHANGED <<mix, file, dropped, boots, starting, batch, keep, dead, sent, enabled,
                     capture, hours, tests, received>>
  BY DEF MarkSent, flushVars, rateVars
<1>2. writes = <<>> /\ starting # "sending" /\ holder = Nobody
  BY <1>1, FreeFacts DEF Free
<1>3. CASE sender.id \notin Ids(file["pending"])
  <2>1. sender' = Idle /\ UNCHANGED <<holder, writes>>
    BY <1>3 DEF MarkSent
  <2>2. UNCHANGED <<mix, diskVars, boots, flushVars, enabled>>
    BY <1>1, <2>1 DEF diskVars, flushVars
  <2>3. sender'.pc = "idle"
    BY <2>1, IdleType
  <2>4. /\ hours' \in 0..MaxHours /\ tests' \in 0..MaxTests
        /\ capture' \in [Reports -> Stages]
        /\ \A r \in Reports : capture[r] # "none" => capture'[r] # "none"
        /\ holder \in Reports => capture'[holder] = "enqueue"
        /\ received' \in SUBSET Reports /\ received \subseteq received'
    BY <1>1 DEF FlowInv, FlowTypes, LockInv
  <2> QED
    BY <2>2, <2>3, <2>4, FlowFrame
<1>4. CASE sender.id \in Ids(file["pending"])
  <2> DEFINE p == file["pending"]
             s == file["sent"]
             i == FirstOf(sender.id)
             rest == RemoveAt(p, i)
             more == Append(s, p[i])
             u == Write("pending", rest)
             v == Write("sent", more)
  <2>1. holder' = "mark" /\ UNCHANGED sender /\ writes' = <<u, v>>
    BY <1>4 DEF MarkSent
  <2>2. i \in DOMAIN p /\ p[i].id = sender.id
    BY <1>4, FirstIs
  <2> HIDE DEF i
  <2>3. /\ file \in Contents /\ SoundFiles(file, Known, received)
        /\ SoundThree(p, file["dead"], s, Known, received)
    BY FlowFacts
  <2>4. p \in Seq(Entries) /\ s \in Seq(Entries) /\ p[i] \in Entries /\ Len(p) \in Nat
    BY <2>2, <2>3 DEF SoundThree
  <2>5. /\ rest \in Seq(Entries) /\ Len(rest) = Len(p) - 1
        /\ Ids(p) = Ids(rest) \cup {sender.id}
        /\ Once(p) => Once(rest) /\ sender.id \notin Ids(rest)
        /\ \A j \in DOMAIN rest : \E k \in DOMAIN p : rest[j] = p[k]
    BY <2>2, <2>4, RemoveIds
  <2>6. /\ more \in Seq(Entries) /\ Ids(more) = Ids(s) \cup {sender.id}
        /\ Once(s) /\ sender.id \notin Ids(s) => Once(more)
    BY <2>2, <2>4, AppendIds
  <2> HIDE DEF rest, more
  <2>7. sender.id \in received
    BY <1>1 DEF FlowInv, LockInv
  <2>8. SoundThree(rest, file["dead"], s, Known, received)
    <3>1. Len(rest) <= MaxPending
      BY <2>3, <2>4, <2>5, BoundsAssumption DEF SoundThree
    <3>2. \A j \in DOMAIN rest : rest[j].attempts < RetryLimit
      BY <2>3, <2>5 DEF SoundThree
    <3> QED
      BY <2>3, <2>5, <3>1, <3>2 DEF SoundThree
  <2>9. SoundThree(rest, file["dead"], more, Known, received)
    BY <2>3, <2>5, <2>6, <2>7, <2>8 DEF SoundThree
  <2>10. u \in WriteType /\ v \in WriteType /\ u.file # v.file
    BY <2>5, <2>6, WriteIs DEF Files
  <2>11. /\ Done(file, u) \in Contents /\ SoundFiles(Done(file, u), Known, received)
         /\ Done(file, u)["pending"] = rest /\ Done(file, u)["dead"] = file["dead"]
         /\ Done(file, u)["sent"] = s
    BY <2>3, <2>5, <2>8, DoneParts, SoundParts DEF Contents, Files
  <2> HIDE DEF u
  <2>12. SoundFiles(Done(Done(file, u), v), Known, received)
    BY <2>6, <2>9, <2>11, DoneParts, SoundParts DEF Contents, Files
  <2> HIDE DEF v
  <2>13. /\ <<u, v>> \in Seq(WriteType) /\ Distinct(<<u, v>>)
         /\ \A k \in 0..Len(<<u, v>>) : SoundFiles(Applied(file, <<u, v>>, k), Known, received)
    BY <2>3, <2>10, <2>11, <2>12, TwoWrites
  <2>14. Known' = Known
    BY <1>1 DEF Known
  <2>15. DiskInv'
    BY <1>1, <2>1, <2>3, <2>13, <2>14 DEF DiskInv, After, Contents
  <2>16. LockInv'
    BY <1>1, <1>2, <2>1, <2>13, NobodyAssumption DEF FlowInv, LockInv, Distinct
  <2>17. FlowTypes'
    BY <1>1, <2>1, <2>13 DEF FlowInv, FlowTypes, WriteType
  <2> QED
    BY <1>1, <1>2, <2>15, <2>16, <2>17 DEF FlowInv, HandInv, Sorting
<1> QED
  BY <1>3, <1>4

\* What a stop or an error leaves of the files: those there, or the next one
\* torn.
LEMMA TornFiles ==
  ASSUME FlowInv,
         \/ UNCHANGED file
         \/ \E part \in Torn(Head(writes)) : /\ writes # <<>>
                                             /\ file' = [file EXCEPT ![Head(writes).file] = part]
  PROVE  file' \in Contents /\ SoundFiles(file', Known, received)
<1>1. /\ file \in Contents /\ SoundFiles(file, Known, received)
      /\ writes \in Seq(WriteType) /\ Distinct(writes)
  BY FlowFacts
<1>2. CASE UNCHANGED file
  BY <1>1, <1>2
<1>3. CASE \E part \in Torn(Head(writes)) : /\ writes # <<>>
                                            /\ file' = [file EXCEPT ![Head(writes).file] = part]
  <2> DEFINE h == Head(writes)
  <2>1. PICK part \in Torn(h) : file' = [file EXCEPT ![h.file] = part]
    BY <1>3
  <2>2. writes # <<>> /\ h \in WriteType /\ 0 \in 0..(Len(writes) - 1) /\ 0 + 1 \in 0..Len(writes)
    BY <1>1, <1>3
  <2>3. Done(file, h) \in Contents /\ SoundFiles(Done(file, h), Known, received)
    <3>1. Applied(Done(file, h), Tail(writes), 0) = Applied(file, writes, 0 + 1)
      BY <1>1, <2>2, AppliedNext
    <3>2. Done(file, h) \in Contents
      BY <1>1, <2>2, DoneType
    <3>3. SoundFiles(After(0 + 1), Known, received)
      BY <2>2 DEF FlowInv, DiskInv
    <3> QED
      BY <3>1, <3>2, <3>3, AppliedNone DEF After
  <2>4. h.file \in Files /\ h.content \in Seq(Entries)
    BY <2>2 DEF WriteType
  <2>5. PICK n \in 0..Len(h.content) : part = SubSeq(h.content, 1, n)
    BY <2>1 DEF Torn
  <2>6. /\ part \in Seq(Entries) /\ Len(part) <= Len(h.content) /\ Len(h.content) \in Nat
        /\ Len(part) \in Nat
        /\ Ids(part) \subseteq Ids(h.content)
        /\ Once(h.content) => Once(part)
        /\ \A i \in DOMAIN part : \E j \in DOMAIN h.content : part[i] = h.content[j]
    BY <2>4, <2>5, TornIds
  <2> DEFINE d == Done(file, h)
  <2>7. d[h.file] = h.content /\ \A g \in Files \ {h.file} : d[g] = file[g]
    BY <1>1, <2>4 DEF Done, Contents
  <2>8. /\ file' \in Contents /\ file'[h.file] = part
        /\ \A g \in Files \ {h.file} : file'[g] = d[g]
    BY <1>1, <2>1, <2>4, <2>6, <2>7 DEF Contents
  <2> HIDE DEF d, h
  <2>9. \A g \in Files : /\ Ids(file'[g]) \subseteq Ids(d[g])
                         /\ Once(d[g]) => Once(file'[g])
                         /\ Len(file'[g]) <= Len(d[g])
                         /\ \A i \in DOMAIN file'[g] : \E j \in DOMAIN d[g] : file'[g][i] = d[g][j]
    <3> TAKE g \in Files
    <3>1. CASE g = h.file
      BY <2>6, <2>7, <2>8, <3>1
    <3>2. CASE g # h.file
      <4>1. file'[g] = d[g] /\ d[g] \in Seq(Entries)
        BY <2>3, <2>8, <3>2 DEF Contents, d
      <4> QED
        BY <4>1
    <3> QED
      BY <3>1, <3>2
  <2>10. d \in Contents /\ SoundFiles(d, Known, received)
    BY <2>3 DEF d
  <2>11. /\ Len(file'["pending"]) <= MaxPending /\ Len(file'["dead"]) <= MaxDeadLetter
    <3>1. /\ Len(d["pending"]) \in Nat /\ Len(d["dead"]) \in Nat
          /\ Len(file'["pending"]) \in Nat /\ Len(file'["dead"]) \in Nat
      BY <2>8, <2>10 DEF Contents, Files
    <3>2. /\ Len(file'["pending"]) <= Len(d["pending"]) /\ Len(file'["dead"]) <= Len(d["dead"])
      BY <2>9 DEF Files
    <3>3. /\ Len(d["pending"]) <= MaxPending /\ Len(d["dead"]) <= MaxDeadLetter
      BY <2>10 DEF SoundFiles
    <3> QED
      BY <3>1, <3>2, <3>3, BoundsAssumption
  <2>12. \A i \in DOMAIN file'["pending"] : file'["pending"][i].attempts < RetryLimit
    BY <2>9, <2>10 DEF SoundFiles, Files
  <2> QED
    BY <2>8, <2>9, <2>10, <2>11, <2>12 DEF SoundFiles, Contents, Files
<1> QED
  BY <1>2, <1>3

LEMMA StopFiles ==
  ASSUME FlowInv, Stop
  PROVE  file' \in Contents /\ SoundFiles(file', Known, received)
BY TornFiles DEF Stop

LEMMA FailFiles ==
  ASSUME FlowInv, WriteFails
  PROVE  file' \in Contents /\ SoundFiles(file', Known, received)
<1> DEFINE h == Head(writes)
<1>1. writes # <<>> /\ \E part \in Torn(h) \cup {file[h.file]} : file' = [file EXCEPT ![h.file] = part]
  BY DEF WriteFails
<1>2. file \in Contents
  BY FlowFacts
<1>3. file' = [file EXCEPT ![h.file] = file[h.file]] => file' = file
  BY <1>2 DEF Contents
<1> QED
  BY <1>1, <1>3, TornFiles

\* Once the lock is released with nothing written any more, what is in the
\* files is all there is.
LEMMA FailFlow == ASSUME RateInv, FlowInv, WriteFails PROVE FlowInv'
<1>1. /\ writes # <<>> /\ writes' = <<>> /\ holder' = Nobody
      /\ UNCHANGED <<mix, dropped, boots, batch, keep, dead, sent, enabled, received>>
      /\ hours' = hours /\ tests' = tests
      /\ capture' = [r \in Reports |-> IF holder = r THEN "unfiled" ELSE capture[r]]
      /\ sender' = IF holder = "mark" THEN Idle ELSE sender
      /\ starting' = IF holder = "flush"
                     THEN IF starting = "clean" THEN "flush" ELSE "up"
                     ELSE starting
  BY DEF WriteFails, rateVars
<1>2. Known' = Known
  <2>1. \A r \in Reports : holder = r => capture[r] = "enqueue"
    BY DEF FlowInv, LockInv
  <2> QED
    BY <1>1, <2>1 DEF Known
<1>3. FlowTypes'
  <2>1. capture' \in [Reports -> Stages]
    BY <1>1 DEF FlowInv, FlowTypes, Stages
  <2>2. \A W : <<>> \in Seq(W)
    OBVIOUS
  <2> QED
    BY <1>1, <2>1, <2>2 DEF FlowInv, FlowTypes
<1>4. starting' # "sending"
  BY <1>1 DEF FlowInv, LockInv
<1>5. LockInv'
  <2>1. sender'.pc # "idle" => sender' = sender
    BY <1>1, IdleType
  <2> QED
    BY <1>1, <1>4, <2>1, NobodyAssumption DEF FlowInv, LockInv
<1>6. DiskInv'
  <2>1. file' \in Contents /\ SoundFiles(file', Known, received)
    BY FailFiles
  <2>2. After(0)' = file'
    BY <1>1, <2>1, AppliedNone DEF After
  <2>3. Len(writes') = 0
    BY <1>1
  <2> QED
    BY <1>1, <1>2, <2>1, <2>2, <2>3 DEF DiskInv, Contents
<1> QED
  BY <1>3, <1>4, <1>5, <1>6 DEF FlowInv, HandInv, Sorting

LEMMA StopFlow == ASSUME FlowInv, Stop PROVE FlowInv'
<1>1. /\ boots < MaxBoots /\ boots' = boots + 1 /\ holder' = Nobody /\ writes' = <<>>
      /\ starting' = "clean" /\ batch' = <<>> /\ keep' = <<>> /\ dead' = <<>> /\ sent' = <<>>
      /\ enabled' \in BOOLEAN /\ sender' = Idle
      /\ capture' = [r \in Reports |-> IF capture[r] = "none" THEN "none"
                                       ELSE IF capture[r] \in {"persisted", "done"}
                                       THEN "done" ELSE "lost"]
      /\ UNCHANGED <<mix, dropped, hours, tests, received>>
  BY DEF Stop
<1>2. Known' = Known
  BY <1>1 DEF Known
<1>3. file' \in Contents /\ SoundFiles(file', Known, received)
  BY StopFiles
<1>4. DiskInv'
  <2>1. After(0)' = file'
    BY <1>1, <1>3, AppliedNone DEF After
  <2>2. Len(writes') = 0
    BY <1>1
  <2> QED
    BY <1>1, <1>2, <1>3, <2>1, <2>2 DEF DiskInv, Contents
<1>5. LockInv'
  <2>1. sender'.pc = "idle"
    BY <1>1, IdleType
  <2> QED
    BY <1>1, <2>1, NobodyAssumption DEF LockInv
<1>6. FlowTypes'
  <2>1. boots' \in 1..MaxBoots
    BY <1>1, BoundsAssumption DEF FlowInv, FlowTypes
  <2>2. capture' \in [Reports -> Stages]
    BY <1>1 DEF Stages
  <2>3. \A W : <<>> \in Seq(W)
    OBVIOUS
  <2> QED
    BY <1>1, <2>1, <2>2, <2>3 DEF FlowInv, FlowTypes
<1> QED
  BY <1>1, <1>4, <1>5, <1>6 DEF FlowInv, HandInv, Sorting

LEMMA InitFlow == Init => FlowInv
<1> SUFFICES ASSUME Init PROVE FlowInv
  OBVIOUS
<1>1. /\ file = [f \in Files |-> <<>>] /\ dropped = {} /\ holder = Nobody /\ writes = <<>>
      /\ boots = 1 /\ starting = "clean" /\ batch = <<>> /\ keep = <<>> /\ dead = <<>>
      /\ sent = <<>> /\ sender = Idle /\ received = {} /\ hours = 0 /\ tests = 0
      /\ capture = [r \in Reports |-> "none"] /\ mix \in Mixes /\ enabled \in BOOLEAN
  BY DEF Init
<1>2. \A W : <<>> \in Seq(W)
  OBVIOUS
<1>3. FlowTypes
  BY <1>1, <1>2, BoundsAssumption DEF FlowTypes, Stages
<1>4. LockInv
  BY <1>1, IdleType, NobodyAssumption DEF LockInv
<1>5. DiskInv
  <2>1. file \in Contents /\ Len(writes) = 0
    BY <1>1, <1>2 DEF Contents
  <2>2. Ids(<<>>) = {} /\ Once(<<>>) /\ Len(<<>>) = 0 /\ \A i \in DOMAIN <<>> : FALSE
    BY DEF Ids, Once
  <2>3. SoundThree(file["pending"], file["dead"], file["sent"], Known, received)
    BY <1>1, <1>2, <2>2, BoundsAssumption DEF SoundThree, Files
  <2>4. SoundFiles(file, Known, received)
    BY <2>1, <2>3, SoundParts DEF Contents
  <2>5. After(0) = file
    BY <2>1, AppliedNone DEF After
  <2> QED
    BY <2>1, <2>4, <2>5 DEF DiskInv, Contents
<1> QED
  BY <1>1, <1>3, <1>4, <1>5 DEF FlowInv, HandInv, Sorting

LEMMA FlowNext == ASSUME RateInv, FlowInv, [Next]_vars PROVE FlowInv'
<1>1. CASE UNCHANGED vars
  <2>1. /\ UNCHANGED <<mix, diskVars, boots, flushVars, enabled, capture, sender, hours, tests,
                        received>>
    BY <1>1 DEF vars, rateVars, sendVars
  <2>2. FlowTypes'
    BY <2>1 DEF FlowInv, FlowTypes, diskVars, flushVars
  <2>3. LockInv'
    BY <2>1 DEF FlowInv, LockInv, diskVars, flushVars
  <2>4. DiskInv'
    BY <2>1 DEF FlowInv, DiskInv, After, Known, diskVars
  <2>5. HandInv'
    BY <2>1 DEF FlowInv, HandInv, Sorting, diskVars, flushVars
  <2> QED
    BY <2>2, <2>3, <2>4, <2>5 DEF FlowInv
<1> QED
  BY <1>1, WriteFlow, FailFlow, EnqueueFlow, PrepareFlow, CleanUpFlow, NothingFlow, BeginFlow, SentFlow,
     FailsFlow, FilesFlow, SenderFlow, MarkFlow, TestFlow, StopFlow DEF Next

LEMMA FileKept == Spec => []FileInv
<1>1. Init => FileInv
  BY InitRate, InitFlow DEF FileInv
<1>2. FileInv /\ [Next]_vars => FileInv'
  BY RateNext, FlowNext DEF FileInv
<1> QED
  BY <1>1, <1>2, PTL DEF Spec

-----------------------------------------------------------------------------
(* What was captured is kept                                               *)

LEMMA WrittenFree ==
  ASSUME FlowInv, writes = <<>> PROVE Written = file
<1>1. Len(writes) = 0 /\ file \in Contents
  BY FlowFacts
<1> QED
  BY <1>1, AppliedNone DEF Written, After

\* Steps that leave the files and what flush has in hand.
LEMMA KeptFrame ==
  ASSUME KeptInv, UNCHANGED <<mix, diskVars, batch, keep, dead>>, Sorting' = Sorting,
         received \subseteq received', Taken' \subseteq Taken, Captured' \subseteq Captured
  PROVE  KeptInv'
<1>1. /\ UNCHANGED <<mix, file, dropped, holder, writes, batch, keep, dead>>
      /\ Written' = Written /\ Filing' = Filing /\ Stored' = Stored /\ LetGo \subseteq LetGo'
  BY DEF diskVars, Written, After, Filing, Stored, LetGo
<1> QED
  BY <1>1 DEF KeptInv

LEMMA CollectorKept ==
  ASSUME KeptInv,
         \/ \E r \in Reports : Prepare(r)
         \/ SenderTakes \/ SendOk \/ SendFails \/ TestBegins \/ TestEnds \/ HourPasses
         \/ FlushNothing \/ UNCHANGED vars
  PROVE  KeptInv'
<1>1. UNCHANGED <<mix, diskVars, batch, keep, dead>> /\ received \subseteq received'
  BY DEF Prepare, SenderTakes, SendOk, SendFails, TestBegins, TestEnds, HourPasses,
     FlushNothing, flushVars, vars
<1>2. Sorting' = Sorting
  BY DEF Sorting, Prepare, SenderTakes, SendOk, SendFails, TestBegins, TestEnds, HourPasses,
     FlushNothing, flushVars, diskVars, vars
<1>3. Taken' \subseteq Taken /\ Captured' \subseteq Captured
  <2>1. CASE \E r \in Reports : Prepare(r)
    BY <2>1 DEF Prepare, Taken, Captured
  <2>2. CASE UNCHANGED capture
    BY <2>2 DEF Taken, Captured
  <2> QED
    BY <2>1, <2>2 DEF SenderTakes, SendOk, SendFails, TestBegins, TestEnds, HourPasses,
       FlushNothing, vars
<1> QED
  BY <1>1, <1>2, <1>3, KeptFrame

\* Where writes fail, nothing is promised.
LEMMA FailKept == ASSUME WriteFails PROVE KeptInv'
BY DEF WriteFails, KeptInv

LEMMA WriteKept == ASSUME FlowInv, FlowInv', KeptInv, WriteNext PROVE KeptInv'
<1> SUFFICES ASSUME mix = {}
             PROVE  /\ ~Sorting' => Taken' \subseteq Ids(Written'["pending"]) \cup Ids(Written'["dead"]) \cup LetGo'
                    /\ ~Filing' => Captured' \subseteq Stored' \cup LetGo'
                    /\ ~Sorting'
  BY DEF KeptInv, WriteNext
<1>1. /\ writes # <<>> /\ UNCHANGED <<dropped, received>> /\ ~Sorting
      /\ holder' = IF Len(writes) = 1 THEN Nobody ELSE holder
      /\ capture' = [r \in Reports |-> IF Len(writes) = 1 /\ holder = r
                                       THEN "persisted" ELSE capture[r]]
      /\ starting' = IF Len(writes) = 1 /\ holder = "flush"
                     THEN IF starting = "clean" THEN "flush" ELSE "up"
                     ELSE starting
  BY DEF WriteNext, Sorting
<1>2. Written' = Written
  BY WriteDone DEF Written, After
<1>3. Taken' = Taken
  <2>1. \A r \in Reports : holder = r => capture[r] = "enqueue"
    BY DEF FlowInv, LockInv
  <2> QED
    BY <1>1, <2>1 DEF Taken
<1>4. Taken' \subseteq Ids(Written'["pending"]) \cup Ids(Written'["dead"]) \cup LetGo'
  BY <1>1, <1>2, <1>3 DEF KeptInv, LetGo
<1>5. ASSUME ~Filing' PROVE Captured' \subseteq Stored' \cup LetGo'
  <2>1. writes' = <<>>
    <3>1. CASE Len(writes) = 1
      <4>1. Len(writes') = 0 /\ writes' \in Seq(WriteType)
        BY <3>1, WriteDone
      <4> QED
        BY <4>1
    <3>2. CASE Len(writes) # 1
      <4>1. holder \notin Reports
        BY <3>2 DEF FlowInv, LockInv
      <4>2. Len(writes') > 0
        BY <3>2, WriteDone
      <4>3. holder' = holder
        BY <1>1, <3>2
      <4> QED
        BY <1>5, <4>1, <4>2, <4>3 DEF Filing
    <3> QED
      BY <3>1, <3>2
  <2>2. Written' = file'
    <3>1. file' \in Contents /\ Len(writes') = 0
      BY <2>1, WriteDone
    <3> QED
      BY <2>1, <3>1, AppliedNone DEF Written, After
  <2>3. Captured' \subseteq Taken'
    BY DEF Captured, Taken
  <2> QED
    BY <1>4, <2>2, <2>3 DEF Stored
<1>6. ~Sorting'
  BY WriteSorting
<1> QED
  BY <1>4, <1>5, <1>6

\* A change of the files begins: what they hold in the end is what counts.
LEMMA BeginKept ==
  ASSUME FlowInv, mix = {}, mix' = mix, UNCHANGED file, writes' # <<>>,
         Taken' \subseteq Ids(Written'["pending"]) \cup Ids(Written'["dead"]) \cup LetGo',
         ~Filing' => Captured' \subseteq Stored' \cup LetGo'
  PROVE  KeptInv'
BY DEF KeptInv, Sorting

LEMMA EnqueueKept ==
  ASSUME FlowInv, KeptInv, NEW r \in Reports, Enqueue(r) PROVE KeptInv'
<1> SUFFICES ASSUME mix = {} PROVE KeptInv'
  BY DEF KeptInv, Enqueue
<1> DEFINE all == Append(file["pending"], Entry(r))
           new == Newest(MaxPending, all)
           w == Write("pending", new)
<1>1. /\ holder' = r /\ writes' = <<w>> /\ dropped' = dropped \cup (Ids(all) \ Ids(new))
      /\ capture[r] = "none" /\ capture' = [capture EXCEPT ![r] = "enqueue"]
      /\ UNCHANGED <<mix, file, received>>
  BY DEF Enqueue
<1>2. /\ Ids(all) = Ids(file["pending"]) \cup {r} /\ new \in Seq(Entries)
  BY EnqueueFacts DEF SoundThree
<1>3. writes = <<>> /\ ~Sorting /\ Written = file
  BY FreeFacts, WrittenFree DEF Enqueue
<1>4. file \in Contents /\ w \in WriteType
  BY <1>2, FlowFacts, WriteIs DEF Files
<1>5. Done(file, w)["pending"] = new /\ Done(file, w)["dead"] = file["dead"]
  BY <1>2, <1>4, DoneParts DEF Files
<1> HIDE DEF w, new, all
<1>6. Written' = Done(file, w) /\ writes' # <<>>
  BY <1>1, <1>4, OneWrite DEF Written, After
<1>7. Taken' = Taken \cup {r} /\ Captured' = Captured
  BY <1>1 DEF Taken, Captured, FlowInv, FlowTypes
<1>8. Taken' \subseteq Ids(Written'["pending"]) \cup Ids(Written'["dead"]) \cup LetGo'
  BY <1>1, <1>2, <1>3, <1>5, <1>6, <1>7 DEF KeptInv, LetGo
<1>9. Captured' \subseteq Stored' \cup LetGo'
  <2>1. ~Filing
    BY <1>3 DEF Filing
  <2> QED
    BY <1>1, <1>7, <2>1 DEF KeptInv, Stored, LetGo
<1> QED
  BY <1>1, <1>6, <1>8, <1>9, BeginKept

LEMMA CleanUpKept == ASSUME FlowInv, KeptInv, CleanUp PROVE KeptInv'
<1> SUFFICES ASSUME mix = {} PROVE KeptInv'
  BY DEF KeptInv, CleanUp
<1>1. PICK n \in 0..Len(file["sent"]) : writes' = <<Write("sent", Newest(n, file["sent"]))>>
  BY DEF CleanUp
<1> DEFINE new == Newest(n, file["sent"])
           w == Write("sent", new)
<1>2. holder' = "flush" /\ writes' = <<w>> /\ UNCHANGED <<mix, file, dropped, capture, received>>
  BY <1>1 DEF CleanUp
<1>3. writes = <<>> /\ ~Sorting /\ Written = file
  BY FreeFacts, WrittenFree DEF CleanUp
<1>4. file \in Contents /\ new \in Seq(Entries)
  BY FlowFacts, NewestIds DEF SoundThree
<1> HIDE DEF new
<1>5. w \in WriteType /\ Done(file, w)["pending"] = file["pending"] /\ Done(file, w)["dead"] = file["dead"]
  BY <1>4, WriteIs, DoneParts DEF Files
<1> HIDE DEF w
<1>6. Written' = Done(file, w) /\ writes' # <<>> /\ Len(writes') > 0
  BY <1>2, <1>4, <1>5, OneWrite, OneTuple DEF Written, After
<1>7. Taken' = Taken
  BY <1>2 DEF Taken
<1>8. Taken' \subseteq Ids(Written'["pending"]) \cup Ids(Written'["dead"]) \cup LetGo'
  BY <1>2, <1>3, <1>5, <1>6, <1>7 DEF KeptInv, LetGo
<1>9. Filing'
  BY <1>2, <1>6, NobodyAssumption DEF Filing
<1> QED
  BY <1>2, <1>6, <1>8, <1>9, BeginKept

LEMMA FlushBeginKept == ASSUME FlowInv, KeptInv, FlushBegin PROVE KeptInv'
<1>1. /\ Free /\ batch' = file["pending"] /\ keep' = <<>> /\ dead' = file["dead"]
      /\ starting' = "sending" /\ UNCHANGED <<mix, file, dropped, writes, capture, received>>
  BY DEF FlushBegin
<1>2. writes = <<>> /\ ~Sorting /\ Written = file /\ ~Filing
  BY <1>1, FreeFacts, WrittenFree DEF Filing
<1>3. Taken' = Taken /\ Captured' = Captured /\ Stored' = Stored /\ LetGo' = LetGo /\ Sorting'
  BY <1>1, <1>2 DEF Taken, Captured, Stored, LetGo, Sorting
<1> QED
  BY <1>1, <1>2, <1>3 DEF KeptInv

LEMMA SortKept == ASSUME FlowInv, KeptInv, FlushSent \/ FlushFails PROVE KeptInv'
<1> DEFINE h == Head(batch)
           e == [h EXCEPT !.attempts = @ + 1]
<1>1. /\ starting = "sending" /\ batch # <<>> /\ batch' = Tail(batch)
      /\ UNCHANGED <<mix, file, dropped, holder, writes, starting, capture>>
      /\ received \subseteq received'
      /\ \/ received' = received \cup {h.id} /\ UNCHANGED <<keep, dead>>
         \/ dead' = Append(dead, e) /\ keep' = keep
         \/ keep' = Append(keep, e) /\ dead' = dead
  BY DEF FlushSent, FlushFails, diskVars
<1>2. /\ Sorting /\ h \in Entries /\ h.id \in Reports /\ Ids(batch) = Ids(batch') \cup {h.id}
      /\ (\A i \in DOMAIN batch : batch[i].attempts < RetryLimit) => h.attempts < RetryLimit
  BY <1>1, BatchFacts
<1> HIDE DEF h
<1>3. e \in Entries /\ e.id = h.id
  <2>1. h.attempts < RetryLimit
    BY <1>2 DEF FlowInv, HandInv
  <2> QED
    BY <1>2, <2>1, BoundsAssumption DEF Entries
<1> HIDE DEF e
<1>4. keep \in Seq(Entries) /\ dead \in Seq(Entries)
  BY DEF FlowInv, FlowTypes
<1>5. /\ Ids(Append(dead, e)) = Ids(dead) \cup {h.id}
      /\ Ids(Append(keep, e)) = Ids(keep) \cup {h.id}
  BY <1>3, <1>4, AppendIds
<1>6. /\ Sorting' /\ Taken' = Taken /\ Captured' = Captured /\ Stored' = Stored
      /\ LetGo \subseteq LetGo' /\ received' \subseteq LetGo' /\ Filing' = Filing
  BY <1>1, <1>2 DEF Taken, Captured, Stored, LetGo, Sorting, Filing
<1>7. ASSUME mix = {}
      PROVE  Taken' \subseteq Ids(batch') \cup Ids(keep') \cup Ids(dead') \cup LetGo'
  <2>1. Taken \subseteq Ids(batch) \cup Ids(keep) \cup Ids(dead) \cup LetGo
    BY <1>2, <1>7 DEF KeptInv
  <2>2. {h.id} \cup Ids(keep) \cup Ids(dead) \subseteq Ids(keep') \cup Ids(dead') \cup LetGo'
    <3>1. CASE received' = received \cup {h.id} /\ UNCHANGED <<keep, dead>>
      BY <1>6, <3>1
    <3>2. CASE dead' = Append(dead, e) /\ keep' = keep
      BY <1>5, <3>2
    <3>3. CASE keep' = Append(keep, e) /\ dead' = dead
      BY <1>5, <3>3
    <3> QED
      BY <1>1, <3>1, <3>2, <3>3
  <2> QED
    BY <1>2, <1>6, <2>1, <2>2
<1> QED
  BY <1>1, <1>6, <1>7 DEF KeptInv

LEMMA FilesKept == ASSUME FlowInv, KeptInv, FlushFiles PROVE KeptInv'
<1> SUFFICES ASSUME mix = {} PROVE KeptInv'
  BY DEF KeptInv, FlushFiles
<1> DEFINE new == Newest(MaxDeadLetter, dead)
           u == Write("pending", keep)
           v == Write("dead", new)
           w == Write("sent", sent)
<1>1. /\ starting = "sending" /\ batch = <<>> /\ writes = <<>>
      /\ writes' = <<u, v, w>> /\ dropped' = dropped \cup (Ids(dead) \ Ids(new))
      /\ UNCHANGED <<mix, file, holder, capture, received>>
  BY DEF FlushFiles
<1>2. file \in Contents /\ keep \in Seq(Entries) /\ dead \in Seq(Entries) /\ sent \in Seq(Entries)
  BY FlowFacts DEF FlowInv, FlowTypes
<1>3. new \in Seq(Entries)
  BY <1>2, NewestIds, BoundsAssumption
<1> HIDE DEF new
<1>4. /\ u \in WriteType /\ v \in WriteType /\ w \in WriteType
      /\ u.file # v.file /\ u.file # w.file /\ v.file # w.file
  BY <1>2, <1>3, WriteIs DEF Files
<1>5. Done(file, u) \in Contents /\ Done(file, u)["pending"] = keep
  BY <1>2, DoneParts DEF Files
<1> HIDE DEF u
<1>6. /\ Done(Done(file, u), v) \in Contents /\ Done(Done(file, u), v)["pending"] = keep
      /\ Done(Done(file, u), v)["dead"] = new
  BY <1>3, <1>5, DoneParts DEF Files
<1> HIDE DEF v
<1>7. /\ Done(Done(Done(file, u), v), w)["pending"] = keep
      /\ Done(Done(Done(file, u), v), w)["dead"] = new
  <2>1. "pending" \in Files \ {"sent"} /\ "dead" \in Files \ {"sent"} /\ "sent" \in Files
    BY DEF Files
  <2> QED
    BY <1>2, <1>6, <2>1, DoneOther
<1> HIDE DEF w
<1>8. /\ Written' = Done(Done(Done(file, u), v), w)
      /\ writes' # <<>> /\ Len(writes') > 0
  <2>1. Applied(file, <<u, v, w>>, Len(<<u, v, w>>)) = Done(Done(Done(file, u), v), w)
    BY <1>2, <1>4, ThreeWrites
  <2>2. Written' = Applied(file, <<u, v, w>>, Len(<<u, v, w>>))
    BY <1>1 DEF Written, After
  <2> QED
    BY <1>1, <2>1, <2>2
<1>9. Taken' = Taken /\ Ids(batch) = {} /\ Sorting
  BY <1>1 DEF Taken, Ids, Sorting
<1>10. Taken' \subseteq Ids(Written'["pending"]) \cup Ids(Written'["dead"]) \cup LetGo'
  BY <1>1, <1>7, <1>8, <1>9 DEF KeptInv, LetGo
<1>11. Filing'
  BY <1>1, <1>8, NobodyAssumption DEF Filing, FlowInv, LockInv
<1> QED
  BY <1>1, <1>8, <1>10, <1>11, BeginKept

LEMMA MarkKept == ASSUME FlowInv, KeptInv, MarkSent PROVE KeptInv'
<1>1. /\ sender.pc = "mark" /\ Free
      /\ UNCHANGED <<mix, file, dropped, starting, batch, keep, dead, capture, received>>
  BY DEF MarkSent, flushVars
<1>2. Taken' = Taken /\ Captured' = Captured /\ LetGo' = LetGo
  BY <1>1 DEF Taken, Captured, LetGo
<1>3. CASE sender.id \notin Ids(file["pending"])
  <2>1. UNCHANGED <<holder, writes>>
    BY <1>3 DEF MarkSent
  <2> QED
    BY <1>1, <1>2, <2>1, KeptFrame DEF diskVars, Sorting
<1>4. CASE sender.id \in Ids(file["pending"])
  <2> SUFFICES ASSUME mix = {} PROVE KeptInv'
    BY <1>1 DEF KeptInv
  <2> DEFINE p == file["pending"]
             s == file["sent"]
             i == FirstOf(sender.id)
             rest == RemoveAt(p, i)
             more == Append(s, p[i])
             u == Write("pending", rest)
             v == Write("sent", more)
  <2>1. holder' = "mark" /\ writes' = <<u, v>>
    BY <1>4 DEF MarkSent
  <2>2. i \in DOMAIN p /\ p[i].id = sender.id
    BY <1>4, FirstIs
  <2> HIDE DEF i
  <2>3. /\ file \in Contents /\ p \in Seq(Entries) /\ s \in Seq(Entries)
    BY FlowFacts DEF SoundThree
  <2>4. rest \in Seq(Entries) /\ Ids(p) = Ids(rest) \cup {sender.id} /\ more \in Seq(Entries)
    BY <2>2, <2>3, RemoveIds, AppendIds
  <2> HIDE DEF rest, more
  <2>5. u \in WriteType /\ v \in WriteType /\ u.file # v.file
    BY <2>4, WriteIs DEF Files
  <2>6. /\ Done(file, u) \in Contents /\ Done(file, u)["pending"] = rest
        /\ Done(file, u)["dead"] = file["dead"]
    BY <2>3, <2>4, DoneParts DEF Files
  <2> HIDE DEF u
  <2>7. /\ Done(Done(file, u), v)["pending"] = rest
        /\ Done(Done(file, u), v)["dead"] = file["dead"]
    <3>1. "pending" \in Files \ {"sent"} /\ "dead" \in Files \ {"sent"} /\ "sent" \in Files
      BY DEF Files
    <3> QED
      BY <2>4, <2>6, <3>1, DoneOther
  <2> HIDE DEF v
  <2>8. Written' = Done(Done(file, u), v) /\ writes' # <<>> /\ Len(writes') > 0
    BY <1>1, <2>1, <2>3, <2>5, TwoWrites, TwoTuple DEF Written, After
  <2>9. ~Sorting /\ Written = file /\ sender.id \in LetGo
    BY <1>1, FreeFacts, WrittenFree DEF FlowInv, LockInv, LetGo
  <2>10. Taken' \subseteq Ids(Written'["pending"]) \cup Ids(Written'["dead"]) \cup LetGo'
    BY <1>2, <2>4, <2>7, <2>8, <2>9 DEF KeptInv
  <2>11. Filing'
    BY <2>1, <2>8, NobodyAssumption DEF Filing
  <2> QED
    BY <1>1, <2>8, <2>10, <2>11, BeginKept
<1> QED
  BY <1>3, <1>4

\* Where the application stops between changes of its files only, what it
\* finds when it starts again is all that was captured.
LEMMA StopKept == ASSUME FlowInv, FlowInv', KeptInv, Stop PROVE KeptInv'
<1> SUFFICES ASSUME mix = {} PROVE KeptInv'
  BY DEF KeptInv, Stop
<1>1. /\ ~Filing /\ writes' = <<>> /\ starting' = "clean" /\ UNCHANGED <<mix, file, dropped, received>>
      /\ capture' = [r \in Reports |-> IF capture[r] = "none" THEN "none"
                                       ELSE IF capture[r] \in {"persisted", "done"}
                                       THEN "done" ELSE "lost"]
  BY DEF Stop
<1>2. Taken' \subseteq Captured /\ Captured' \subseteq Captured
  BY <1>1 DEF Taken, Captured, FlowInv, FlowTypes
<1>3. Written' = file' /\ ~Sorting'
  <2>1. Len(writes') = 0 /\ file' \in Contents
    BY <1>1, StopFiles
  <2> QED
    BY <1>1, <2>1, AppliedNone DEF Written, After, Sorting
<1>4. Captured \subseteq Stored' \cup LetGo'
  BY <1>1 DEF KeptInv, Stored, LetGo
<1> QED
  BY <1>2, <1>3, <1>4 DEF KeptInv, Stored

LEMMA InitKept == Init => KeptInv
<1> SUFFICES ASSUME Init PROVE KeptInv
  OBVIOUS
<1>1. Taken = {} /\ Captured = {}
  BY DEF Init, Taken, Captured
<1> QED
  BY <1>1 DEF KeptInv

\* Every variable keeps its type, the pending reports and the dead letters
\* their limits, and the lock is held as long as files are to be written
\* (enqueue, mark_sent, flush).
THEOREM TypesAreKept == Spec => []TypeOK
<1>1. FileInv => TypeOK
  <2> SUFFICES ASSUME FileInv PROVE TypeOK
    OBVIOUS
  <2>1. /\ file \in [Files -> Seq(Entries)] /\ Len(file["pending"]) <= MaxPending
        /\ Len(file["dead"]) <= MaxDeadLetter
    BY FlowFacts DEF FileInv, SoundThree, Contents
  <2> QED
    BY <2>1 DEF FileInv, FlowInv, RateInv, RateTypes, FlowTypes, LockInv, TypeOK
<1> QED
  BY <1>1, FileKept, PTL

\* No report is ever filed twice, and what is filed as sent the server has
\* got, however the flush, the sender and captures interleave, wherever the
\* application stops and whichever write fails (enqueue, mark_sent, flush).
THEOREM FiledInOnePlace == Spec => []FiledOnce
<1>1. FileInv => FiledOnce
  BY FlowFacts DEF FileInv, SoundFiles, FiledOnce
<1> QED
  BY <1>1, FileKept, PTL

\* No report is forgotten: as long as no stop and no failing write cuts a change
\* of the files short, what was captured is pending, a dead letter, about to be
\* one, or with the server, unless a full file dropped it (enqueue, mark_sent,
\* flush).
THEOREM NoneForgotten == Spec => []NothingForgotten
<1>1. FileInv /\ KeptInv => NothingForgotten
  <2> SUFFICES ASSUME FileInv, KeptInv, mix = {}, NEW r \in Reports,
                      capture[r] \in {"persisted", "done"}
               PROVE  r \in Stored \cup InHand \cup received \cup dropped
    BY DEF NothingForgotten
  <2>1. r \in Captured /\ r \in Taken
    BY DEF Captured, Taken
  <2>2. CASE ~Filing
    BY <2>1, <2>2 DEF KeptInv, LetGo
  <2>3. CASE Filing
    <3>1. writes \in Seq(WriteType) /\ file \in Contents
      BY FlowFacts DEF FileInv
    <3>2. ~Sorting
      BY <2>3, <3>1 DEF Filing, Sorting
    <3>3. ASSUME NEW f \in {"pending", "dead"}
          PROVE  Ids(Written[f]) \subseteq Stored \cup InHand
      <4>1. f \in Files /\ Ids(file[f]) \subseteq Stored
        BY DEF Files, Stored
      <4>2. \/ Written[f] = file[f]
            \/ \E i \in DOMAIN writes : Written[f] = writes[i].content
        <5>1. Written[f] = IF \E i \in 1..Len(writes) : writes[i].file = f
                           THEN writes[CHOOSE i \in 1..Len(writes) : writes[i].file = f].content
                           ELSE file[f]
          BY <4>1 DEF Written, After, Applied
        <5>2. DOMAIN writes = 1..Len(writes)
          BY <3>1
        <5>3. (\E i \in 1..Len(writes) : writes[i].file = f)
              => (CHOOSE i \in 1..Len(writes) : writes[i].file = f) \in 1..Len(writes)
          OBVIOUS
        <5> QED
          BY <5>1, <5>2, <5>3
      <4>3. \A i \in DOMAIN writes : Ids(writes[i].content) \subseteq InHand
        BY DEF InHand
      <4> QED
        BY <4>1, <4>2, <4>3
    <3> QED
      BY <2>1, <3>2, <3>3 DEF KeptInv, LetGo
  <2> QED
    BY <2>2, <2>3
<1>2. Init => KeptInv
  BY InitKept
<1>3. FileInv /\ FileInv' /\ KeptInv /\ [Next]_vars => KeptInv'
  BY CollectorKept, WriteKept, FailKept, EnqueueKept, CleanUpKept, FlushBeginKept, SortKept, FilesKept,
     MarkKept, StopKept DEF Next, FileInv
<1> QED
  BY <1>1, <1>2, <1>3, FileKept, PTL DEF Spec
=============================================================================
