------------------------------ MODULE ReadCache ------------------------------
(***************************************************************************)
(* The read cache between the pages and the commands of the application    *)
(* (src/lib/api-read-cache.ts, with withInvalidation of use-api.ts): reads *)
(* share a request in flight, values live for a time, a change invalidates *)
(* them, an optimistic value is pinned, and old keys are evicted.          *)
(*                                                                         *)
(* JavaScript runs one callback at a time, so that each callback is one    *)
(* action.  What a key stands for on the host is a version number.         *)
(***************************************************************************)
EXTENDS Naturals, FiniteSets, Sequences, SequencesExt

CONSTANTS
  Keys,          \* cache keys: method and arguments
  Requests,      \* requests that may be on their way at once
  MaxEntries,    \* API_READ_CACHE_MAX_ENTRIES
  Mixes,         \* what may happen besides, in one behaviour or another
  MaxVersion,    \* bound: changes of what a key stands for
  MaxPins,       \* bound: optimistic values set
  MaxFailures,   \* bound: requests that fail
  Nothing        \* undefined: no value, no request

ASSUME KeysAssumption == IsFiniteSet(Keys)
ASSUME NothingAssumption == Nothing \notin Nat \cup Requests
ASSUME MixesAssumption == Mixes \subseteq SUBSET {"invalidate", "pin", "crowd"}
ASSUME BoundsAssumption ==
  /\ MaxEntries \in Nat \ {0}
  /\ MaxVersion \in Nat /\ MaxPins \in Nat /\ MaxFailures \in Nat

VARIABLES
  mix,       \* what happens in this behaviour, chosen at its start
  used,      \* the keys its pages read: more than fit only in a crowd
  server,    \* the version of what each key stands for
  changed,   \* keys whose change has not yet been answered to the page
  cache,     \* API_READ_CACHE, Absent for a key that is not in the map
  order,     \* the keys of the map in the order of their insertion
  request,   \* the requests and, once they are settled, their results
  shown,     \* what the page got last for each key
  pins, failures

choice == <<mix, used>>
vars == <<choice, server, changed, cache, order, request, shown, pins, failures>>

Absent == [value |-> Nothing, valid |-> FALSE, pinned |-> FALSE,
           req |-> Nothing]

Init ==
  /\ mix \in Mixes
  /\ used \in SUBSET Keys
  /\ "crowd" \notin mix => Cardinality(used) <= MaxEntries
  /\ server = [k \in Keys |-> 0] /\ changed = {}
  /\ cache = [k \in Keys |-> Absent] /\ order = <<>>
  /\ request = [r \in Requests |-> [pc |-> "free", key |-> Nothing,
                                    value |-> Nothing]]
  /\ shown = [k \in Keys |-> Nothing]
  /\ pins = 0 /\ failures = 0

-----------------------------------------------------------------------------
\* Map.set keeps the place of a key that is there, and Map.delete loses it.
Placed(k) == IF k \in ToSet(order) THEN order ELSE Append(order, k)

\* trimReadCacheIfNeeded: the keys inserted first go.
Kept(o) ==
  IF Len(o) <= MaxEntries THEN o
  ELSE SubSeq(o, Len(o) - MaxEntries + 1, Len(o))

SetAndTrim(k, entry) ==
  LET o == Kept(Placed(k))
  IN  /\ order' = o
      /\ cache' = [x \in Keys |-> IF x \notin ToSet(o) THEN Absent
                                  ELSE IF x = k THEN entry ELSE cache[x]]

PlaceOf(k) == CHOOSE i \in DOMAIN order : order[i] = k

Delete(k) ==
  /\ order' = IF k \in ToSet(order) THEN RemoveAt(order, PlaceOf(k)) ELSE order
  /\ cache' = [cache EXCEPT ![k] = Absent]

Show(k, v) == shown' = [shown EXCEPT ![k] = v]

-----------------------------------------------------------------------------
(* callWithReadCache.                                                      *)

\* The value is pinned or has not expired.
ReadHit(k) ==
  /\ cache[k].valid
  /\ Show(k, cache[k].value)
  /\ UNCHANGED <<choice, server, changed, cache, order, request, pins, failures>>

\* The entry's promise is shared.  The reader waits for one that is under way
\* (Answer); one that is settled would give its result at once.
ReadJoin(k) ==
  /\ ~cache[k].valid
  /\ cache[k].req # Nothing
  /\ LET r == cache[k].req
     IN  IF request[r].pc = "settled" THEN Show(k, request[r].value)
                                      ELSE UNCHANGED shown
  /\ UNCHANGED <<choice, server, changed, cache, order, request, pins, failures>>

\* A promise that nobody holds is free for another request.
Unheld(r) ==
  /\ request[r].pc \in {"free", "settled"}
  /\ \A k \in Keys : cache[k].req # r

\* The loader is called, and its promise is kept beside the old value.
ReadMiss(k, r) ==
  /\ ~cache[k].valid
  /\ cache[k].req = Nothing
  /\ Unheld(r)
  /\ request' = [request EXCEPT ![r] = [pc |-> "sent", key |-> k,
                                        value |-> Nothing]]
  /\ SetAndTrim(k, [cache[k] EXCEPT !.req = r])
  /\ UNCHANGED <<choice, server, changed, shown, pins, failures>>

\* The host reads: the answer is on its way, whatever happens meanwhile.
Serve(r) ==
  /\ request[r].pc = "sent"
  /\ request' = [request EXCEPT ![r].pc = "served",
                                ![r].value = server[request[r].key]]
  /\ UNCHANGED <<choice, server, changed, cache, order, shown, pins, failures>>

\* Mutant: a pinned entry keeps the promise.
FiledKeeping(entry, v) ==
  IF entry.pinned THEN entry
  ELSE [value |-> v, valid |-> TRUE, pinned |-> FALSE, req |-> Nothing]

\* Mutant: the answer replaces an optimistic value.
FiledOver(entry, v) ==
  [value |-> v, valid |-> TRUE, pinned |-> FALSE, req |-> Nothing]

\* The entry an answer leaves: a pinned value stands.
Filed(entry, v) ==
  IF entry.pinned THEN [entry EXCEPT !.req = Nothing]
  ELSE [value |-> v, valid |-> TRUE, pinned |-> FALSE, req |-> Nothing]

\* The loader's promise is fulfilled, for the readers that wait as well.
Answer(r) ==
  /\ request[r].pc = "served"
  /\ LET k == request[r].key
         entry == Filed(cache[k], request[r].value)
     IN  /\ IF cache[k].pinned
            THEN cache' = [cache EXCEPT ![k] = entry] /\ UNCHANGED order
            ELSE SetAndTrim(k, entry)
         /\ Show(k, entry.value)
         /\ request' = [request EXCEPT ![r].pc = "settled",
                                       ![r].value = entry.value]
  /\ UNCHANGED <<choice, server, changed, pins, failures>>

\* It is rejected: an entry that waits for this request is deleted.
AnswerFails(r) ==
  /\ request[r].pc = "sent"
  /\ failures < MaxFailures
  /\ failures' = failures + 1
  /\ request' = [request EXCEPT ![r] = [pc |-> "free", key |-> Nothing,
                                        value |-> Nothing]]
  /\ IF cache[request[r].key].req = r THEN Delete(request[r].key)
                                      ELSE UNCHANGED <<cache, order>>
  /\ UNCHANGED <<choice, server, changed, shown, pins>>

\* Mutant: a pin has no end.
ExpirePlain(k) ==
  /\ cache[k].valid /\ ~cache[k].pinned
  /\ cache' = [cache EXCEPT ![k].valid = FALSE]
  /\ UNCHANGED <<choice, server, changed, order, request, shown, pins, failures>>

\* Time passes; a pin and the validity it gave end together.
Expire(k) ==
  /\ cache[k].valid
  /\ cache' = [cache EXCEPT ![k].valid = FALSE, ![k].pinned = FALSE]
  /\ UNCHANGED <<choice, server, changed, order, request, shown, pins, failures>>

-----------------------------------------------------------------------------
(* Changes, and what the page does about them.                             *)

\* A command changes what a key stands for, or something else does.
Change(k) ==
  /\ server[k] < MaxVersion
  /\ server' = [server EXCEPT ![k] = @ + 1]
  /\ changed' = IF "invalidate" \in mix THEN changed \cup {k} ELSE changed
  /\ UNCHANGED <<choice, cache, order, request, shown, pins, failures>>

\* withInvalidation: the command's answer deletes the entry.
Invalidate(k) ==
  /\ k \in changed
  /\ changed' = changed \ {k}
  /\ Delete(k)
  /\ UNCHANGED <<choice, server, request, shown, pins, failures>>

\* Mutant: the promise is dropped with the old value.
SetOptimisticAlone(k, v) ==
  /\ "pin" \in mix
  /\ pins < MaxPins
  /\ pins' = pins + 1
  /\ order' = Placed(k)
  /\ cache' = [cache EXCEPT ![k] = [value |-> v, valid |-> TRUE,
                                    pinned |-> TRUE, req |-> Nothing]]
  /\ Show(k, v)
  /\ UNCHANGED <<choice, server, changed, request, failures>>

\* setOptimisticReadCache: the value the page expects of its change, right
\* or wrong; a request in flight stays.  The map is not trimmed.
SetOptimistic(k, v) ==
  /\ "pin" \in mix
  /\ pins < MaxPins
  /\ pins' = pins + 1
  /\ order' = Placed(k)
  /\ cache' = [cache EXCEPT ![k] = [value |-> v, valid |-> TRUE,
                                    pinned |-> TRUE, req |-> @.req]]
  /\ Show(k, v)
  /\ UNCHANGED <<choice, server, changed, request, failures>>

Read(k) ==
  /\ k \in used
  /\ ReadHit(k) \/ ReadJoin(k) \/ \E r \in Requests : ReadMiss(k, r)

Next ==
  \/ \E k \in Keys : Read(k) \/ Expire(k) \/ Invalidate(k)
  \/ \E k \in used : Change(k)
  \/ \E k \in used, v \in 0..MaxVersion : SetOptimistic(k, v)
  \/ \E r \in Requests : Serve(r) \/ Answer(r) \/ AnswerFails(r)

Spec == Init /\ [][Next]_vars

\* The pages poll, clocks run and commands return.  Reading is strongly fair
\* because only the bound on Requests ever makes it wait.
FairSpec ==
  /\ Spec
  /\ \A k \in Keys : SF_vars(Read(k)) /\ WF_vars(Expire(k))
  /\ \A r \in Requests : WF_vars(Serve(r)) /\ WF_vars(Answer(r))

-----------------------------------------------------------------------------
Values == (0..MaxVersion) \cup {Nothing}

\* The type invariant: the map's keys are listed once each, a pinned value
\* is valid, and the promise of an entry is a running request for its key.
TypeOK ==
  /\ mix \in Mixes /\ used \in SUBSET Keys
  /\ server \in [Keys -> 0..MaxVersion]
  /\ changed \in SUBSET Keys
  /\ cache \in [Keys -> [value : Values, valid : BOOLEAN, pinned : BOOLEAN,
                         req : Requests \cup {Nothing}]]
  /\ order \in Seq(Keys)
  /\ request \in [Requests -> [pc : {"free", "sent", "served", "settled"},
                               key : Keys \cup {Nothing}, value : Values]]
  /\ shown \in [Keys -> Values]
  /\ pins \in 0..MaxPins /\ failures \in 0..MaxFailures
  /\ \A k \in Keys :
       /\ k \notin ToSet(order) => cache[k] = Absent
       /\ cache[k].pinned => cache[k].valid
       /\ cache[k].req # Nothing =>
            /\ request[cache[k].req].key = k
            /\ request[cache[k].req].pc \in {"sent", "served"}

Running(k) == {r \in Requests : request[r].key = k
                                 /\ request[r].pc \in {"sent", "served"}}

\* However many pages read a key, the host is asked once at a time: pins that
\* come and expire during a request and requests that fail included.  Entries
\* that are invalidated or evicted give their request up (callWithReadCache,
\* setOptimisticReadCache).
OneRequest ==
  mix \subseteq {"pin"} =>
    \A k \in Keys : \A r, s \in Running(k) : r = s

\* A pinned value is not made to flicker: while the pin lasts, no answer that
\* was under way when it was set reaches the page (callWithReadCache).
PinnedShown ==
  [][\A k \in Keys :
       /\ cache[k].pinned /\ shown'[k] # shown[k]
       /\ pins' = pins
       => shown'[k] = cache[k].value]_vars

\* A page that keeps reading gets to see what the host has: after the last
\* change, old answers that come late, wrong guesses and evicted entries are
\* overcome once their time is up (callWithReadCache).
SettlesFresh ==
  \A k \in Keys : <>[](k \in used => shown[k] = server[k])
=============================================================================
