-------------------------- MODULE ReadCacheProofs --------------------------
(***************************************************************************)
(* Proofs about ReadCache, for any number of keys, requests, changes, pins *)
(* and failures: the types; that a key that is not invalidated or evicted  *)
(* is asked for once at a time; and that a pinned value stands.            *)
(***************************************************************************)
EXTENDS ReadCache, FiniteSetTheorems, TLAPS

USE DEF choice

\* A map lists each key once.
Once(o) == \A i, j \in DOMAIN o : o[i] = o[j] => i = j

\* The promise of the request is not settled.
Asks(r) == request[r].pc \in {"sent", "served"}

IInv == /\ TypeOK
        /\ Once(order)
        /\ \A r \in Requests : Asks(r) => request[r].key \in Keys

Entries == [value : Values, valid : BOOLEAN, pinned : BOOLEAN,
            req : Requests \cup {Nothing}]
Calls == [pc : {"free", "sent", "served", "settled"},
          key : Keys \cup {Nothing}, value : Values]

-----------------------------------------------------------------------------
(* The order of the keys *)

LEMMA PlacedOnce ==
  ASSUME order \in Seq(Keys), Once(order), NEW k \in Keys
  PROVE  /\ Placed(k) \in Seq(Keys) /\ Once(Placed(k))
         /\ ToSet(Placed(k)) = ToSet(order) \cup {k}
<1>1. CASE k \in ToSet(order)
  BY <1>1 DEF Placed
<1>2. CASE k \notin ToSet(order)
  <2> DEFINE o == Append(order, k)
             n == Len(order) + 1
  <2>1. /\ Placed(k) = o /\ o \in Seq(Keys) /\ DOMAIN o = 1..n /\ o[n] = k
        /\ DOMAIN order = 1..Len(order) /\ Len(order) \in Nat
        /\ \A i \in DOMAIN order : i \in DOMAIN o /\ i # n /\ o[i] = order[i]
    BY <1>2 DEF Placed
  <2>2. \A i \in DOMAIN o : i = n \/ i \in DOMAIN order
    BY <2>1
  <2> HIDE DEF o, n
  <2>3. Once(o)
    BY <1>2, <2>1, <2>2 DEF Once, ToSet
  <2>4. ToSet(o) = ToSet(order) \cup {k}
    <3>1. ToSet(o) \subseteq ToSet(order) \cup {k}
      BY <2>1, <2>2 DEF ToSet
    <3>2. n \in DOMAIN o
      BY <2>1 DEF n
    <3>3. ToSet(order) \cup {k} \subseteq ToSet(o)
      BY <2>1, <3>2 DEF ToSet
    <3> QED
      BY <3>1, <3>3
  <2> QED
    BY <2>1, <2>3, <2>4
<1> QED
  BY <1>1, <1>2

\* Trimming leaves the end of the list.
LEMMA KeptOnce ==
  ASSUME NEW o \in Seq(Keys), Once(o)
  PROVE  /\ Kept(o) \in Seq(Keys) /\ Once(Kept(o)) /\ ToSet(Kept(o)) \subseteq ToSet(o)
         /\ Len(o) <= MaxEntries => Kept(o) = o
<1>1. CASE Len(o) <= MaxEntries
  BY <1>1 DEF Kept
<1>2. CASE ~(Len(o) <= MaxEntries)
  <2> DEFINE n == Len(o)
             c == SubSeq(o, n - MaxEntries + 1, n)
  <2>1. /\ n \in Nat /\ MaxEntries \in Nat /\ n > MaxEntries /\ DOMAIN o = 1..n
    BY <1>2, BoundsAssumption
  <2>2. /\ Kept(o) = c /\ c \in Seq(Keys) /\ DOMAIN c = 1..MaxEntries
        /\ \A i \in 1..MaxEntries : i + (n - MaxEntries) \in 1..n
                                    /\ c[i] = o[i + (n - MaxEntries)]
    BY <1>2, <2>1 DEF Kept
  <2> HIDE DEF c, n
  <2>3. Once(c)
    BY <2>1, <2>2 DEF Once
  <2>4. ToSet(c) \subseteq ToSet(o)
    BY <2>1, <2>2 DEF ToSet
  <2> QED
    BY <1>2, <2>2, <2>3, <2>4
<1> QED
  BY <1>1, <1>2

\* Taking out one place of a list.
LEMMA RemovedOnce ==
  ASSUME NEW s \in Seq(Keys), NEW i \in DOMAIN s, Once(s)
  PROVE  /\ RemoveAt(s, i) \in Seq(Keys) /\ Once(RemoveAt(s, i))
         /\ ToSet(RemoveAt(s, i)) = ToSet(s) \ {s[i]}
<1> DEFINE t == RemoveAt(s, i)
           at(j) == IF j < i THEN j ELSE j + 1
<1>1. Len(s) \in Nat /\ i \in 1..Len(s) /\ DOMAIN s = 1..Len(s)
  OBVIOUS
<1>2. /\ t \in Seq(Keys) /\ Len(t) = Len(s) - 1 /\ DOMAIN t = 1..(Len(s) - 1)
  BY <1>1 DEF RemoveAt
<1>3. ASSUME NEW j \in DOMAIN t PROVE t[j] = s[at(j)]
  <2> DEFINE a == SubSeq(s, 1, i - 1)
             b == SubSeq(s, i + 1, Len(s))
  <2>1. /\ a \in Seq(Keys) /\ Len(a) = i - 1 /\ b \in Seq(Keys) /\ Len(b) = Len(s) - i
        /\ \A k \in 1..(i - 1) : a[k] = s[k]
        /\ \A k \in 1..(Len(s) - i) : b[k] = s[k + i]
    BY <1>1
  <2> HIDE DEF a, b
  <2>2. t = a \o b
    BY DEF RemoveAt, a, b
  <2>3. j \in 1..(Len(s) - 1)
    BY <1>2
  <2>4. t[j] = IF j <= Len(a) THEN a[j] ELSE b[j - Len(a)]
    BY <1>1, <2>1, <2>2, <2>3
  <2>5. CASE j < i
    BY <1>1, <2>1, <2>3, <2>4, <2>5
  <2>6. CASE ~(j < i)
    <3>1. j - (i - 1) \in 1..(Len(s) - i) /\ j - (i - 1) + i = j + 1 /\ ~(j <= Len(a))
      BY <1>1, <2>1, <2>3, <2>6
    <3> QED
      BY <2>1, <2>4, <2>6, <3>1
  <2> QED
    BY <2>5, <2>6
<1> HIDE DEF t
<1>4. /\ \A j \in DOMAIN t : at(j) \in DOMAIN s /\ at(j) # i
      /\ \A j, k \in DOMAIN t : at(j) = at(k) => j = k
  BY <1>1, <1>2
<1>5. \A k \in DOMAIN s : k = i \/ \E j \in DOMAIN t : k = at(j)
  <2> TAKE k \in DOMAIN s
  <2>1. CASE k < i
    <3>1. k \in DOMAIN t /\ k = at(k)
      BY <1>1, <1>2, <2>1
    <3> QED
      BY <3>1
  <2>2. CASE k > i
    <3>1. k - 1 \in DOMAIN t /\ k = at(k - 1)
      BY <1>1, <1>2, <2>2
    <3> QED
      BY <3>1
  <2> QED
    BY <1>1, <2>1, <2>2
<1> HIDE DEF at
<1>6. Once(t)
  BY <1>3, <1>4 DEF Once
<1>7. ToSet(t) \subseteq ToSet(s) \ {s[i]}
  BY <1>3, <1>4 DEF Once, ToSet
<1>8. ToSet(s) \ {s[i]} \subseteq ToSet(t)
  BY <1>3, <1>5 DEF ToSet
<1> QED
  BY <1>2, <1>6, <1>7, <1>8 DEF t

\* Map.delete takes the key out, and only it.
LEMMA DeleteOrder ==
  ASSUME order \in Seq(Keys), Once(order), NEW k \in Keys, Delete(k)
  PROVE  /\ order' \in Seq(Keys) /\ Once(order') /\ ToSet(order') = ToSet(order) \ {k}
<1>1. CASE k \in ToSet(order)
  <2> DEFINE i == PlaceOf(k)
  <2>1. i \in DOMAIN order /\ order[i] = k
    BY <1>1 DEF PlaceOf, ToSet
  <2>2. order' = RemoveAt(order, i)
    BY <1>1 DEF Delete
  <2> HIDE DEF i
  <2> QED
    BY <2>1, <2>2, RemovedOnce
<1>2. CASE k \notin ToSet(order)
  BY <1>2 DEF Delete
<1> QED
  BY <1>1, <1>2

\* Map.set and the trimming after it: what the map has then.
LEMMA TrimOrder ==
  ASSUME order \in Seq(Keys), Once(order), NEW k \in Keys, NEW entry,
         SetAndTrim(k, entry)
  PROVE  /\ order' \in Seq(Keys) /\ Once(order') /\ ToSet(order') \subseteq ToSet(order) \cup {k}
         /\ Len(Placed(k)) <= MaxEntries => ToSet(order') = ToSet(order) \cup {k}
         /\ \A x \in Keys : cache'[x] = IF x \notin ToSet(order') THEN Absent
                                        ELSE IF x = k THEN entry ELSE cache[x]
<1>1. order' = Kept(Placed(k))
  BY DEF SetAndTrim
<1>2. /\ Placed(k) \in Seq(Keys) /\ Once(Placed(k))
      /\ ToSet(Placed(k)) = ToSet(order) \cup {k}
  BY PlacedOnce
<1>3. /\ order' \in Seq(Keys) /\ Once(order') /\ ToSet(order') \subseteq ToSet(Placed(k))
      /\ Len(Placed(k)) <= MaxEntries => order' = Placed(k)
  BY <1>1, <1>2, KeptOnce
<1>4. \A x \in Keys : cache'[x] = IF x \notin ToSet(order') THEN Absent
                                  ELSE IF x = k THEN entry ELSE cache[x]
  BY <1>1 DEF SetAndTrim
<1> QED
  BY <1>2, <1>3, <1>4

-----------------------------------------------------------------------------
(* The types *)

Types ==
  /\ mix \in Mixes /\ used \in SUBSET Keys
  /\ server \in [Keys -> 0..MaxVersion]
  /\ changed \in SUBSET Keys
  /\ cache \in [Keys -> Entries]
  /\ order \in Seq(Keys)
  /\ request \in [Requests -> Calls]
  /\ shown \in [Keys -> Values]
  /\ pins \in 0..MaxPins /\ failures \in 0..MaxFailures

\* What TypeOK says of the entry of a key.
Sound(k) == /\ k \notin ToSet(order) => cache[k] = Absent
            /\ cache[k].pinned => cache[k].valid
            /\ cache[k].req # Nothing =>
                 /\ request[cache[k].req].key = k
                 /\ Asks(cache[k].req)

LEMMA TypeParts == TypeOK <=> Types /\ \A k \in Keys : Sound(k)
BY DEF TypeOK, Types, Sound, Entries, Calls, Asks

LEMMA AbsentType == /\ Absent \in Entries /\ ~Absent.pinned /\ Absent.req = Nothing
                    /\ ~Absent.valid
BY DEF Absent, Entries, Values

LEMMA InitInv == Init => IInv
<1> SUFFICES ASSUME Init PROVE IInv
  OBVIOUS
<1>1. Types
  <2>1. 0 \in 0..MaxVersion /\ 0 \in 0..MaxPins /\ 0 \in 0..MaxFailures
    BY BoundsAssumption
  <2>2. cache \in [Keys -> Entries]
    BY AbsentType DEF Init
  <2>3. request \in [Requests -> Calls]
    BY DEF Init, Calls, Values
  <2>4. order \in Seq(Keys)
    BY DEF Init
  <2> QED
    BY <2>1, <2>2, <2>3, <2>4 DEF Init, Types, Values
<1>2. \A k \in Keys : Sound(k)
  BY AbsentType DEF Init, Sound
<1>3. Once(order) /\ \A r \in Requests : ~Asks(r)
  BY DEF Init, Once, Asks
<1> QED
  BY <1>1, <1>2, <1>3, TypeParts DEF IInv

\* The entry of a key is set, and others may go.
LEMMA TrimSound ==
  ASSUME IInv, NEW k \in Keys, NEW entry \in Entries, SetAndTrim(k, entry),
         entry.pinned => entry.valid,
         entry.req # Nothing => request'[entry.req].key = k /\ Asks(entry.req)',
         \A x \in Keys \ {k} : cache[x].req # Nothing =>
                                 request'[cache[x].req] = request[cache[x].req]
  PROVE  /\ order' \in Seq(Keys) /\ cache' \in [Keys -> Entries] /\ Once(order')
         /\ \A x \in Keys : Sound(x)'
<1>1. Types /\ (\A x \in Keys : Sound(x)) /\ Once(order)
  BY TypeParts DEF IInv
<1>2. /\ order' \in Seq(Keys) /\ Once(order')
      /\ \A x \in Keys : cache'[x] = IF x \notin ToSet(order') THEN Absent
                                     ELSE IF x = k THEN entry ELSE cache[x]
  BY <1>1, TrimOrder DEF Types
<1>3. cache' \in [Keys -> Entries]
  BY <1>1, AbsentType DEF SetAndTrim, Types
<1>4. ASSUME NEW x \in Keys PROVE Sound(x)'
  <2>1. CASE x \notin ToSet(order')
    BY <1>2, <2>1, AbsentType DEF Sound
  <2>2. CASE x \in ToSet(order') /\ x = k
    <3>1. cache'[x] = entry
      BY <1>2, <2>2
    <3> QED
      BY <2>2, <3>1 DEF Sound, Asks
  <2>3. CASE x \in ToSet(order') /\ x # k
    <3>1. cache'[x] = cache[x] /\ Sound(x)
      BY <1>1, <1>2, <2>3
    <3> QED
      BY <2>3, <3>1 DEF Sound, Asks
  <2> QED
    BY <2>1, <2>2, <2>3
<1> QED
  BY <1>2, <1>3, <1>4

\* The entry of a key is deleted.
LEMMA DeleteSound ==
  ASSUME IInv, NEW k \in Keys, Delete(k),
         \A x \in Keys \ {k} : cache[x].req # Nothing =>
                                 request'[cache[x].req] = request[cache[x].req]
  PROVE  /\ order' \in Seq(Keys) /\ cache' \in [Keys -> Entries] /\ Once(order')
         /\ \A x \in Keys : Sound(x)'
<1>1. Types /\ (\A x \in Keys : Sound(x)) /\ Once(order)
  BY TypeParts DEF IInv
<1>2. order' \in Seq(Keys) /\ Once(order') /\ ToSet(order') = ToSet(order) \ {k}
  BY <1>1, DeleteOrder DEF Types
<1>3. cache' = [cache EXCEPT ![k] = Absent] /\ cache \in [Keys -> Entries]
  BY <1>1 DEF Delete, Types
<1>4. ASSUME NEW x \in Keys PROVE Sound(x)'
  <2>1. CASE x = k
    <3>1. cache'[x] = Absent
      BY <1>3, <2>1
    <3> QED
      BY <3>1, AbsentType DEF Sound
  <2>2. CASE x # k
    <3>1. cache'[x] = cache[x] /\ Sound(x)
      BY <1>1, <1>3, <2>2
    <3> QED
      BY <1>2, <2>2, <3>1 DEF Sound, Asks
  <2> QED
    BY <2>1, <2>2
<1> QED
  BY <1>2, <1>3, <1>4, AbsentType

\* The entry of a key is set in its place, with the promise it had.
LEMMA PutSound ==
  ASSUME IInv, NEW k \in Keys, NEW entry \in Entries,
         cache' = [cache EXCEPT ![k] = entry], UNCHANGED request,
         entry.pinned => entry.valid,
         entry.req \in {cache[k].req, Nothing},
         \/ order' = order /\ k \in ToSet(order)
         \/ order' = Placed(k)
  PROVE  /\ order' \in Seq(Keys) /\ cache' \in [Keys -> Entries] /\ Once(order')
         /\ \A x \in Keys : Sound(x)'
<1>1. Types /\ (\A x \in Keys : Sound(x)) /\ Once(order)
  BY TypeParts DEF IInv
<1>2. order' \in Seq(Keys) /\ Once(order') /\ ToSet(order') = ToSet(order) \cup {k}
  BY <1>1, PlacedOnce DEF Types
<1>3. cache' \in [Keys -> Entries]
  BY <1>1 DEF Types
<1>4. ASSUME NEW x \in Keys PROVE Sound(x)'
  <2>1. cache'[x] = IF x = k THEN entry ELSE cache[x]
    BY <1>1 DEF Types
  <2>2. x # k => (x \in ToSet(order') <=> x \in ToSet(order))
    BY <1>2
  <2> QED
    BY <1>1, <1>2, <2>1, <2>2 DEF Sound, Asks
<1> QED
  BY <1>2, <1>3, <1>4

\* The requests keep their keys as long as they run.
KeysAsked == \A r \in Requests : Asks(r) => request[r].key \in Keys

LEMMA Whole ==
  ASSUME Types', \A x \in Keys : Sound(x)', Once(order'), KeysAsked'
  PROVE  IInv'
BY DEF IInv, TypeOK, Types, Sound, Entries, Calls, Asks, KeysAsked

LEMMA ReadInv ==
  ASSUME IInv, NEW k \in Keys, Read(k)
  PROVE  IInv'
<1>1. Types /\ (\A x \in Keys : Sound(x)) /\ Once(order)
  BY TypeParts DEF IInv
<1>2. CASE ReadHit(k) \/ ReadJoin(k)
  <2>1. UNCHANGED <<mix, used, server, changed, cache, order, request, pins, failures>>
    BY <1>2 DEF ReadHit, ReadJoin
  <2>2. shown' \in [Keys -> Values]
    <3>1. CASE ReadHit(k)
      BY <1>1, <3>1 DEF ReadHit, Show, Types, Entries
    <3>2. CASE ReadJoin(k)
      <4>1. cache[k].req \in Requests
        BY <1>1, <3>2 DEF ReadJoin, Types, Entries
      <4> QED
        BY <1>1, <3>2, <4>1 DEF ReadJoin, Show, Types, Calls
    <3> QED
      BY <1>2, <3>1, <3>2
  <2>3. Types'
    BY <1>1, <2>1, <2>2 DEF Types
  <2>4. (\A x \in Keys : Sound(x)') /\ Once(order') /\ KeysAsked'
    BY <1>1, <2>1 DEF IInv, Sound, Asks, KeysAsked
  <2> QED
    BY <2>3, <2>4, Whole
<1>3. ASSUME NEW r \in Requests, ReadMiss(k, r) PROVE IInv'
  <2> DEFINE entry == [cache[k] EXCEPT !.req = r]
  <2>1. /\ UNCHANGED <<mix, used, server, changed, shown, pins, failures>>
        /\ SetAndTrim(k, entry) /\ ~cache[k].valid
        /\ \A x \in Keys : cache[x].req # r
        /\ request' = [request EXCEPT ![r] = [pc |-> "sent", key |-> k,
                                              value |-> Nothing]]
    BY <1>3 DEF ReadMiss, Unheld
  <2>2. /\ cache[k] \in Entries /\ entry \in Entries /\ entry.req = r
        /\ entry.pinned = cache[k].pinned /\ entry.valid = cache[k].valid
    BY <1>1 DEF Types, Entries
  <2>3. /\ request' \in [Requests -> Calls] /\ request'[r].key = k /\ Asks(r)'
        /\ \A o \in Requests \ {r} : request'[o] = request[o]
    BY <1>1, <2>1 DEF Types, Calls, Values, Asks
  <2>4. \A x \in Keys : cache[x].req \in Requests \cup {Nothing}
    BY <1>1 DEF Types, Entries
  <2>5. cache[k].pinned => cache[k].valid
    BY <1>1 DEF Sound
  <2> HIDE DEF entry
  <2>6. /\ order' \in Seq(Keys) /\ cache' \in [Keys -> Entries] /\ Once(order')
        /\ \A x \in Keys : Sound(x)'
    BY <2>1, <2>2, <2>3, <2>4, <2>5, TrimSound
  <2>7. Types'
    BY <1>1, <2>1, <2>3, <2>6 DEF Types
  <2>8. KeysAsked'
    BY <2>3 DEF IInv, KeysAsked, Asks
  <2> QED
    BY <2>6, <2>7, <2>8, Whole
<1> QED
  BY <1>2, <1>3 DEF Read

LEMMA ServeInv ==
  ASSUME IInv, NEW r \in Requests, Serve(r)
  PROVE  IInv'
<1>1. Types /\ (\A x \in Keys : Sound(x)) /\ Once(order) /\ KeysAsked
  BY TypeParts DEF IInv, KeysAsked
<1>2. UNCHANGED <<mix, used, server, changed, cache, order, shown, pins, failures>>
  BY DEF Serve
<1>3. request[r].key \in Keys /\ server[request[r].key] \in Values /\ Asks(r)
  BY <1>1 DEF Serve, KeysAsked, Asks, Types, Values
<1>4. /\ request' \in [Requests -> Calls]
      /\ \A o \in Requests : request'[o].key = request[o].key
      /\ \A o \in Requests \ {r} : request'[o] = request[o]
      /\ request'[r].pc = "served"
  BY <1>1, <1>3 DEF Serve, Types, Calls
<1>5. \A o \in Requests : Asks(o)' <=> Asks(o)
  BY <1>3, <1>4 DEF Asks
<1>6. Types'
  BY <1>1, <1>2, <1>4 DEF Types
<1>7. \A x \in Keys : cache[x].req \in Requests \cup {Nothing}
  BY <1>1 DEF Types, Entries
<1>8. ASSUME NEW x \in Keys PROVE Sound(x)'
  <2>1. Sound(x) /\ cache'[x] = cache[x] /\ order' = order
    BY <1>1, <1>2
  <2>2. cache[x].req # Nothing => /\ Asks(cache[x].req)'
                                  /\ request'[cache[x].req].key = x
    BY <1>4, <1>5, <1>7, <2>1 DEF Sound
  <2> QED
    BY <2>1, <2>2 DEF Sound, Asks
<1>9. KeysAsked' /\ Once(order')
  BY <1>1, <1>2, <1>4, <1>5 DEF KeysAsked
<1> QED
  BY <1>6, <1>8, <1>9, Whole

LEMMA FiledType ==
  ASSUME NEW entry \in Entries, NEW v \in Values
  PROVE  /\ Filed(entry, v) \in Entries /\ Filed(entry, v).req = Nothing
         /\ (entry.pinned => entry.valid) =>
              (Filed(entry, v).pinned => Filed(entry, v).valid)
         /\ entry.pinned => Filed(entry, v).value = entry.value
BY DEF Filed, Entries

LEMMA AnswerInv ==
  ASSUME IInv, NEW r \in Requests, Answer(r)
  PROVE  IInv'
<1> DEFINE k == request[r].key
           entry == Filed(cache[k], request[r].value)
<1>1. Types /\ (\A x \in Keys : Sound(x)) /\ Once(order) /\ KeysAsked
  BY TypeParts DEF IInv, KeysAsked
<1>2. k \in Keys /\ request[r].value \in Values /\ cache[k] \in Entries
  BY <1>1 DEF Answer, KeysAsked, Asks, Types, Calls
<1>3. /\ entry \in Entries /\ entry.req = Nothing
      /\ entry.pinned => entry.valid
  BY <1>1, <1>2, FiledType DEF Sound
<1>4. /\ UNCHANGED <<mix, used, server, changed, pins, failures>>
      /\ IF cache[k].pinned
         THEN cache' = [cache EXCEPT ![k] = entry] /\ UNCHANGED order
         ELSE SetAndTrim(k, entry)
      /\ shown' = [shown EXCEPT ![k] = entry.value]
      /\ request' = [request EXCEPT ![r].pc = "settled", ![r].value = entry.value]
  BY DEF Answer, Show
<1> HIDE DEF entry
<1>5. /\ request' \in [Requests -> Calls] /\ shown' \in [Keys -> Values]
      /\ \A o \in Requests \ {r} : request'[o] = request[o]
      /\ request'[r].pc = "settled"
  <2>1. entry.value \in Values
    BY <1>3 DEF Entries
  <2>2. request' \in [Requests -> Calls] /\ request'[r].pc = "settled"
    BY <1>1, <1>4, <2>1 DEF Types, Calls
  <2>3. \A o \in Requests \ {r} : request'[o] = request[o]
    BY <1>1, <1>4 DEF Types
  <2>4. shown' \in [Keys -> Values]
    BY <1>1, <1>2, <1>4, <2>1 DEF Types
  <2> QED
    BY <2>2, <2>3, <2>4
<1>6. \A x \in Keys \ {k} : cache[x].req # Nothing =>
                              request'[cache[x].req] = request[cache[x].req]
  <2> TAKE x \in Keys \ {k}
  <2>1. cache[x].req \in Requests \cup {Nothing} /\ Sound(x)
    BY <1>1 DEF Types, Entries
  <2> QED
    BY <1>5, <2>1 DEF Sound
<1>7. /\ order' \in Seq(Keys) /\ cache' \in [Keys -> Entries] /\ Once(order')
      /\ \A x \in Keys : Sound(x)'
  <2>1. CASE cache[k].pinned
    <3>1. cache' = [cache EXCEPT ![k] = entry] /\ order' = order
      BY <1>4, <2>1
    <3>2. cache' \in [Keys -> Entries]
      BY <1>1, <1>3, <3>1 DEF Types
    <3>3. ASSUME NEW x \in Keys PROVE Sound(x)'
      <4>1. Sound(x) /\ cache'[x] = IF x = k THEN entry ELSE cache[x]
        BY <1>1, <3>1 DEF Types
      <4>2. CASE x = k
        <5>1. k \in ToSet(order)
          BY <2>1, <1>2, <4>1, <4>2, AbsentType DEF Sound
        <5> QED
          BY <1>3, <3>1, <4>1, <4>2, <5>1 DEF Sound
      <4>3. CASE x # k
        BY <1>6, <3>1, <4>1, <4>3 DEF Sound, Asks
      <4> QED
        BY <4>2, <4>3
    <3> QED
      BY <1>1, <3>1, <3>2, <3>3 DEF Types
  <2>2. CASE ~cache[k].pinned
    <3>1. SetAndTrim(k, entry)
      BY <1>4, <2>2
    <3> HIDE DEF k
    <3> QED
      BY <1>2, <1>3, <1>6, <3>1, TrimSound
  <2> QED
    BY <2>1, <2>2
<1>8. Types'
  BY <1>1, <1>4, <1>5, <1>7 DEF Types
<1>9. KeysAsked'
  BY <1>1, <1>5 DEF KeysAsked, Asks
<1> QED
  BY <1>7, <1>8, <1>9, Whole

LEMMA AnswerFailsInv ==
  ASSUME IInv, NEW r \in Requests, AnswerFails(r)
  PROVE  IInv'
<1> DEFINE k == request[r].key
<1>1. Types /\ (\A x \in Keys : Sound(x)) /\ Once(order) /\ KeysAsked
  BY TypeParts DEF IInv, KeysAsked
<1>2. k \in Keys
  BY <1>1 DEF AnswerFails, KeysAsked, Asks
<1>3. /\ UNCHANGED <<mix, used, server, changed, shown, pins>>
      /\ failures < MaxFailures /\ failures' = failures + 1
      /\ request' = [request EXCEPT ![r] = [pc |-> "free", key |-> Nothing,
                                            value |-> Nothing]]
      /\ IF cache[k].req = r THEN Delete(k) ELSE UNCHANGED <<cache, order>>
  BY DEF AnswerFails
<1>4. /\ request' \in [Requests -> Calls] /\ request'[r].pc = "free"
      /\ \A o \in Requests \ {r} : request'[o] = request[o]
      /\ failures' \in 0..MaxFailures
  BY <1>1, <1>3, BoundsAssumption DEF Types, Calls, Values
<1> HIDE DEF k
<1>5. \A x \in Keys : cache[x].req # Nothing /\ cache[x].req # r =>
                        request'[cache[x].req] = request[cache[x].req]
  BY <1>1, <1>4 DEF Types, Entries
<1>6. \A x \in Keys \ {k} : cache[x].req # r \/ cache[x].req = Nothing
  BY <1>1 DEF Sound, k
<1>7. /\ order' \in Seq(Keys) /\ cache' \in [Keys -> Entries] /\ Once(order')
      /\ \A x \in Keys : Sound(x)'
  <2>1. CASE cache[k].req = r
    BY <1>2, <1>3, <1>5, <1>6, <2>1, DeleteSound
  <2>2. CASE cache[k].req # r
    <3>1. UNCHANGED <<cache, order>>
      BY <1>3, <2>2
    <3>2. ASSUME NEW x \in Keys PROVE Sound(x)'
      <4>1. Sound(x) /\ (cache[x].req # r \/ cache[x].req = Nothing)
        BY <1>1, <1>6, <2>2
      <4> QED
        BY <1>5, <3>1, <4>1 DEF Sound, Asks
    <3> QED
      BY <1>1, <3>1, <3>2 DEF Types
  <2> QED
    BY <2>1, <2>2
<1>8. Types'
  BY <1>1, <1>3, <1>4, <1>7 DEF Types
<1>9. KeysAsked'
  BY <1>1, <1>4 DEF KeysAsked, Asks
<1> QED
  BY <1>7, <1>8, <1>9, Whole

\* A step that leaves the requests alone.
LEMMA EntryInv ==
  ASSUME IInv, NEW k \in Keys,
         Expire(k) \/ Invalidate(k) \/ \E v \in 0..MaxVersion : SetOptimistic(k, v)
  PROVE  IInv'
<1>1. Types /\ (\A x \in Keys : Sound(x)) /\ Once(order) /\ KeysAsked
  BY TypeParts DEF IInv, KeysAsked
<1>2. UNCHANGED <<mix, used, server, request, failures>>
  BY DEF Expire, Invalidate, SetOptimistic
<1>3. /\ cache[k] \in Entries /\ cache \in [Keys -> Entries] /\ Sound(k)
  BY <1>1 DEF Types
<1>4. CASE Expire(k)
  <2> DEFINE entry == [cache[k] EXCEPT !.valid = FALSE, !.pinned = FALSE]
  <2>1. /\ entry \in Entries /\ ~entry.pinned /\ entry.req = cache[k].req
    BY <1>3 DEF Entries
  <2>2. k \in ToSet(order)
    BY <1>3, <1>4, AbsentType DEF Expire, Sound
  <2>3. cache' = [cache EXCEPT ![k] = entry]
    BY <1>3, <1>4 DEF Expire, Entries
  <2> HIDE DEF entry
  <2>4. UNCHANGED <<order, changed, shown, pins>>
    BY <1>4 DEF Expire
  <2>5. /\ order' \in Seq(Keys) /\ cache' \in [Keys -> Entries] /\ Once(order')
        /\ \A x \in Keys : Sound(x)'
    BY <1>2, <2>1, <2>2, <2>3, <2>4, PutSound
  <2>6. Types' /\ KeysAsked'
    BY <1>1, <1>2, <2>4, <2>5 DEF Types, KeysAsked, Asks
  <2> QED
    BY <2>5, <2>6, Whole
<1>5. CASE Invalidate(k)
  <2>1. Delete(k) /\ changed' = changed \ {k} /\ UNCHANGED <<shown, pins>>
    BY <1>5 DEF Invalidate
  <2>2. /\ order' \in Seq(Keys) /\ cache' \in [Keys -> Entries] /\ Once(order')
        /\ \A x \in Keys : Sound(x)'
    BY <1>2, <2>1, DeleteSound
  <2>3. Types' /\ KeysAsked'
    BY <1>1, <1>2, <2>1, <2>2 DEF Types, KeysAsked, Asks
  <2> QED
    BY <2>2, <2>3, Whole
<1>6. ASSUME NEW v \in 0..MaxVersion, SetOptimistic(k, v) PROVE IInv'
  <2> DEFINE entry == [value |-> v, valid |-> TRUE, pinned |-> TRUE,
                       req |-> cache[k].req]
  <2>1. entry \in Entries /\ entry.valid /\ entry.req = cache[k].req
    BY <1>3 DEF Entries, Values
  <2>2. /\ cache' = [cache EXCEPT ![k] = entry] /\ order' = Placed(k)
        /\ shown' = [shown EXCEPT ![k] = v] /\ UNCHANGED changed
        /\ pins < MaxPins /\ pins' = pins + 1
    BY <1>6 DEF SetOptimistic, Show
  <2> HIDE DEF entry
  <2>3. /\ order' \in Seq(Keys) /\ cache' \in [Keys -> Entries] /\ Once(order')
        /\ \A x \in Keys : Sound(x)'
    BY <1>2, <2>1, <2>2, PutSound
  <2>4. pins' \in 0..MaxPins /\ shown' \in [Keys -> Values]
    BY <1>1, <2>2, BoundsAssumption DEF Types, Values
  <2>5. Types' /\ KeysAsked'
    BY <1>1, <1>2, <2>2, <2>3, <2>4 DEF Types, KeysAsked, Asks
  <2> QED
    BY <2>3, <2>5, Whole
<1> QED
  BY <1>4, <1>5, <1>6

LEMMA ChangeInv ==
  ASSUME IInv, NEW k \in Keys, Change(k)
  PROVE  IInv'
<1>1. Types /\ (\A x \in Keys : Sound(x)) /\ Once(order) /\ KeysAsked
  BY TypeParts DEF IInv, KeysAsked
<1>2. UNCHANGED <<mix, used, cache, order, request, shown, pins, failures>>
  BY DEF Change
<1>3. Types'
  BY <1>1, <1>2, BoundsAssumption DEF Change, Types
<1>4. (\A x \in Keys : Sound(x)') /\ Once(order') /\ KeysAsked'
  BY <1>1, <1>2 DEF Sound, Asks, KeysAsked
<1> QED
  BY <1>3, <1>4, Whole

LEMMA StepInv == IInv /\ [Next]_vars => IInv'
<1> SUFFICES ASSUME IInv, [Next]_vars PROVE IInv'
  OBVIOUS
<1>1. used \subseteq Keys
  BY DEF IInv, TypeOK
<1>2. CASE UNCHANGED vars
  <2>1. TypeOK'
    BY <1>2 DEF vars, IInv, TypeOK
  <2> QED
    BY <1>2, <2>1 DEF vars, IInv, Asks
<1> QED
  BY <1>1, <1>2, ReadInv, ServeInv, AnswerInv, AnswerFailsInv, EntryInv, ChangeInv
     DEF Next

LEMMA AlwaysInv == Spec => []IInv
BY InitInv, StepInv, PTL DEF Spec

\* Every reachable state is well typed; an entry is in the map or absent, a
\* pin is valid, and the promise of an entry is that of a running request for
\* its key.
THEOREM TypeCorrect == Spec => []TypeOK
<1>1. IInv => TypeOK
  BY DEF IInv
<1> QED
  BY <1>1, AlwaysInv, PTL

\* Of all the steps only those of a read and of an answer show anything.
LEMMA PinStep ==
  ASSUME IInv, [Next]_vars, NEW k \in Keys,
         cache[k].pinned, shown'[k] # shown[k], pins' = pins
  PROVE  shown'[k] = cache[k].value
<1>1. Types /\ Sound(k) /\ KeysAsked /\ DOMAIN shown = Keys
  BY TypeParts DEF IInv, KeysAsked, Types
<1>2. cache[k].valid
  BY <1>1 DEF Sound
<1>3. ASSUME NEW x \in Keys, Read(x) PROVE shown'[k] = cache[k].value
  BY <1>1, <1>2, <1>3 DEF Read, ReadHit, ReadJoin, ReadMiss, Show
<1>4. ASSUME NEW x \in Keys, Expire(x) \/ Invalidate(x) \/ Change(x) PROVE FALSE
  BY <1>4 DEF Expire, Invalidate, Change
<1>5. ASSUME NEW r \in Requests, Serve(r) \/ AnswerFails(r) PROVE FALSE
  BY <1>5 DEF Serve, AnswerFails
<1>6. ASSUME NEW r \in Requests, Answer(r) PROVE shown'[k] = cache[k].value
  <2> DEFINE x == request[r].key
             entry == Filed(cache[x], request[r].value)
  <2>1. shown' = [shown EXCEPT ![x] = entry.value]
    BY <1>6 DEF Answer, Show
  <2>2. x = k
    BY <1>1, <2>1
  <2>3. cache[k] \in Entries /\ request[r].value \in Values
    BY <1>1 DEF Types, Calls
  <2> HIDE DEF x
  <2> QED
    BY <1>1, <2>1, <2>2, <2>3, FiledType
<1>7. ASSUME NEW x \in used, NEW v \in 0..MaxVersion, SetOptimistic(x, v) PROVE FALSE
  BY <1>1, <1>7 DEF SetOptimistic, Types
<1>8. CASE UNCHANGED vars
  BY <1>8 DEF vars
<1>9. used \subseteq Keys
  BY <1>1 DEF Types
<1> QED
  BY <1>3, <1>4, <1>5, <1>6, <1>7, <1>8, <1>9 DEF Next

\* While a pin lasts, no answer that was under way when it was set reaches the
\* page (callWithReadCache, setOptimisticReadCache).
THEOREM PinStands == Spec => PinnedShown
<1> DEFINE Stands == \A k \in Keys :
             /\ cache[k].pinned /\ shown'[k] # shown[k]
             /\ pins' = pins
             => shown'[k] = cache[k].value
<1>1. IInv /\ [Next]_vars => [Stands]_vars
  BY PinStep
<1> QED
  BY <1>1, AlwaysInv, PTL DEF Spec, PinnedShown

-----------------------------------------------------------------------------
(* One request for a key at a time *)

\* Where nothing is invalidated and what the pages read fits, a request that
\* runs is the one its key's entry holds: none is given up, so none is sent a
\* second time.
Held == /\ changed = {}
        /\ ToSet(order) \subseteq used
        /\ \A r \in Requests : Asks(r) => cache[request[r].key].req = r

Fits == mix \subseteq {"pin"}
HeldInv == Fits => Held /\ Cardinality(used) <= MaxEntries

\* A list of keys that are read is no longer than their number.
LEMMA ListFits ==
  ASSUME NEW S \in SUBSET Keys, Cardinality(S) <= MaxEntries,
         NEW o \in Seq(Keys), Once(o), ToSet(o) \subseteq S
  PROVE  Len(o) <= MaxEntries
<1>1. Len(o) \in Nat /\ DOMAIN o = 1..Len(o)
  OBVIOUS
<1>2. IsFiniteSet(S) /\ Cardinality(S) \in Nat
  BY KeysAssumption, FS_Subset, FS_CardinalityType
<1>3. IsFiniteSet(1..Len(o)) /\ Cardinality(1..Len(o)) = Len(o)
  <2>1. 1 \in Int /\ Len(o) \in Int
    BY <1>1
  <2>2. Cardinality(1..Len(o)) = IF 1 > Len(o) THEN 0 ELSE Len(o) - 1 + 1
    BY <2>1, FS_Interval
  <2> QED
    BY <1>1, <2>1, <2>2, FS_Interval
<1>4. o \in [1..Len(o) -> S]
  BY <1>1 DEF ToSet
<1>5. o \in Injection(1..Len(o), S)
  BY <1>1, <1>4 DEF Once, Injection, IsInjective
<1>6. Cardinality(1..Len(o)) <= Cardinality(S)
  BY <1>2, <1>5, FS_Injection
<1> QED
  BY <1>1, <1>2, <1>3, <1>6, BoundsAssumption

\* So that setting an entry evicts no other.
LEMMA NoneEvicted ==
  ASSUME IInv, Held, Cardinality(used) <= MaxEntries,
         NEW k \in used, NEW entry, SetAndTrim(k, entry)
  PROVE  /\ ToSet(order') \subseteq used
         /\ cache'[k] = entry
         /\ \A x \in Keys \ {k} : cache'[x].req = cache[x].req
<1>1. Types /\ (\A x \in Keys : Sound(x)) /\ Once(order) /\ k \in Keys
  BY TypeParts DEF IInv, Types
<1>2. /\ Placed(k) \in Seq(Keys) /\ Once(Placed(k))
      /\ ToSet(Placed(k)) = ToSet(order) \cup {k}
  BY <1>1, PlacedOnce DEF Types
<1>3. Len(Placed(k)) <= MaxEntries
  BY <1>1, <1>2, ListFits DEF Held, Types
<1>4. /\ ToSet(order') = ToSet(order) \cup {k}
      /\ \A x \in Keys : cache'[x] = IF x \notin ToSet(order') THEN Absent
                                     ELSE IF x = k THEN entry ELSE cache[x]
  BY <1>1, <1>3, TrimOrder DEF Types
<1>5. ASSUME NEW x \in Keys \ {k} PROVE cache'[x].req = cache[x].req
  <2>1. x \notin ToSet(order) => cache[x] = Absent
    BY <1>1 DEF Sound
  <2> QED
    BY <1>4, <2>1
<1> QED
  BY <1>1, <1>4, <1>5 DEF Held

\* The requests and the promises that are held stay.
LEMMA HeldSame ==
  ASSUME Held, UNCHANGED <<changed, used, request>>, ToSet(order') \subseteq used,
         \A k \in Keys : cache'[k].req = cache[k].req, KeysAsked
  PROVE  Held'
BY DEF Held, Asks, KeysAsked

LEMMA HeldRead ==
  ASSUME IInv, Held, Cardinality(used) <= MaxEntries, NEW k \in used, Read(k)
  PROVE  Held'
<1>1. Types /\ (\A x \in Keys : Sound(x)) /\ KeysAsked /\ k \in Keys
  BY TypeParts DEF IInv, KeysAsked, Types
<1>2. CASE ReadHit(k) \/ ReadJoin(k)
  BY <1>1, <1>2, HeldSame DEF ReadHit, ReadJoin, Held
<1>3. ASSUME NEW r \in Requests, ReadMiss(k, r) PROVE Held'
  <2> DEFINE entry == [cache[k] EXCEPT !.req = r]
  <2>1. /\ UNCHANGED <<changed, used>> /\ SetAndTrim(k, entry) /\ cache[k].req = Nothing
        /\ request' = [request EXCEPT ![r] = [pc |-> "sent", key |-> k,
                                              value |-> Nothing]]
    BY <1>3 DEF ReadMiss
  <2>2. entry.req = r
    BY <1>1 DEF Types, Entries
  <2> HIDE DEF entry
  <2>3. /\ ToSet(order') \subseteq used /\ cache'[k] = entry
        /\ \A x \in Keys \ {k} : cache'[x].req = cache[x].req
    BY <2>1, NoneEvicted
  <2>4. request'[r].key = k /\ \A o \in Requests \ {r} : request'[o] = request[o]
    BY <1>1, <2>1 DEF Types
  <2>5. ASSUME NEW o \in Requests, Asks(o)' PROVE cache'[request'[o].key].req = o
    <3>1. CASE o = r
      BY <2>2, <2>3, <2>4, <3>1
    <3>2. CASE o # r
      <4>1. request'[o] = request[o] /\ Asks(o) /\ request[o].key \in Keys
        BY <1>1, <2>4, <2>5, <3>2 DEF Asks, KeysAsked
      <4>2. cache[request[o].key].req = o
        BY <4>1 DEF Held
      <4>3. request[o].key # k
        BY <2>1, <4>2, NothingAssumption
      <4> QED
        BY <2>3, <4>1, <4>2, <4>3
    <3> QED
      BY <3>1, <3>2
  <2> QED
    BY <2>1, <2>3, <2>5 DEF Held
<1> QED
  BY <1>2, <1>3 DEF Read

LEMMA HeldAnswer ==
  ASSUME IInv, Held, Cardinality(used) <= MaxEntries, NEW r \in Requests,
         Answer(r) \/ AnswerFails(r)
  PROVE  Held'
<1> DEFINE k == request[r].key
<1>1. Types /\ (\A x \in Keys : Sound(x)) /\ Once(order) /\ KeysAsked
  BY TypeParts DEF IInv, KeysAsked
<1>2. Asks(r) /\ k \in Keys /\ cache[k].req = r
  BY <1>1 DEF Answer, AnswerFails, KeysAsked, Asks, Held
<1>3. /\ UNCHANGED <<changed, used>> /\ request'[r].pc \in {"free", "settled"}
      /\ \A o \in Requests \ {r} : request'[o] = request[o]
  BY <1>1 DEF Answer, AnswerFails, Types, Calls
<1>4. k \in ToSet(order) /\ k \in used
  <2>1. r # Nothing
    BY NothingAssumption
  <2> QED
    BY <1>1, <1>2, <2>1, AbsentType DEF Sound, Held
<1> HIDE DEF k
<1>5. /\ ToSet(order') \subseteq used
      /\ \A x \in Keys \ {k} : cache'[x].req = cache[x].req
  <2>1. CASE Answer(r)
    <3> DEFINE entry == Filed(cache[k], request[r].value)
    <3>1. IF cache[k].pinned
            THEN cache' = [cache EXCEPT ![k] = entry] /\ UNCHANGED order
            ELSE SetAndTrim(k, entry)
      BY <2>1 DEF Answer, k
    <3> HIDE DEF entry
    <3>2. CASE cache[k].pinned
      BY <1>1, <1>2, <3>1, <3>2 DEF Held, Types
    <3>3. CASE ~cache[k].pinned
      BY <1>4, <3>1, <3>3, NoneEvicted
    <3> QED
      BY <3>2, <3>3
  <2>2. CASE AnswerFails(r)
    <3>1. Delete(k)
      BY <1>2, <2>2 DEF AnswerFails, k
    <3>2. ToSet(order') = ToSet(order) \ {k}
      BY <1>1, <1>2, <3>1, DeleteOrder DEF Types
    <3> QED
      BY <1>1, <3>1, <3>2 DEF Delete, Held, Types
  <2> QED
    BY <2>1, <2>2
<1>6. ASSUME NEW o \in Requests, Asks(o)' PROVE cache'[request'[o].key].req = o
  <2>1. o # r
    BY <1>3, <1>6 DEF Asks
  <2>2. request'[o] = request[o] /\ Asks(o) /\ request[o].key \in Keys
    BY <1>1, <1>3, <1>6, <2>1 DEF Asks, KeysAsked
  <2>3. cache[request[o].key].req = o
    BY <2>2 DEF Held
  <2>4. request[o].key # k
    BY <1>2, <2>1, <2>3
  <2> QED
    BY <1>5, <2>2, <2>3, <2>4
<1> QED
  BY <1>3, <1>5, <1>6 DEF Held

LEMMA HeldStep == IInv /\ HeldInv /\ [Next]_vars => HeldInv'
<1> SUFFICES ASSUME IInv, HeldInv, [Next]_vars PROVE HeldInv'
  OBVIOUS
<1>1. mix' = mix /\ used' = used
  BY DEF Next, Read, ReadHit, ReadJoin, ReadMiss, Serve, Answer, AnswerFails,
     Expire, Invalidate, Change, SetOptimistic, vars
<1> SUFFICES ASSUME Held, Fits, Cardinality(used) <= MaxEntries PROVE Held'
  BY <1>1 DEF HeldInv, Fits
<1>2. Types /\ Once(order) /\ KeysAsked
  BY TypeParts DEF IInv, KeysAsked
<1>3. ASSUME NEW k \in Keys, Read(k) PROVE Held'
  BY <1>3, HeldRead DEF Read
<1>4. ASSUME NEW k \in Keys, Expire(k) PROVE Held'
  <2>1. \A x \in Keys : cache'[x].req = cache[x].req
    BY <1>2, <1>4 DEF Expire, Types, Entries
  <2> QED
    BY <1>2, <1>4, <2>1, HeldSame DEF Expire, Held
<1>5. ASSUME NEW k \in Keys, Invalidate(k) PROVE Held'
  BY <1>5 DEF Invalidate, Held
<1>6. ASSUME NEW k \in used, Change(k) PROVE Held'
  BY <1>2, <1>6, HeldSame DEF Change, Fits, Held
<1>7. ASSUME NEW k \in used, NEW v \in 0..MaxVersion, SetOptimistic(k, v) PROVE Held'
  <2>1. \A x \in Keys : cache'[x].req = cache[x].req
    BY <1>2, <1>7 DEF SetOptimistic, Types, Entries
  <2>2. ToSet(order') \subseteq used
    BY <1>2, <1>7, PlacedOnce DEF SetOptimistic, Types, Held
  <2> QED
    BY <1>2, <1>7, <2>1, <2>2, HeldSame DEF SetOptimistic
<1>8. ASSUME NEW r \in Requests, Serve(r) PROVE Held'
  <2>1. /\ \A o \in Requests : request'[o].key = request[o].key
        /\ \A o \in Requests : Asks(o)' => Asks(o)
    BY <1>2, <1>8 DEF Serve, Asks, Types, Calls
  <2> QED
    BY <1>8, <2>1 DEF Serve, Held
<1>9. ASSUME NEW r \in Requests, Answer(r) \/ AnswerFails(r) PROVE Held'
  BY <1>9, HeldAnswer
<1>10. CASE UNCHANGED vars
  BY <1>2, <1>10, HeldSame DEF vars, Held
<1> QED
  BY <1>3, <1>4, <1>5, <1>6, <1>7, <1>8, <1>9, <1>10 DEF Next

LEMMA HeldInit == Init => HeldInv
BY DEF Init, HeldInv, Fits, Held, Asks, ToSet

\* As long as nothing is invalidated and what the pages read fits the cache,
\* a key is asked for once at a time, through any pins, expiries and failures
\* (callWithReadCache, setOptimisticReadCache).
THEOREM AskedOnce == Spec => []OneRequest
<1>1. IInv /\ HeldInv => OneRequest
  <2> SUFFICES ASSUME IInv, HeldInv, Fits, NEW k \in Keys,
                      NEW r \in Running(k), NEW s \in Running(k)
               PROVE  r = s
    BY DEF OneRequest, Fits
  <2> QED
    BY DEF HeldInv, Held, Running, Asks
<1> QED
  BY <1>1, HeldInit, HeldStep, AlwaysInv, PTL DEF Spec
=============================================================================
