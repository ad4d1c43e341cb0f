--------------------------- MODULE TTLCacheProofs ---------------------------
(***************************************************************************)
(* Proofs about TTLCache, for any keys, values, size and TTL: what it does *)
(* is what BoundedCache allows, and what it gives up is what was used      *)
(* longest ago.                                                            *)
(*                                                                         *)
(* Both rest on the order of the entries.  CacheInv says that a key is     *)
(* there once, that all keys behind an entry have been used since it was,  *)
(* and that for a key that is not there enough others have been.           *)
(***************************************************************************)
EXTENDS TTLCache, FiniteSetTheorems, SequenceTheorems, TLAPS

(* Each key is in the OrderedDict once. *)
KeysOnce(d) == \A i, j \in DOMAIN d : d[i].key = d[j].key => i = j

Shape ==
    /\ data \in Seq(Entry)
    /\ KeysOnce(data)
    /\ Len(data) <= MaxSize
    /\ since \in [Keys -> SUBSET Keys]

(* Whatever is behind an entry was used after it. *)
Ordered(d, used) == \A i, j \in DOMAIN d : i < j => d[j].key \in used[d[i].key]

(* What is not there has been overtaken by as many keys as fit. *)
Overtaken == \A k \in Keys \ KeysOf(data) : MaxSize <= Cardinality(since[k])

CacheInv == Shape /\ Ordered(data, since) /\ Overtaken

----------------------------------------------------------------------------
(* What the operations do to the sequence of entries. *)

LEMMA Removed ==
    ASSUME NEW S, NEW s \in Seq(S), NEW at \in 1 .. Len(s)
    PROVE  /\ RemoveAt(s, at) \in Seq(S)
           /\ Len(RemoveAt(s, at)) = Len(s) - 1
           /\ \A i \in 1 .. Len(s) - 1 :
                RemoveAt(s, at)[i] = IF i < at THEN s[i] ELSE s[i + 1]
<1> DEFINE front == SubSeq(s, 1, at - 1)
           back == SubSeq(s, at + 1, Len(s))
<1>1. /\ front \in Seq(S) /\ Len(front) = at - 1
      /\ \A i \in 1 .. at - 1 : front[i] = s[i]
  BY SubSeqProperties
<1>2. /\ back \in Seq(S) /\ Len(back) = Len(s) - at
      /\ \A i \in 1 .. Len(s) - at : back[i] = s[at + i]
  BY SubSeqProperties
<1> HIDE DEF front, back
<1>3. RemoveAt(s, at) = front \o back
  BY DEF RemoveAt, front, back
<1>4. (at - 1) + (Len(s) - at) = Len(s) - 1
  OBVIOUS
<1>5. /\ front \o back \in Seq(S)
      /\ Len(front \o back) = Len(s) - 1
      /\ \A i \in 1 .. Len(s) - 1 :
            (front \o back)[i] = IF i <= at - 1 THEN front[i] ELSE back[i - (at - 1)]
  <2>1. /\ front \o back \in Seq(S)
        /\ Len(front \o back) = Len(front) + Len(back)
        /\ \A i \in 1 .. Len(front) + Len(back) :
              (front \o back)[i] = IF i <= Len(front) THEN front[i] ELSE back[i - Len(front)]
    BY <1>1, <1>2, ConcatProperties
  <2>2. Len(front) = at - 1 /\ Len(front) + Len(back) = Len(s) - 1
    BY <1>1, <1>2, <1>4
  <2> QED BY <2>1, <2>2
<1>6. ASSUME NEW i \in 1 .. Len(s) - 1
      PROVE  (front \o back)[i] = IF i < at THEN s[i] ELSE s[i + 1]
  <2>1. CASE i < at
    BY <1>1, <1>5, <2>1
  <2>2. CASE ~(i < at)
    <3>1. i - (at - 1) \in 1 .. Len(s) - at /\ at + (i - (at - 1)) = i + 1
      BY <2>2
    <3> QED BY <1>2, <1>5, <2>2, <3>1
  <2> QED BY <2>1, <2>2
<1> QED BY <1>3, <1>5, <1>6

(* s has the entries of d except that of k, in the order they have in d.   *)
Thinned(s, d, k) ==
    /\ s \in Seq(Entry) /\ KeysOnce(s)
    /\ KeysOf(s) = KeysOf(d) \ {k}
    /\ \A i \in DOMAIN s : \E a \in DOMAIN d : s[i] = d[a]
    /\ \A i, j \in DOMAIN s : i < j => \E a, b \in DOMAIN d : a < b /\ s[i] = d[a] /\ s[j] = d[b]

LEMMA EntryAt ==
    ASSUME NEW d, KeysOnce(d), NEW i \in DOMAIN d
    PROVE  EntryOf(d, d[i].key) = d[i] /\ Place(d, d[i].key) = i
  BY DEF KeysOnce, EntryOf, Place

LEMMA EntriesThere ==
    ASSUME NEW d \in Seq(Entry), KeysOnce(d), NEW k \in KeysOf(d)
    PROVE  /\ Place(d, k) \in DOMAIN d /\ d[Place(d, k)].key = k
           /\ EntryOf(d, k) \in Entry /\ EntryOf(d, k).key = k
<1>1. PICK i \in DOMAIN d : d[i].key = k
  BY DEF KeysOf
<1>2. d[i] \in Entry
  OBVIOUS
<1> QED BY <1>1, <1>2, EntryAt

(* An entry goes from any place. *)
LEMMA OneGoes ==
    ASSUME NEW d \in Seq(Entry), KeysOnce(d), NEW at \in DOMAIN d, NEW s \in Seq(Entry),
           Len(s) = Len(d) - 1,
           \A i \in 1 .. Len(d) - 1 : s[i] = IF i < at THEN d[i] ELSE d[i + 1]
    PROVE  Thinned(s, d, d[at].key)
<1>1. /\ Len(d) \in Nat /\ DOMAIN d = 1 .. Len(d) /\ DOMAIN s = 1 .. Len(d) - 1
      /\ at \in 1 .. Len(d)
  OBVIOUS
<1> DEFINE old(i) == IF i < at THEN i ELSE i + 1
           new(i) == IF i < at THEN i ELSE i - 1
<1>2. \A i \in DOMAIN s : old(i) \in DOMAIN d /\ old(i) # at /\ s[i] = d[old(i)]
  BY <1>1
<1>3. \A i, j \in DOMAIN s : /\ i < j => old(i) < old(j)
                             /\ old(i) = old(j) => i = j
  BY <1>1
<1>4. \A i \in DOMAIN d : i # at => new(i) \in DOMAIN s /\ s[new(i)] = d[i]
  BY <1>1
<1> HIDE DEF old, new
<1>5. KeysOnce(s)
  BY <1>2, <1>3 DEF KeysOnce
<1>6. KeysOf(s) = KeysOf(d) \ {d[at].key}
  <2>1. ASSUME NEW i \in DOMAIN s PROVE s[i].key \in KeysOf(d) \ {d[at].key}
    BY <1>2 DEF KeysOnce, KeysOf
  <2>2. ASSUME NEW i \in DOMAIN d, d[i].key # d[at].key PROVE d[i].key \in KeysOf(s)
    BY <1>4, <2>2 DEF KeysOf
  <2>3. KeysOf(s) \subseteq KeysOf(d) \ {d[at].key}
    BY <2>1 DEF KeysOf
  <2>4. KeysOf(d) \ {d[at].key} \subseteq KeysOf(s)
    BY <2>2 DEF KeysOf
  <2> QED BY <2>3, <2>4
<1>7. \A i, j \in DOMAIN s : i < j =>
        \E a, b \in DOMAIN d : a < b /\ s[i] = d[a] /\ s[j] = d[b]
  BY <1>2, <1>3
<1>8. \A i \in DOMAIN s : \E a \in DOMAIN d : s[i] = d[a]
  BY <1>2
<1> QED BY <1>5, <1>6, <1>7, <1>8 DEF Thinned

LEMMA WithoutEffect ==
    ASSUME NEW d \in Seq(Entry), KeysOnce(d), NEW k
    PROVE  /\ Thinned(Without(d, k), d, k)
           /\ Len(Without(d, k)) = IF k \in KeysOf(d) THEN Len(d) - 1 ELSE Len(d)
<1>1. CASE k \in KeysOf(d)
  <2> DEFINE at == Place(d, k)
             s == RemoveAt(d, at)
  <2>1. at \in DOMAIN d /\ d[at].key = k
    BY <1>1, EntriesThere
  <2>2. at \in 1 .. Len(d)
    BY <2>1
  <2> HIDE DEF at
  <2>3. /\ s \in Seq(Entry) /\ Len(s) = Len(d) - 1
        /\ \A i \in 1 .. Len(d) - 1 : s[i] = IF i < at THEN d[i] ELSE d[i + 1]
    BY <2>2, Removed
  <2>4. Without(d, k) = s
    BY <1>1 DEF Without, at
  <2> HIDE DEF s
  <2>5. Thinned(s, d, k)
    BY <2>1, <2>3, OneGoes
  <2> QED BY <1>1, <2>3, <2>4, <2>5
<1>2. CASE k \notin KeysOf(d)
  <2>1. Without(d, k) = d
    BY <1>2 DEF Without
  <2>2. Thinned(d, d, k)
    BY <1>2 DEF Thinned
  <2> QED BY <1>2, <2>1, <2>2
<1> QED BY <1>1, <1>2

LEMMA TailEffect ==
    ASSUME NEW d \in Seq(Entry), KeysOnce(d), d # <<>>
    PROVE  /\ Thinned(Tail(d), d, d[1].key)
           /\ Len(Tail(d)) = Len(d) - 1
           /\ 1 \in DOMAIN d
<1>1. /\ Tail(d) \in Seq(Entry) /\ Len(Tail(d)) = Len(d) - 1
      /\ \A i \in 1 .. Len(d) - 1 : Tail(d)[i] = d[i + 1]
      /\ 1 \in DOMAIN d
  BY HeadTailProperties
<1>2. \A i \in 1 .. Len(d) - 1 : Tail(d)[i] = IF i < 1 THEN d[i] ELSE d[i + 1]
  BY <1>1
<1> QED BY <1>1, <1>2, OneGoes

LEMMA AppendEffect ==
    ASSUME NEW d \in Seq(Entry), KeysOnce(d), NEW e \in Entry, e.key \notin KeysOf(d)
    PROVE  LET s == Append(d, e) IN
           /\ s \in Seq(Entry) /\ KeysOnce(s)
           /\ Len(s) = Len(d) + 1
           /\ KeysOf(s) = KeysOf(d) \cup {e.key}
           /\ DOMAIN s = DOMAIN d \cup {Len(d) + 1}
           /\ s[Len(d) + 1] = e
           /\ \A i \in DOMAIN d : s[i] = d[i] /\ i < Len(d) + 1
<1> DEFINE s == Append(d, e)
           n == Len(d) + 1
<1>1. /\ s \in Seq(Entry) /\ Len(s) = n
      /\ DOMAIN s = DOMAIN d \cup {n} /\ s[n] = e /\ n \notin DOMAIN d
      /\ \A i \in DOMAIN d : s[i] = d[i] /\ i < n
  OBVIOUS
<1> HIDE DEF s, n
<1>2. KeysOf(s) = KeysOf(d) \cup {e.key}
  BY <1>1 DEF KeysOf
<1>3. KeysOnce(s)
  BY <1>1 DEF KeysOnce, KeysOf
<1> QED BY <1>1, <1>2, <1>3 DEF s, n

(* As many keys as entries. *)
LEMMA KeysCounted ==
    ASSUME NEW d \in Seq(Entry), KeysOnce(d)
    PROVE  Cardinality(KeysOf(d)) = Len(d)
<1> DEFINE f == [i \in 1 .. Len(d) |-> d[i].key]
<1>1. DOMAIN d = 1 .. Len(d) /\ Len(d) \in Nat
  OBVIOUS
<1>2. f \in Bijection(1 .. Len(d), KeysOf(d))
  BY <1>1 DEF Bijection, Injection, Surjection, IsInjective, KeysOf, KeysOnce
<1> HIDE DEF f
<1>3. Cardinality(KeysOf(d)) = Cardinality(1 .. Len(d))
  BY <1>1, <1>2, FS_Interval, FS_Bijection DEF ExistsBijection
<1> QED BY <1>1, <1>3, FS_Interval

----------------------------------------------------------------------------
(* What they do to the map, and to the order. *)

LEMMA SameEntry ==
    ASSUME NEW d \in Seq(Entry), KeysOnce(d), NEW s, NEW k, Thinned(s, d, k),
           NEW x \in KeysOf(s)
    PROVE  EntryOf(s, x) = EntryOf(d, x)
<1>1. PICK i \in DOMAIN s : s[i].key = x
  BY DEF KeysOf
<1>2. PICK a \in DOMAIN d : s[i] = d[a]
  BY DEF Thinned
<1>3. EntryOf(s, x) = s[i]
  BY <1>1, EntryAt DEF Thinned
<1>4. EntryOf(d, x) = d[a]
  BY <1>1, <1>2, EntryAt
<1> QED BY <1>2, <1>3, <1>4

LEMMA EntriesThinned ==
    ASSUME NEW d \in Seq(Entry), KeysOnce(d), NEW s, NEW k, Thinned(s, d, k)
    PROVE  Entries(s) = Restrict(Entries(d), DOMAIN Entries(d) \ {k})
<1>1. KeysOf(s) = KeysOf(d) \ {k}
  BY DEF Thinned
<1>2. \A x \in KeysOf(s) : EntryOf(s, x) = EntryOf(d, x)
  BY SameEntry
<1> QED BY <1>1, <1>2 DEF Entries, Restrict

LEMMA OrderThinned ==
    ASSUME NEW d \in Seq(Entry), NEW used, Ordered(d, used), NEW s, NEW k, Thinned(s, d, k)
    PROVE  Ordered(s, used)
  BY DEF Thinned, Ordered

(* The use of k, in since. *)
UseIn(used, k) == [x \in Keys |-> IF x = k THEN {} ELSE used[x] \cup {k}]

(* longer is d with e as the entry of k, after all others. *)
AtTheEnd(longer, d, k, e) ==
    /\ longer \in Seq(Entry) /\ KeysOnce(longer)
    /\ Len(longer) = IF k \in KeysOf(d) THEN Len(d) ELSE Len(d) + 1
    /\ KeysOf(longer) = KeysOf(d) \cup {k}
    /\ Entries(longer) = [x \in KeysOf(d) \cup {k} |->
                             IF x = k THEN [value |-> e.value, left |-> e.left]
                             ELSE Entries(d)[x]]
    /\ \A i \in DOMAIN longer : i < Len(longer) => longer[i].key # k

LEMMA LastEffect ==
    ASSUME NEW d \in Seq(Entry), KeysOnce(d), NEW k \in Keys,
           NEW e \in Entry, e.key = k,
           NEW used, Ordered(d, used)
    PROVE  /\ AtTheEnd(Append(Without(d, k), e), d, k, e)
           /\ Ordered(Append(Without(d, k), e), UseIn(used, k))
<1> DEFINE rest == Without(d, k)
           longer == Append(rest, e)
           n == Len(rest) + 1
<1>1. /\ Thinned(rest, d, k)
      /\ Len(rest) = IF k \in KeysOf(d) THEN Len(d) - 1 ELSE Len(d)
  BY WithoutEffect
<1>2. rest \in Seq(Entry) /\ KeysOnce(rest) /\ KeysOf(rest) = KeysOf(d) \ {k}
  BY <1>1 DEF Thinned
<1> HIDE DEF rest
<1>3. /\ longer \in Seq(Entry) /\ KeysOnce(longer)
      /\ Len(longer) = n
      /\ KeysOf(longer) = KeysOf(rest) \cup {k}
      /\ DOMAIN longer = DOMAIN rest \cup {n}
      /\ longer[n] = e
      /\ \A i \in DOMAIN rest : longer[i] = rest[i] /\ i < n
  BY <1>2, AppendEffect
<1> HIDE DEF longer
<1>4. Len(rest) \in Nat /\ Len(d) \in Nat
  BY <1>2
<1>5. Len(longer) = IF k \in KeysOf(d) THEN Len(d) ELSE Len(d) + 1
  <2>1. CASE k \in KeysOf(d)
    BY <1>1, <1>3, <1>4, <2>1
  <2>2. CASE k \notin KeysOf(d)
    BY <1>1, <1>3, <1>4, <2>2
  <2> QED BY <2>1, <2>2
<1>6. \A i \in DOMAIN rest : rest[i].key # k
  BY <1>2 DEF KeysOf
<1>7. EntryOf(longer, k) = e
  <2>1. n \in DOMAIN longer /\ longer[n] = e /\ longer[n].key = k
    BY <1>3
  <2> HIDE DEF n
  <2>2. EntryOf(longer, longer[n].key) = longer[n]
    BY <1>3, <2>1, EntryAt
  <2> QED BY <2>1, <2>2
<1>8. ASSUME NEW x \in KeysOf(rest) PROVE EntryOf(longer, x) = EntryOf(d, x)
  <2>1. PICK i \in DOMAIN rest : rest[i].key = x
    BY DEF KeysOf
  <2>2. EntryOf(rest, x) = rest[i]
    BY <1>2, <2>1, EntryAt
  <2>3. i \in DOMAIN longer /\ longer[i] = rest[i]
    BY <1>3
  <2>4. EntryOf(longer, x) = longer[i]
    BY <1>3, <2>1, <2>3, EntryAt
  <2> QED BY <1>1, <2>2, <2>3, <2>4, SameEntry
<1>9. Entries(longer) = [x \in KeysOf(d) \cup {k} |->
                            IF x = k THEN [value |-> e.value, left |-> e.left]
                            ELSE Entries(d)[x]]
  BY <1>2, <1>3, <1>7, <1>8 DEF Entries
<1>10. \A i \in DOMAIN longer : i < n => longer[i].key # k
  BY <1>3, <1>4, <1>6
<1>11. Ordered(longer, UseIn(used, k))
  <2>1. Ordered(rest, used)
    BY <1>1, OrderThinned
  <2> SUFFICES ASSUME NEW i \in DOMAIN longer, NEW j \in DOMAIN longer, i < j
               PROVE  longer[j].key \in UseIn(used, k)[longer[i].key]
    BY DEF Ordered
  <2>2. i \in DOMAIN rest
    BY <1>3, <1>4
  <2>3. rest[i] = longer[i] /\ longer[i].key # k /\ longer[i].key \in Keys
    <3>1. rest[i] \in Entry
      BY <1>2, <2>2
    <3> QED BY <1>3, <1>6, <2>2, <3>1 DEF Entry
  <2>4. UseIn(used, k)[longer[i].key] = used[longer[i].key] \cup {k}
    BY <2>3 DEF UseIn
  <2>5. CASE j = n
    BY <1>3, <2>4, <2>5
  <2>6. CASE j \in DOMAIN rest
    <3>1. longer[j] = rest[j]
      BY <1>3, <2>6
    <3>2. rest[j].key \in used[rest[i].key]
      BY <2>1, <2>2, <2>6 DEF Ordered
    <3> QED BY <2>3, <2>4, <3>1, <3>2
  <2> QED BY <1>3, <2>5, <2>6
<1>12. AtTheEnd(longer, d, k, e)
  BY <1>2, <1>3, <1>5, <1>9, <1>10 DEF AtTheEnd
<1> QED BY <1>11, <1>12 DEF rest, longer

LEMMA SizeType == MaxSize \in Nat \ {0} /\ MaxSize <= Cardinality(Keys)
  BY FinitelyManyKeys, FS_CardinalityType, Bounds

(* Once overtaken by enough keys, always. *)
LEMMA StillEnough ==
    ASSUME NEW S, NEW T \in SUBSET Keys, S \subseteq T, MaxSize <= Cardinality(S)
    PROVE  MaxSize <= Cardinality(T)
<1>1. IsFiniteSet(T)
  BY FinitelyManyKeys, FS_Subset
<1>2. /\ Cardinality(S) <= Cardinality(T)
      /\ Cardinality(S) \in Nat /\ Cardinality(T) \in Nat
  BY <1>1, FS_Subset, FS_CardinalityType
<1> QED BY <1>2, SizeType

(* The two modules count alike. *)
LEMMA SameCardinality == \A S : Abstract!Cardinality(S) = Cardinality(S)
  BY Zenon DEF Abstract!Cardinality, Cardinality, Abstract!IsFiniteSet, IsFiniteSet

(* set: the map is one that Stored allows, and what goes has been          *)
(* overtaken.                                                              *)
LEMMA TrimmedEffect ==
    ASSUME Shape, Ordered(data, since), Overtaken,
           NEW k \in Keys, NEW value \in Values,
           data' = Trimmed(data, k, [key |-> k, value |-> value, left |-> TTL]),
           since' = UseIn(since, k)
    PROVE  /\ CacheInv'
           /\ Entries(data') \in Abstract!Stored(Entries(data), k, value)
<1> DEFINE e == [key |-> k, value |-> value, left |-> TTL]
           longer == Append(Without(data, k), e)
           full == [x \in KeysOf(data) \cup {k} |->
                       IF x = k THEN [value |-> value, left |-> TTL]
                       ELSE Entries(data)[x]]
<1>1. e \in Entry /\ e.key = k /\ e.value = value /\ e.left = TTL
  BY Bounds DEF Entry
<1>2. data' = IF Len(longer) > MaxSize THEN Tail(longer) ELSE longer
  BY DEF Trimmed
<1> HIDE DEF e
<1>3. /\ longer \in Seq(Entry) /\ KeysOnce(longer)
      /\ Len(longer) = IF k \in KeysOf(data) THEN Len(data) ELSE Len(data) + 1
      /\ KeysOf(longer) = KeysOf(data) \cup {k}
      /\ Entries(longer) = full
      /\ \A i \in DOMAIN longer : i < Len(longer) => longer[i].key # k
      /\ Ordered(longer, since')
  <2>1. AtTheEnd(longer, data, k, e) /\ Ordered(longer, UseIn(since, k))
    BY <1>1, LastEffect DEF Shape
  <2> HIDE DEF longer
  <2> QED BY <1>1, <2>1 DEF AtTheEnd
<1> HIDE DEF longer
<1>4. MaxSize \in Nat \ {0} /\ Len(data) \in Nat /\ Len(longer) \in Nat
  BY <1>3, SizeType DEF Shape
<1>5. Len(longer) <= MaxSize + 1
  BY <1>3, <1>4 DEF Shape
<1>6. since' \in [Keys -> SUBSET Keys]
  BY DEF UseIn, Shape
<1>7. ASSUME NEW x \in Keys \ KeysOf(longer) PROVE MaxSize <= Cardinality(since'[x])
  <2>1. x \in Keys \ KeysOf(data) /\ x # k
    BY <1>3, <1>7
  <2>2. since[x] \subseteq since'[x] /\ since'[x] \subseteq Keys
    BY <1>6, <2>1 DEF UseIn
  <2>3. MaxSize <= Cardinality(since[x])
    BY <2>1 DEF Overtaken
  <2> QED BY <2>2, <2>3, StillEnough
<1>8. /\ Entries(longer) = full /\ DOMAIN full = KeysOf(longer)
      /\ Cardinality(DOMAIN full) = Len(longer)
      /\ DOMAIN Entries(data) = KeysOf(data)
  BY <1>3, KeysCounted DEF Entries
<1>9. Abstract!Stored(Entries(data), k, value) =
        IF Cardinality(DOMAIN full) <= MaxSize THEN {full}
        ELSE {Restrict(full, DOMAIN full \ {victim}) : victim \in KeysOf(data) \ {k}}
  <2> DEFINE m == Entries(data)
  <2>1. full = [x \in DOMAIN m \cup {k} |->
                  IF x = k THEN [value |-> value, left |-> TTL] ELSE m[x]]
    BY <1>8
  <2>2. DOMAIN m = KeysOf(data)
    BY <1>8
  <2> HIDE DEF m, full
  <2>3. Abstract!Stored(m, k, value) =
          IF Cardinality(DOMAIN full) <= MaxSize THEN {full}
          ELSE {Abstract!Restrict(full, DOMAIN full \ {victim}) : victim \in DOMAIN m \ {k}}
    BY <2>1, SameCardinality DEF Abstract!Stored
  <2>4. \A S : Abstract!Restrict(full, S) = Restrict(full, S)
    BY DEF Abstract!Restrict, Restrict
  <2> QED BY <2>2, <2>3, <2>4 DEF m
<1> HIDE DEF full
<1>10. CASE Len(longer) <= MaxSize
  <2>1. data' = longer
    BY <1>2, <1>4, <1>10
  <2>2. Entries(data') \in Abstract!Stored(Entries(data), k, value)
    BY <1>8, <1>9, <1>10, <2>1
  <2> QED BY <1>3, <1>6, <1>7, <1>10, <2>1, <2>2 DEF CacheInv, Shape, Overtaken
<1>11. CASE ~(Len(longer) <= MaxSize)
  <2> DEFINE v == longer[1].key
  <2>1. data' = Tail(longer) /\ longer # <<>> /\ Len(longer) = MaxSize + 1 /\ 1 < Len(longer)
    BY <1>2, <1>3, <1>4, <1>5, <1>11
  <2>2. /\ Thinned(data', longer, v) /\ Len(data') = MaxSize
        /\ 1 \in DOMAIN longer
    <3>1. /\ Thinned(Tail(longer), longer, longer[1].key)
          /\ Len(Tail(longer)) = Len(longer) - 1
          /\ 1 \in DOMAIN longer
      BY <1>3, <2>1, TailEffect
    <3>2. Len(data') = MaxSize
      BY <1>4, <2>1, <3>1
    <3> QED BY <2>1, <3>1, <3>2
  <2>3. v \in KeysOf(longer) /\ v # k /\ v \in Keys
    <3>1. longer[1] \in Entry
      BY <1>3, <2>2
    <3> QED BY <1>3, <2>1, <2>2, <3>1 DEF KeysOf, Entry
  <2>4. v \in KeysOf(data) \ {k}
    BY <1>3, <2>3
  <2>5. \A j \in DOMAIN longer : 1 < j => longer[j].key \in since'[v]
    BY <1>3, <2>2 DEF Ordered
  <2>6. KeysOf(data') \subseteq since'[v]
    <3> SUFFICES ASSUME NEW x \in KeysOf(longer) \ {v} PROVE x \in since'[v]
      BY <2>2 DEF Thinned
    <3>1. PICK j \in DOMAIN longer : longer[j].key = x
      BY DEF KeysOf
    <3>2. j # 1 /\ j \in 1 .. Len(longer)
      BY <1>3, <3>1
    <3> QED BY <1>4, <2>5, <3>1, <3>2
  <2> HIDE DEF v
  <2>7. /\ data' \in Seq(Entry) /\ KeysOnce(data')
        /\ KeysOf(data') = KeysOf(longer) \ {v}
    BY <2>2 DEF Thinned
  <2>8. Ordered(data', since')
    BY <1>3, <2>2, OrderThinned
  <2>9. MaxSize <= Cardinality(since'[v])
    <3>1. since'[v] \subseteq Keys
      BY <1>6, <2>3
    <3>2. Cardinality(KeysOf(data')) = MaxSize
      BY <2>2, <2>7, KeysCounted
    <3> QED BY <1>4, <2>6, <3>1, <3>2, StillEnough
  <2>10. \A x \in Keys \ KeysOf(data') : MaxSize <= Cardinality(since'[x])
    BY <1>7, <2>7, <2>9
  <2>11. CacheInv'
    BY <1>4, <1>6, <2>2, <2>7, <2>8, <2>10 DEF CacheInv, Shape, Overtaken
  <2>12. Entries(data') = Restrict(full, DOMAIN full \ {v})
    BY <1>3, <1>8, <2>2, EntriesThinned
  <2>13. ~(Cardinality(DOMAIN full) <= MaxSize)
    BY <1>8, <1>11
  <2> QED BY <1>9, <2>4, <2>11, <2>12, <2>13
<1> QED BY <1>10, <1>11

----------------------------------------------------------------------------
(* The invariant and the refinement, operation by operation. *)

LEMMA Start == Init => CacheInv /\ Abstract!Init
<1> SUFFICES ASSUME Init PROVE CacheInv /\ Abstract!Init
  OBVIOUS
<1>1. data = <<>> /\ answer = None /\ since = [k \in Keys |-> Keys]
  BY DEF Init
<1>2. data \in Seq(Entry) /\ Len(data) = 0 /\ DOMAIN data = {}
  BY <1>1
<1>3. Shape /\ Ordered(data, since) /\ Overtaken
  BY <1>1, <1>2, SizeType DEF Shape, Ordered, Overtaken, KeysOnce
<1>4. Entries(data) = [k \in {} |-> 0]
  BY <1>2 DEF Entries, KeysOf
<1> QED BY <1>1, <1>3, <1>4 DEF CacheInv, Abstract!Init, Abstract!EmptyMap

(* A get that finds its entry. *)
LEMMA HitStep ==
    ASSUME CacheInv, NEW k \in Keys, Hit(k)
    PROVE  CacheInv' /\ Abstract!Get(k)
<1> DEFINE e == EntryOf(data, k)
           m == Entries(data)
<1>1. /\ k \in KeysOf(data) /\ e.left > 0
      /\ answer' = e.value
      /\ data' = Append(Without(data, k), e)
      /\ since' = UseIn(since, k)
  BY DEF Hit, UseOf, UseIn
<1>2. e \in Entry /\ e.key = k
  BY <1>1, EntriesThere DEF CacheInv, Shape
<1>3. DOMAIN m = KeysOf(data) /\ m[k] = [value |-> e.value, left |-> e.left]
  BY <1>1 DEF Entries
<1>4. \A x \in Keys : since[x] \subseteq Keys /\ (x # k => since[x] \subseteq since'[x])
  BY <1>1 DEF CacheInv, Shape, UseIn
<1> HIDE DEF e
<1>5. AtTheEnd(data', data, k, e) /\ Ordered(data', since')
  BY <1>1, <1>2, LastEffect DEF CacheInv, Shape
<1>6. since' \in [Keys -> SUBSET Keys]
  BY <1>1 DEF CacheInv, Shape, UseIn
<1>7. KeysOf(data') = KeysOf(data) /\ Len(data') = Len(data)
  BY <1>1, <1>5 DEF AtTheEnd
<1>8. Shape'
  BY <1>5, <1>6, <1>7 DEF AtTheEnd, Shape, CacheInv
<1>9. Overtaken'
  <2> SUFFICES ASSUME NEW x \in Keys \ KeysOf(data)
               PROVE  MaxSize <= Cardinality(since'[x])
    BY <1>7 DEF Overtaken
  <2>1. since[x] \subseteq since'[x] /\ since'[x] \subseteq Keys
    BY <1>1, <1>4, <1>6
  <2>2. MaxSize <= Cardinality(since[x])
    BY DEF CacheInv, Overtaken
  <2> QED BY <2>1, <2>2, StillEnough
<1>10. Entries(data') = m
  <2>1. Entries(data') = [x \in KeysOf(data) \cup {k} |->
                             IF x = k THEN [value |-> e.value, left |-> e.left] ELSE m[x]]
    BY <1>5 DEF AtTheEnd
  <2>2. m = [x \in KeysOf(data) |-> m[x]]
    BY <1>3 DEF Entries
  <2> HIDE DEF m
  <2> QED BY <1>1, <1>3, <2>1, <2>2
<1> HIDE DEF m
<1>11. Abstract!Live(m, k) /\ m[k].value = e.value
  BY <1>1, <1>3 DEF Abstract!Live
<1>12. Abstract!Get(k)
  BY <1>1, <1>10, <1>11 DEF Abstract!Get, Abstract!Fetched, m
<1> QED BY <1>5, <1>8, <1>9, <1>12 DEF CacheInv

(* A get that finds its entry expired. *)
LEMMA ExpiredStep ==
    ASSUME CacheInv, NEW k \in Keys, Expired(k)
    PROVE  CacheInv' /\ Abstract!Get(k)
<1> DEFINE m == Entries(data)
<1>1. /\ k \in KeysOf(data) /\ EntryOf(data, k).left = 0
      /\ answer' = None
      /\ data' = Without(data, k)
      /\ since' = [since EXCEPT ![k] = Keys]
  BY DEF Expired
<1>2. /\ Thinned(data', data, k)
      /\ Len(data') = Len(data) - 1
  BY <1>1, WithoutEffect DEF CacheInv, Shape
<1>3. /\ data' \in Seq(Entry) /\ KeysOnce(data')
      /\ KeysOf(data') = KeysOf(data) \ {k}
      /\ \A i \in DOMAIN data' : data'[i].key # k /\ data'[i] \in Entry
  <2>1. /\ data' \in Seq(Entry) /\ KeysOnce(data')
        /\ KeysOf(data') = KeysOf(data) \ {k}
    BY <1>2 DEF Thinned
  <2>2. \A i \in DOMAIN data' : data'[i].key \in KeysOf(data')
    BY DEF KeysOf
  <2>3. \A i \in DOMAIN data' : data'[i] \in Entry
    BY <2>1
  <2> QED BY <2>1, <2>2, <2>3
<1>4. Len(data') <= MaxSize
  <2>1. Len(data) \in Nat /\ Len(data) <= MaxSize
    BY DEF CacheInv, Shape
  <2> QED BY <1>2, <2>1, SizeType
<1>5. since' \in [Keys -> SUBSET Keys]
  BY <1>1 DEF CacheInv, Shape
<1>6. Ordered(data', since')
  <2>1. Ordered(data', since)
    BY <1>2, OrderThinned DEF CacheInv, Shape
  <2>2. \A i \in DOMAIN data' : since'[data'[i].key] = since[data'[i].key]
    BY <1>1, <1>3 DEF Entry, CacheInv, Shape
  <2> QED BY <2>1, <2>2 DEF Ordered
<1>7. Overtaken'
  <2> SUFFICES ASSUME NEW x \in Keys \ KeysOf(data')
               PROVE  MaxSize <= Cardinality(since'[x])
    BY DEF Overtaken
  <2>1. CASE x = k
    BY <1>1, <2>1, SizeType DEF CacheInv, Shape
  <2>2. CASE x # k
    BY <1>1, <1>3, <2>2 DEF CacheInv, Shape, Overtaken
  <2> QED BY <2>1, <2>2
<1>8. Entries(data') = Restrict(m, DOMAIN m \ {k})
  BY <1>2, EntriesThinned DEF CacheInv, Shape
<1>9. m[k].left = 0
  BY <1>1 DEF Entries
<1> HIDE DEF m
<1>10. ~Abstract!Live(m, k)
  BY <1>9 DEF Abstract!Live
<1>11. Abstract!Get(k)
  BY <1>1, <1>8, <1>10 DEF Abstract!Get, Abstract!Fetched, Abstract!Restrict, Restrict, m
<1> QED BY <1>3, <1>4, <1>5, <1>6, <1>7, <1>11 DEF CacheInv, Shape

(* A get that finds none. *)
LEMMA MissStep ==
    ASSUME CacheInv, NEW k \in Keys, Miss(k)
    PROVE  CacheInv' /\ Abstract!Get(k)
<1> DEFINE m == Entries(data)
<1>1. k \notin KeysOf(data) /\ answer' = None /\ data' = data /\ since' = since
  BY DEF Miss
<1>2. CacheInv'
  BY <1>1 DEF CacheInv, Shape, Overtaken
<1>3. DOMAIN m = KeysOf(data) /\ m = [x \in DOMAIN m \ {k} |-> m[x]]
  BY <1>1 DEF Entries
<1>4. Entries(data') = m
  BY <1>1
<1> HIDE DEF m
<1>5. ~Abstract!Live(m, k)
  BY <1>1, <1>3 DEF Abstract!Live
<1>6. Abstract!Get(k)
  BY <1>1, <1>3, <1>4, <1>5 DEF Abstract!Get, Abstract!Fetched, Abstract!Restrict, m
<1> QED BY <1>2, <1>6

LEMMA SetStep ==
    ASSUME CacheInv, NEW k \in Keys, NEW value \in Values, Set(k, value)
    PROVE  CacheInv' /\ Abstract!Set(k, value)
<1>1. /\ data' = Trimmed(data, k, [key |-> k, value |-> value, left |-> TTL])
      /\ since' = UseIn(since, k)
      /\ answer' = answer
  BY DEF Set, UseOf, UseIn
<1>2. CacheInv' /\ Entries(data') \in Abstract!Stored(Entries(data), k, value)
  BY <1>1, TrimmedEffect DEF CacheInv
<1> QED BY <1>1, <1>2 DEF Abstract!Set

LEMMA ClearStep ==
    ASSUME CacheInv, Clear
    PROVE  CacheInv' /\ Abstract!Clear
<1>1. data' = <<>> /\ since' = [k \in Keys |-> Keys] /\ answer' = answer
  BY DEF Clear
<1>2. data' \in Seq(Entry) /\ Len(data') = 0 /\ DOMAIN data' = {}
  BY <1>1
<1>3. Shape' /\ Ordered(data', since') /\ Overtaken'
  BY <1>1, <1>2, SizeType DEF Shape, Ordered, Overtaken, KeysOnce
<1>4. Entries(data') = [k \in {} |-> 0]
  BY <1>2 DEF Entries, KeysOf
<1> QED BY <1>1, <1>3, <1>4 DEF CacheInv, Abstract!Clear, Abstract!EmptyMap

LEMMA TickStep ==
    ASSUME CacheInv, Tick
    PROVE  CacheInv' /\ Abstract!Tick
<1> DEFINE older(e) == [e EXCEPT !.left = IF @ > 0 THEN @ - 1 ELSE 0]
           m == Entries(data)
<1>1. data' = [i \in DOMAIN data |-> older(data[i])] /\ answer' = answer /\ since' = since
  BY DEF Tick
<1>2. data \in Seq(Entry) /\ KeysOnce(data) /\ Len(data) <= MaxSize
  BY DEF CacheInv, Shape
<1>3. ASSUME NEW e \in Entry
      PROVE  /\ older(e) \in Entry /\ older(e).key = e.key /\ older(e).value = e.value
             /\ older(e).left = IF e.left > 0 THEN e.left - 1 ELSE 0
  BY Bounds DEF Entry
<1> HIDE DEF older
<1>4. \A i \in DOMAIN data : data[i] \in Entry
  BY <1>2
<1>5. /\ data' \in Seq(Entry) /\ Len(data') = Len(data) /\ DOMAIN data' = DOMAIN data
      /\ \A i \in DOMAIN data : data'[i] = older(data[i])
  BY <1>1, <1>2, <1>3, <1>4
<1>6. \A i \in DOMAIN data : data'[i].key = data[i].key
  BY <1>3, <1>4, <1>5
<1>7. KeysOnce(data') /\ KeysOf(data') = KeysOf(data)
  BY <1>2, <1>5, <1>6 DEF KeysOnce, KeysOf
<1>8. Ordered(data', since')
  BY <1>1, <1>5, <1>6 DEF CacheInv, Ordered
<1>9. CacheInv'
  BY <1>1, <1>2, <1>5, <1>7, <1>8 DEF CacheInv, Shape, Overtaken
<1>10. ASSUME NEW k \in KeysOf(data)
       PROVE  /\ EntryOf(data', k).value = EntryOf(data, k).value
              /\ EntryOf(data', k).left = IF EntryOf(data, k).left > 0
                                          THEN EntryOf(data, k).left - 1 ELSE 0
  <2>1. PICK i \in DOMAIN data : data[i].key = k
    BY DEF KeysOf
  <2>2. EntryOf(data, k) = data[i]
    BY <1>2, <2>1, EntryAt
  <2>3. EntryOf(data', k) = data'[i]
    BY <1>5, <1>6, <1>7, <2>1, EntryAt
  <2> QED BY <1>3, <1>4, <1>5, <2>1, <2>2, <2>3
<1>11. Entries(data') = Abstract!Aged(m)
  <2>1. /\ DOMAIN m = KeysOf(data)
        /\ \A k \in KeysOf(data) : m[k] = [value |-> EntryOf(data, k).value,
                                           left  |-> EntryOf(data, k).left]
    BY DEF Entries
  <2> HIDE DEF m
  <2> QED BY <1>7, <1>10, <2>1 DEF Entries, Abstract!Aged
<1> QED BY <1>1, <1>9, <1>11 DEF Abstract!Tick

(* Each step keeps CacheInv and is a step of BoundedCache. *)
LEMMA CacheStep ==
    ASSUME CacheInv, [Next]_vars
    PROVE  CacheInv' /\ [Abstract!Next]_<<Entries(data), answer>>
<1>1. ASSUME NEW k \in Keys, Get(k) PROVE CacheInv' /\ Abstract!Get(k)
  BY <1>1, HitStep, ExpiredStep, MissStep DEF Get
<1>2. ASSUME NEW k \in Keys, NEW value \in Values, Set(k, value)
      PROVE  CacheInv' /\ Abstract!Set(k, value)
  BY <1>2, SetStep
<1>3. CASE Clear
  BY <1>3, ClearStep DEF Abstract!Next
<1>4. CASE Tick
  BY <1>4, TickStep DEF Abstract!Next
<1>5. CASE UNCHANGED vars
  BY <1>5 DEF vars, CacheInv, Shape, Ordered, Overtaken
<1> QED BY <1>1, <1>2, <1>3, <1>4, <1>5 DEF Next, Abstract!Next

----------------------------------------------------------------------------
(* The theorems. *)

LEMMA CacheInvariant == Spec => []CacheInv
<1>1. Init => CacheInv
  BY Start
<1>2. CacheInv /\ [Next]_vars => CacheInv'
  BY CacheStep
<1> QED BY <1>1, <1>2, PTL DEF Spec

(* What TTLCache.set gives up is what was used longest ago (cache.py:43):  *)
(* an entry is gone before its time only if MaxSize other keys have been   *)
(* used since it was.                                                      *)
THEOREM OldestGoesFirst == Spec => []LeastRecentlyUsed
<1>1. CacheInv => LeastRecentlyUsed
  <2> SUFFICES ASSUME CacheInv, NEW k \in Keys, Cardinality(since[k]) < MaxSize
               PROVE  k \in KeysOf(data)
    BY DEF LeastRecentlyUsed
  <2>1. since[k] \in SUBSET Keys
    BY DEF CacheInv, Shape
  <2>2. Cardinality(since[k]) \in Nat
    BY <2>1, FinitelyManyKeys, FS_Subset, FS_CardinalityType
  <2>3. ~(MaxSize <= Cardinality(since[k]))
    BY <2>2, SizeType
  <2> QED BY <2>3 DEF CacheInv, Overtaken
<1> QED BY <1>1, CacheInvariant, PTL

(* The OrderedDict of cache.py is the bounded map that the middleware      *)
(* relies on: each get, set and clear does what BoundedCache says it may.  *)
THEOREM CacheIsABoundedMap == Spec => ImplementsBoundedCache
<1>1. Init => Abstract!Init
  BY Start
<1>2. CacheInv /\ [Next]_vars => [Abstract!Next]_<<Entries(data), answer>>
  BY CacheStep
<1> QED BY <1>1, <1>2, CacheInvariant, PTL DEF Spec, ImplementsBoundedCache, Abstract!Spec
=============================================================================
