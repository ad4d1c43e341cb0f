--------------------------- MODULE ServingProofs ---------------------------
(***************************************************************************)
(* Proofs about Serving for any number of workers, keys, readers, writers  *)
(* and writes, any cache size, TTL and build time.                         *)
(*                                                                         *)
(* StalenessBound is not inductive: what bounds an entry when it is stored *)
(* is the age of the build that made it.  SInv adds that bound for builds  *)
(* under way, and that no version is outdated before it is superseded.     *)
(***************************************************************************)
EXTENDS Serving, FiniteSetTheorems, TLAPS

CacheEntry == [value : Body, left : 0 .. TTL]

(* Entries and requests are well formed; how many entries there are is not *)
(* needed here.                                                            *)
Shapes ==
    /\ version \in Versions
    /\ DOMAIN cache = Workers
    /\ \A w \in Workers : \A k \in DOMAIN cache[w] : cache[w][k] \in CacheEntry
    /\ reader \in [Readers -> Requests]
    /\ writer \in [Writers -> Writes]
    /\ outdated \in [Versions -> 0 .. MaxOutdated]
    /\ cleared \in [Workers -> Versions]

NotYetSuperseded == \A v \in Versions : v >= version => outdated[v] = 0

BuildsBounded ==
    \A r \in Readers :
        reader[r].pc = "built" => outdated[reader[r].body.version] <= reader[r].age

EntriesBounded ==
    \A w \in Workers : \A k \in DOMAIN cache[w] :
        cache[w][k].left > 0 =>
            outdated[cache[w][k].value.version] <= BuildMax + TTL - cache[w][k].left

SInv == Shapes /\ NotYetSuperseded /\ BuildsBounded /\ EntriesBounded

(* For StaleOnlyIfSpanned: a build that has not been spanned by a clear    *)
(* has read everything its worker has cleared for.                         *)
WritesBehind ==
    /\ \A x \in Writers : writer[x].version <= version
    /\ \A w \in Workers : cleared[w] <= version

BuildsSpanned ==
    \A r \in Readers :
        reader[r].pc = "built" /\ reader[r].body.version < cleared[reader[r].worker]
            => reader[r].body.spanned

CInv == Shapes /\ WritesBehind /\ BuildsSpanned /\ StaleOnlyIfSpanned

----------------------------------------------------------------------------
(* What the operations of BoundedMap do to single entries. *)

LEMMA FetchedEntries ==
    ASSUME NEW m, NEW k
    PROVE  /\ DOMAIN Fetched(m, k) \subseteq DOMAIN m
           /\ \A x \in DOMAIN Fetched(m, k) : Fetched(m, k)[x] = m[x]
  BY DEF Fetched, Restrict

LEMMA StoredEntries ==
    ASSUME NEW m, NEW k, NEW value, NEW n \in Stored(m, k, value)
    PROVE  \A x \in DOMAIN n :
                \/ x \in DOMAIN m /\ n[x] = m[x]
                \/ x = k /\ n[x] = [value |-> value, left |-> TTL]
<1> DEFINE full == [x \in DOMAIN m \cup {k} |->
                        IF x = k THEN [value |-> value, left |-> TTL] ELSE m[x]]
<1>1. n = full \/ \E v \in DOMAIN m \ {k} : n = Restrict(full, DOMAIN full \ {v})
  BY DEF Stored
<1>2. DOMAIN n \subseteq DOMAIN full /\ \A x \in DOMAIN n : n[x] = full[x]
  BY <1>1 DEF Restrict
<1> QED BY <1>2

LEMMA AgedEntries ==
    ASSUME NEW m, \A k \in DOMAIN m : m[k] \in CacheEntry
    PROVE  /\ DOMAIN Aged(m) = DOMAIN m
           /\ \A k \in DOMAIN m :
                /\ Aged(m)[k] \in CacheEntry
                /\ Aged(m)[k].value = m[k].value
                /\ Aged(m)[k].left = IF m[k].left > 0 THEN m[k].left - 1 ELSE 0
<1>1. DOMAIN Aged(m) = DOMAIN m
  BY DEF Aged
<1>2. ASSUME NEW k \in DOMAIN m
      PROVE  /\ Aged(m)[k] \in CacheEntry
             /\ Aged(m)[k].value = m[k].value
             /\ Aged(m)[k].left = IF m[k].left > 0 THEN m[k].left - 1 ELSE 0
  <2>1. m[k] \in CacheEntry
    OBVIOUS
  <2>2. Aged(m)[k] = [m[k] EXCEPT !.left = IF m[k].left > 0 THEN m[k].left - 1 ELSE 0]
    BY DEF Aged
  <2> QED BY <2>1, <2>2, CacheSettings DEF CacheEntry
<1> QED BY <1>1, <1>2

----------------------------------------------------------------------------
(* Shapes, action by action. *)

LEMMA ShapesInit == ServingInit => Shapes
<1> SUFFICES ASSUME ServingInit PROVE Shapes
  OBVIOUS
<1>1. 0 \in Versions /\ 0 \in 0 .. BuildMax /\ 0 \in 0 .. MaxOutdated
  BY Bounds, CacheSettings DEF Versions, MaxOutdated
<1>2. NoBody \in Body
  BY <1>1 DEF NoBody, Body
<1>3. DOMAIN cache = Workers /\ \A w \in Workers : DOMAIN cache[w] = {}
  BY DEF ServingInit, EmptyMap
<1> QED BY <1>1, <1>2, <1>3 DEF ServingInit, Shapes, Request, Requests, Writes

(* A step that replaces one request, or one map, keeps the shapes. *)
LEMMA RequestReplaced ==
    ASSUME Shapes, NEW r \in Readers, NEW q \in Requests,
           reader' = [reader EXCEPT ![r] = q]
    PROVE  reader' \in [Readers -> Requests]
  BY DEF Shapes

LEMMA MapReplaced ==
    ASSUME Shapes, NEW w \in Workers, NEW m, \A k \in DOMAIN m : m[k] \in CacheEntry,
           cache' = [cache EXCEPT ![w] = m]
    PROVE  /\ DOMAIN cache' = Workers
           /\ \A v \in Workers : \A k \in DOMAIN cache'[v] : cache'[v][k] \in CacheEntry
  BY DEF Shapes

LEMMA ShapesStep ==
    ASSUME Shapes, [ServingNext]_servingVars
    PROVE  Shapes'
<1>0. 0 \in 0 .. BuildMax /\ NoBody \in Body
  BY Bounds DEF Versions, NoBody, Body
<1>1. ASSUME NEW r \in Readers, NEW w \in Workers, NEW k \in Keys, StartBuild(r, w, k)
      PROVE  Shapes'
  <2>1. \A x \in DOMAIN Fetched(cache[w], k) : Fetched(cache[w], k)[x] \in CacheEntry
    BY FetchedEntries DEF Shapes
  <2>2. Request("building", w, k, NoBody, 0) \in Requests
    BY <1>0 DEF Request, Requests
  <2>3. cache' = [cache EXCEPT ![w] = Fetched(cache[w], k)]
    BY <1>1 DEF StartBuild
  <2>4. reader' = [reader EXCEPT ![r] = Request("building", w, k, NoBody, 0)]
    BY <1>1 DEF StartBuild
  <2> QED BY <1>1, <2>1, <2>2, <2>3, <2>4, RequestReplaced, MapReplaced DEF StartBuild, Shapes
<1>2. ASSUME NEW r \in Readers, Read(r)
      PROVE  Shapes'
  <2> DEFINE q == Request("built", reader[r].worker, reader[r].key,
                          [version |-> version, spanned |-> FALSE], 0)
  <2>1. q \in Requests
    BY <1>0 DEF Request, Requests, Body, Shapes
  <2>2. reader' = [reader EXCEPT ![r] = q]
    BY <1>2 DEF Read
  <2> QED BY <1>2, <2>1, <2>2, RequestReplaced DEF Read, Shapes
<1>3. ASSUME NEW r \in Readers,
             reader' = [reader EXCEPT ![r] = Request("idle", @.worker, @.key, NoBody, 0)]
      PROVE  reader' \in [Readers -> Requests]
  <2> DEFINE q == Request("idle", reader[r].worker, reader[r].key, NoBody, 0)
  <2>1. q \in Requests
    BY <1>0 DEF Request, Requests, Shapes
  <2> QED BY <1>3, <2>1, RequestReplaced
<1>4. ASSUME NEW r \in Readers, Respond(r)
      PROVE  Shapes'
  <2>1. PICK m \in Stored(cache[reader[r].worker], reader[r].key, reader[r].body) :
            cache' = [cache EXCEPT ![reader[r].worker] = m]
    BY <1>4 DEF Respond
  <2>2. reader[r].worker \in Workers /\ reader[r].body \in Body
    BY DEF Shapes, Requests
  <2>3. [value |-> reader[r].body, left |-> TTL] \in CacheEntry
    BY <2>2, CacheSettings DEF CacheEntry
  <2>4. \A x \in DOMAIN m : m[x] \in CacheEntry
    BY <2>2, <2>3, StoredEntries DEF Shapes
  <2> QED BY <1>3, <1>4, <2>1, <2>2, <2>4, MapReplaced DEF Respond, Shapes
<1>5. ASSUME NEW r \in Readers, BuildFails(r)
      PROVE  Shapes'
  BY <1>3, <1>5 DEF BuildFails, Shapes
<1>6. ASSUME NEW x \in Writers, NEW w \in Workers, Commit(x, w)
      PROVE  Shapes'
  <2>1. version + 1 \in Versions
    BY <1>6, Bounds DEF Commit, Shapes, Versions
  <2> QED BY <1>6, <2>1 DEF Commit, Shapes, Writes
<1>7. ASSUME NEW x \in Writers, ClearResponseCache(x)
      PROVE  Shapes'
  <2>1. writer[x].worker \in Workers /\ writer[x].version \in Versions
    BY DEF Shapes, Writes
  <2>2. \A k \in DOMAIN EmptyMap : EmptyMap[k] \in CacheEntry
    BY DEF EmptyMap
  <2>3. ASSUME NEW q \in Requests
        PROVE  [q EXCEPT !.body = [version |-> q.body.version, spanned |-> TRUE]] \in Requests
    BY DEF Requests, Body
  <2>4. reader' \in [Readers -> Requests]
    BY <1>7, <2>3 DEF ClearResponseCache, Shapes
  <2>5. cleared' \in [Workers -> Versions]
    BY <1>7, <2>1 DEF ClearResponseCache, Shapes
  <2>6. writer' \in [Writers -> Writes]
    BY <1>7 DEF ClearResponseCache, Shapes, Writes
  <2> QED BY <1>7, <2>1, <2>2, <2>4, <2>5, <2>6, MapReplaced DEF ClearResponseCache, Shapes
<1>8. ASSUME NEW x \in Writers, ClearSkipped(x) \/ NextWrite(x)
      PROVE  Shapes'
  BY <1>8 DEF ClearSkipped, NextWrite, Shapes, Writes
<1>9. ASSUME Tick
      PROVE  Shapes'
  <2>1. /\ DOMAIN cache' = Workers
        /\ \A v \in Workers : \A x \in DOMAIN cache'[v] : cache'[v][x] \in CacheEntry
    BY <1>9, AgedEntries DEF Tick, Shapes
  <2>2. ASSUME NEW r \in Readers, reader[r].pc = "built"
        PROVE  [reader[r] EXCEPT !.age = reader[r].age + 1] \in Requests
    BY <1>9, <2>2, Bounds DEF Tick, Shapes, Requests
  <2>3. reader' \in [Readers -> Requests]
    BY <1>9, <2>2 DEF Tick, Shapes
  <2>4. outdated' \in [Versions -> 0 .. MaxOutdated]
    BY <1>9, Bounds, CacheSettings DEF Tick, Shapes, MaxOutdated
  <2> QED BY <1>9, <2>1, <2>3, <2>4 DEF Tick, Shapes
<1>10. ASSUME UNCHANGED servingVars
       PROVE  Shapes'
  BY <1>10 DEF servingVars, Shapes
<1> QED BY <1>1, <1>2, <1>4, <1>5, <1>6, <1>7, <1>8, <1>9, <1>10 DEF ServingNext, BuildStep

----------------------------------------------------------------------------
(* How stale a response can be. *)

LEMMA StaleInit == ServingInit => SInv
<1> SUFFICES ASSUME ServingInit PROVE SInv
  OBVIOUS
<1>1. Shapes
  BY ShapesInit
<1>2. NotYetSuperseded
  BY DEF ServingInit, NotYetSuperseded
<1>3. BuildsBounded
  BY DEF ServingInit, BuildsBounded, Request
<1>4. EntriesBounded
  BY DEF ServingInit, EntriesBounded, EmptyMap
<1> QED BY <1>1, <1>2, <1>3, <1>4 DEF SInv

LEMMA StaleStep == SInv /\ [ServingNext]_servingVars => SInv'
<1> SUFFICES ASSUME SInv, [ServingNext]_servingVars PROVE SInv'
  OBVIOUS
<1>0. Shapes /\ Shapes'
  BY ShapesStep DEF SInv
<1>1. ASSUME NEW r \in Readers, NEW w \in Workers, NEW k \in Keys, StartBuild(r, w, k)
      PROVE  SInv'
  <2>1. BuildsBounded'
    BY <1>0, <1>1 DEF StartBuild, SInv, BuildsBounded, Shapes, Request
  <2>2. EntriesBounded'
    BY <1>0, <1>1, FetchedEntries DEF StartBuild, SInv, EntriesBounded, Shapes
  <2> QED BY <1>0, <1>1, <2>1, <2>2 DEF StartBuild, SInv, NotYetSuperseded
<1>2. ASSUME NEW r \in Readers, Read(r)
      PROVE  SInv'
  <2>1. outdated[version] = 0
    BY <1>0 DEF SInv, NotYetSuperseded, Shapes, Versions
  <2>2. BuildsBounded'
    BY <1>0, <1>2, <2>1 DEF Read, SInv, BuildsBounded, Shapes, Request
  <2> QED BY <1>0, <1>2, <2>2 DEF Read, SInv, NotYetSuperseded, EntriesBounded
<1>3. ASSUME NEW r \in Readers, Respond(r)
      PROVE  SInv'
  <2> DEFINE w == reader[r].worker
  <2>1. PICK m \in Stored(cache[w], reader[r].key, reader[r].body) :
            cache' = [cache EXCEPT ![w] = m]
    BY <1>3 DEF Respond
  <2>2. w \in Workers /\ reader[r].body \in Body /\ reader[r].age \in 0 .. BuildMax
    BY <1>0 DEF Shapes, Requests
  <2>3. outdated[reader[r].body.version] <= BuildMax
    BY <1>0, <1>3, <2>2, Bounds, CacheSettings
       DEF Respond, SInv, BuildsBounded, Shapes, Body, MaxOutdated
  <2>4. ASSUME NEW x \in DOMAIN m, m[x].left > 0
        PROVE  outdated[m[x].value.version] <= BuildMax + TTL - m[x].left
    <3>1. CASE x \in DOMAIN cache[w] /\ m[x] = cache[w][x]
      BY <2>2, <2>4, <3>1 DEF SInv, EntriesBounded
    <3>2. CASE m[x] = [value |-> reader[r].body, left |-> TTL]
      BY <1>0, <2>2, <2>3, <3>2, Bounds, CacheSettings DEF Shapes, Body, MaxOutdated
    <3> QED BY <3>1, <3>2, StoredEntries
  <2>5. EntriesBounded'
    BY <1>0, <1>3, <2>1, <2>2, <2>4 DEF Respond, SInv, EntriesBounded, Shapes
  <2>6. BuildsBounded'
    BY <1>0, <1>3 DEF Respond, SInv, BuildsBounded, Shapes, Request
  <2> QED BY <1>0, <1>3, <2>5, <2>6 DEF Respond, SInv, NotYetSuperseded
<1>4. ASSUME NEW r \in Readers, BuildFails(r)
      PROVE  SInv'
  <2>1. BuildsBounded'
    BY <1>0, <1>4 DEF BuildFails, SInv, BuildsBounded, Shapes, Request
  <2> QED BY <1>0, <1>4, <2>1 DEF BuildFails, SInv, NotYetSuperseded, EntriesBounded
<1>5. ASSUME NEW x \in Writers, NEW w \in Workers, Commit(x, w)
      PROVE  SInv'
  <2>1. NotYetSuperseded'
    BY <1>0, <1>5 DEF Commit, SInv, NotYetSuperseded, Shapes, Versions
  <2> QED BY <1>0, <1>5, <2>1 DEF Commit, SInv, BuildsBounded, EntriesBounded
<1>6. ASSUME NEW x \in Writers, ClearResponseCache(x)
      PROVE  SInv'
  <2>1. BuildsBounded'
    <3>1. ASSUME NEW r \in Readers
          PROVE  /\ reader'[r].pc = reader[r].pc
                 /\ reader'[r].age = reader[r].age
                 /\ reader'[r].body.version = reader[r].body.version
      BY <1>0, <1>6 DEF ClearResponseCache, Shapes, Requests, Body
    <3> QED BY <1>6, <3>1 DEF ClearResponseCache, SInv, BuildsBounded
  <2>2. EntriesBounded'
    BY <1>0, <1>6 DEF ClearResponseCache, SInv, EntriesBounded, Shapes, EmptyMap
  <2> QED BY <1>0, <1>6, <2>1, <2>2 DEF ClearResponseCache, SInv, NotYetSuperseded
<1>7. ASSUME NEW x \in Writers, ClearSkipped(x) \/ NextWrite(x)
      PROVE  SInv'
  BY <1>0, <1>7 DEF ClearSkipped, NextWrite, SInv, NotYetSuperseded, BuildsBounded,
                    EntriesBounded
<1>8. ASSUME Tick
      PROVE  SInv'
  <2>1. \A v \in Versions : outdated[v] \in Nat /\ outdated'[v] \in Nat
                            /\ outdated'[v] <= outdated[v] + 1
    BY <1>0, <1>8, Bounds, CacheSettings DEF Tick, Shapes, MaxOutdated
  <2>2. NotYetSuperseded'
    BY <1>0, <1>8 DEF Tick, SInv, NotYetSuperseded, Shapes, Versions
  <2>3. BuildsBounded'
    <3>1. ASSUME NEW r \in Readers, reader'[r].pc = "built"
          PROVE  outdated'[reader'[r].body.version] <= reader'[r].age
      <4>1. /\ reader[r] \in Requests
            /\ reader'[r] = IF reader[r].pc = "built"
                            THEN [reader[r] EXCEPT !.age = @ + 1]
                            ELSE reader[r]
        BY <1>0, <1>8 DEF Tick, Shapes
      <4>2. /\ reader[r].pc = "built"
            /\ reader'[r].age = reader[r].age + 1
            /\ reader'[r].body = reader[r].body
            /\ reader[r].body.version \in Versions
            /\ reader[r].age \in 0 .. BuildMax
        BY <3>1, <4>1 DEF Requests, Body
      <4>3. outdated[reader[r].body.version] <= reader[r].age
        BY <4>2 DEF SInv, BuildsBounded
      <4> QED BY <2>1, <4>2, <4>3, Bounds
    <3> QED BY <3>1 DEF BuildsBounded
  <2>4. EntriesBounded'
    <3>1. ASSUME NEW w \in Workers, NEW k \in DOMAIN cache'[w], cache'[w][k].left > 0
          PROVE  outdated'[cache'[w][k].value.version] <= BuildMax + TTL - cache'[w][k].left
      <4>1. cache'[w] = Aged(cache[w])
        BY <1>8 DEF Tick
      <4>2. /\ k \in DOMAIN cache[w]
            /\ cache[w][k] \in CacheEntry
            /\ cache'[w][k].value = cache[w][k].value
            /\ cache'[w][k].left = IF cache[w][k].left > 0 THEN cache[w][k].left - 1 ELSE 0
        BY <1>0, <4>1, AgedEntries DEF Shapes
      <4>3. /\ cache[w][k].left \in Nat
            /\ cache[w][k].left > 0
            /\ cache'[w][k].left = cache[w][k].left - 1
            /\ cache[w][k].value.version \in Versions
        BY <3>1, <4>2, CacheSettings DEF CacheEntry, Body
      <4>4. outdated[cache[w][k].value.version] <= BuildMax + TTL - cache[w][k].left
        BY <4>2, <4>3 DEF SInv, EntriesBounded
      <4> QED BY <2>1, <4>2, <4>3, <4>4, Bounds, CacheSettings
    <3> QED BY <3>1 DEF EntriesBounded
  <2> QED BY <1>0, <2>2, <2>3, <2>4 DEF SInv
<1>9. ASSUME UNCHANGED servingVars
      PROVE  SInv'
  BY <1>0, <1>9 DEF servingVars, SInv, NotYetSuperseded, BuildsBounded, EntriesBounded
<1> QED BY <1>1, <1>2, <1>3, <1>4, <1>5, <1>6, <1>7, <1>8, <1>9 DEF ServingNext, BuildStep

(* No worker ever serves a body that was superseded more than BuildMax     *)
(* plus the age of its entry ago, whatever clears are lost or late         *)
(* (cache.py:33, http.py:56-75).                                           *)
THEOREM NeverStalerThanTTL == ServingSpec => []StalenessBound
<1>1. SInv => StalenessBound
  BY DEF SInv, EntriesBounded, StalenessBound, Live
<1> QED BY StaleInit, StaleStep, <1>1, PTL DEF ServingSpec

----------------------------------------------------------------------------
(* What a worker can hold after it has cleared. *)

LEMMA SpannedInit == ServingInit => CInv
<1> SUFFICES ASSUME ServingInit PROVE CInv
  OBVIOUS
<1>1. WritesBehind
  BY DEF ServingInit, WritesBehind
<1>2. BuildsSpanned
  BY DEF ServingInit, BuildsSpanned, Request
<1>3. StaleOnlyIfSpanned
  BY DEF ServingInit, StaleOnlyIfSpanned, EmptyMap
<1> QED BY <1>1, <1>2, <1>3, ShapesInit DEF CInv

LEMMA SpannedStep == CInv /\ [ServingNext]_servingVars => CInv'
<1> SUFFICES ASSUME CInv, [ServingNext]_servingVars PROVE CInv'
  OBVIOUS
<1>0. Shapes /\ Shapes'
  BY ShapesStep DEF CInv
<1>1. ASSUME NEW r \in Readers, NEW w \in Workers, NEW k \in Keys, StartBuild(r, w, k)
      PROVE  CInv'
  <2>1. BuildsSpanned'
    BY <1>0, <1>1 DEF StartBuild, CInv, BuildsSpanned, Shapes, Request
  <2>2. StaleOnlyIfSpanned'
    BY <1>0, <1>1, FetchedEntries DEF StartBuild, CInv, StaleOnlyIfSpanned, Shapes
  <2> QED BY <1>0, <1>1, <2>1, <2>2 DEF StartBuild, CInv, WritesBehind
<1>2. ASSUME NEW r \in Readers, Read(r)
      PROVE  CInv'
  <2>1. ~(version < cleared[reader[r].worker])
    BY <1>0 DEF CInv, WritesBehind, Shapes, Requests, Versions
  <2>2. BuildsSpanned'
    BY <1>0, <1>2, <2>1 DEF Read, CInv, BuildsSpanned, Shapes, Request
  <2> QED BY <1>0, <1>2, <2>2 DEF Read, CInv, WritesBehind, StaleOnlyIfSpanned
<1>3. ASSUME NEW r \in Readers, Respond(r)
      PROVE  CInv'
  <2> DEFINE w == reader[r].worker
  <2>1. PICK m \in Stored(cache[w], reader[r].key, reader[r].body) :
            cache' = [cache EXCEPT ![w] = m]
    BY <1>3 DEF Respond
  <2>2. w \in Workers
    BY <1>0 DEF Shapes, Requests
  <2>3. ASSUME NEW x \in DOMAIN m, m[x].value.version < cleared[w]
        PROVE  m[x].value.spanned
    <3>1. CASE x \in DOMAIN cache[w] /\ m[x] = cache[w][x]
      BY <2>2, <2>3, <3>1 DEF CInv, StaleOnlyIfSpanned
    <3>2. CASE m[x] = [value |-> reader[r].body, left |-> TTL]
      BY <1>3, <2>3, <3>2 DEF Respond, CInv, BuildsSpanned
    <3> QED BY <3>1, <3>2, StoredEntries
  <2>4. StaleOnlyIfSpanned'
    BY <1>0, <1>3, <2>1, <2>2, <2>3 DEF Respond, CInv, StaleOnlyIfSpanned, Shapes
  <2>5. BuildsSpanned'
    BY <1>0, <1>3 DEF Respond, CInv, BuildsSpanned, Shapes, Request
  <2> QED BY <1>0, <1>3, <2>4, <2>5 DEF Respond, CInv, WritesBehind
<1>4. ASSUME NEW r \in Readers, BuildFails(r)
      PROVE  CInv'
  <2>1. BuildsSpanned'
    BY <1>0, <1>4 DEF BuildFails, CInv, BuildsSpanned, Shapes, Request
  <2> QED BY <1>0, <1>4, <2>1 DEF BuildFails, CInv, WritesBehind, StaleOnlyIfSpanned
<1>5. ASSUME NEW x \in Writers, NEW w \in Workers, Commit(x, w)
      PROVE  CInv'
  <2>1. WritesBehind'
    <3>1. version \in Nat /\ version' = version + 1 /\ cleared' = cleared
      BY <1>0, <1>5, Bounds DEF Commit, Shapes, Versions
    <3>2. \A y \in Writers : writer'[y].version = IF y = x THEN version + 1
                                                  ELSE writer[y].version
      BY <1>0, <1>5 DEF Commit, Shapes
    <3>3. /\ \A y \in Writers : writer[y].version \in Nat
          /\ \A v \in Workers : cleared[v] \in Nat
      <4>1. /\ \A y \in Writers : writer[y].version \in Versions
            /\ \A v \in Workers : cleared[v] \in Versions
        BY <1>0 DEF Shapes, Writes
      <4> QED BY <4>1, Bounds DEF Versions
    <3> QED BY <3>1, <3>2, <3>3 DEF CInv, WritesBehind
  <2> QED BY <1>0, <1>5, <2>1 DEF Commit, CInv, BuildsSpanned, StaleOnlyIfSpanned
<1>6. ASSUME NEW x \in Writers, ClearResponseCache(x)
      PROVE  CInv'
  <2> DEFINE w == writer[x].worker
  <2>1. w \in Workers
    BY <1>0 DEF Shapes, Writes
  <2>2. \A v \in Workers : v # w => cleared'[v] = cleared[v] /\ cache'[v] = cache[v]
    BY <1>0, <1>6 DEF ClearResponseCache, Shapes
  <2>3. WritesBehind'
    <3>1. \A y \in Writers : writer'[y].version = writer[y].version
      BY <1>0, <1>6 DEF ClearResponseCache, Shapes, Writes
    <3>2. cleared'[w] <= version
      BY <1>0, <1>6, <2>1 DEF ClearResponseCache, CInv, WritesBehind, Shapes
    <3> QED BY <1>6, <2>2, <3>1, <3>2 DEF ClearResponseCache, CInv, WritesBehind
  <2>4. BuildsSpanned'
    <3>1. ASSUME NEW r \in Readers, reader'[r].pc = "built",
                 reader'[r].body.version < cleared'[reader'[r].worker]
          PROVE  reader'[r].body.spanned
      <4>1. /\ reader[r] \in Requests
            /\ reader'[r] = IF reader[r].pc = "built" /\ reader[r].worker = w
                            THEN [reader[r] EXCEPT !.body =
                                    [version |-> reader[r].body.version, spanned |-> TRUE]]
                            ELSE reader[r]
        BY <1>0, <1>6 DEF ClearResponseCache, Shapes
      <4>2. CASE reader[r].pc = "built" /\ reader[r].worker = w
        BY <4>1, <4>2 DEF Requests
      <4>3. CASE ~(reader[r].pc = "built" /\ reader[r].worker = w)
        <5>1. reader'[r] = reader[r] /\ reader[r].worker # w /\ reader[r].worker \in Workers
          BY <3>1, <4>1, <4>3 DEF Requests
        <5> QED BY <2>2, <3>1, <5>1 DEF CInv, BuildsSpanned
      <4> QED BY <4>2, <4>3
    <3> QED BY <3>1 DEF BuildsSpanned
  <2>5. DOMAIN cache'[w] = {}
    BY <1>0, <1>6, <2>1 DEF ClearResponseCache, Shapes, EmptyMap
  <2>6. StaleOnlyIfSpanned'
    BY <2>2, <2>5 DEF CInv, StaleOnlyIfSpanned
  <2> QED BY <1>0, <2>3, <2>4, <2>6 DEF CInv
<1>7. ASSUME NEW x \in Writers, ClearSkipped(x) \/ NextWrite(x)
      PROVE  CInv'
  <2>1. \A y \in Writers : writer'[y].version = writer[y].version
    BY <1>0, <1>7 DEF ClearSkipped, NextWrite, Shapes, Writes
  <2> QED BY <1>0, <1>7, <2>1 DEF ClearSkipped, NextWrite, CInv, WritesBehind, BuildsSpanned,
                                  StaleOnlyIfSpanned
<1>8. ASSUME Tick
      PROVE  CInv'
  <2>1. \A r \in Readers : /\ reader'[r].pc = reader[r].pc
                           /\ reader'[r].worker = reader[r].worker
                           /\ reader'[r].body = reader[r].body
    BY <1>0, <1>8 DEF Tick, Shapes, Requests
  <2>2. \A w \in Workers : /\ DOMAIN cache'[w] = DOMAIN cache[w]
                           /\ \A k \in DOMAIN cache[w] :
                                cache'[w][k].value = cache[w][k].value
    BY <1>0, <1>8, AgedEntries DEF Tick, Shapes
  <2>3. BuildsSpanned'
    BY <1>8, <2>1 DEF Tick, CInv, BuildsSpanned
  <2>4. StaleOnlyIfSpanned'
    BY <1>8, <2>2 DEF Tick, CInv, StaleOnlyIfSpanned
  <2> QED BY <1>0, <1>8, <2>3, <2>4 DEF Tick, CInv, WritesBehind
<1>9. ASSUME UNCHANGED servingVars
      PROVE  CInv'
  BY <1>0, <1>9 DEF servingVars, CInv, WritesBehind, BuildsSpanned, StaleOnlyIfSpanned
<1> QED BY <1>1, <1>2, <1>3, <1>4, <1>5, <1>6, <1>7, <1>8, <1>9 DEF ServingNext, BuildStep

(* A worker holds a body older than a write it cleared its cache for only  *)
(* if the build that made the body was under way during the clear          *)
(* (http.py:66-73): no other interleaving of any number of readers and     *)
(* writers defeats the clear.                                              *)
THEOREM OnlySpannedBuildsAreStale == ServingSpec => []StaleOnlyIfSpanned
<1>1. CInv => StaleOnlyIfSpanned
  BY DEF CInv
<1> QED BY SpannedInit, SpannedStep, <1>1, PTL DEF ServingSpec

----------------------------------------------------------------------------
(* How much a worker holds. *)

Holds(m) ==
    /\ DOMAIN m \subseteq Keys
    /\ IsFiniteSet(DOMAIN m)
    /\ Cardinality(DOMAIN m) <= MaxSize

CachesHold == \A w \in Workers : Holds(cache[w])

LEMMA EmptyHolds == Holds(EmptyMap)
<1>1. DOMAIN EmptyMap = {}
  BY DEF EmptyMap
<1> QED BY <1>1, FS_EmptySet, CacheSettings DEF Holds

LEMMA FetchedHolds ==
    ASSUME NEW m, NEW k, Holds(m)
    PROVE  Holds(Fetched(m, k))
<1>1. DOMAIN Fetched(m, k) \in SUBSET DOMAIN m
  BY FetchedEntries
<1>2. /\ IsFiniteSet(DOMAIN Fetched(m, k))
      /\ Cardinality(DOMAIN Fetched(m, k)) <= Cardinality(DOMAIN m)
  BY <1>1, FS_Subset DEF Holds
<1>3. Cardinality(DOMAIN Fetched(m, k)) \in Nat /\ Cardinality(DOMAIN m) \in Nat
  BY <1>2, FS_CardinalityType DEF Holds
<1> QED BY <1>1, <1>2, <1>3, CacheSettings DEF Holds

(* One key more at most, and then one of the others goes. *)
LEMMA StoredHolds ==
    ASSUME NEW m, NEW k \in Keys, NEW value, Holds(m), NEW n \in Stored(m, k, value)
    PROVE  Holds(n)
<1> DEFINE full == [x \in DOMAIN m \cup {k} |->
                        IF x = k THEN [value |-> value, left |-> TTL] ELSE m[x]]
           D == DOMAIN m \cup {k}
<1>1. DOMAIN full = D
  OBVIOUS
<1>2. /\ IsFiniteSet(D) /\ Cardinality(D) \in Nat /\ D \subseteq Keys
      /\ Cardinality(D) <= MaxSize + 1
  <2>1. IsFiniteSet(D)
        /\ Cardinality(D) = IF k \in DOMAIN m THEN Cardinality(DOMAIN m)
                            ELSE Cardinality(DOMAIN m) + 1
    BY FS_AddElement DEF Holds
  <2>2. Cardinality(DOMAIN m) \in Nat /\ Cardinality(DOMAIN m) <= MaxSize
    BY FS_CardinalityType DEF Holds
  <2> HIDE DEF D
  <2>3. Cardinality(D) \in Nat /\ Cardinality(D) <= MaxSize + 1
    BY <2>1, <2>2, CacheSettings
  <2>4. D \subseteq Keys
    BY DEF D, Holds
  <2> QED BY <2>1, <2>3, <2>4
<1>3. CASE Cardinality(D) <= MaxSize
  <2>1. n = full
    BY <1>1, <1>3 DEF Stored
  <2> QED BY <1>1, <1>2, <1>3, <2>1 DEF Holds
<1>4. CASE ~(Cardinality(D) <= MaxSize)
  <2>1. PICK v \in DOMAIN m \ {k} : n = Restrict(full, DOMAIN full \ {v})
    BY <1>1, <1>4 DEF Stored
  <2>2. DOMAIN n = D \ {v} /\ v \in D
    BY <1>1, <2>1 DEF Restrict
  <2> HIDE DEF D, full
  <2>3. IsFiniteSet(D \ {v}) /\ Cardinality(D \ {v}) = Cardinality(D) - 1
    BY <1>2, <2>2, FS_RemoveElement
  <2> QED BY <1>2, <2>2, <2>3, CacheSettings DEF Holds
<1> QED BY <1>3, <1>4

LEMMA HoldsStep ==
    ASSUME Shapes, CachesHold, [ServingNext]_servingVars
    PROVE  CachesHold'
<1>1. ASSUME NEW r \in Readers, NEW w \in Workers, NEW k \in Keys, StartBuild(r, w, k)
      PROVE  CachesHold'
  <2>1. cache' = [cache EXCEPT ![w] = Fetched(cache[w], k)]
    BY <1>1 DEF StartBuild
  <2>2. Holds(Fetched(cache[w], k))
    BY FetchedHolds DEF CachesHold
  <2> QED BY <2>1, <2>2 DEF CachesHold, Shapes
<1>2. ASSUME NEW r \in Readers, Respond(r)
      PROVE  CachesHold'
  <2>1. reader[r].worker \in Workers /\ reader[r].key \in Keys
    BY DEF Shapes, Requests
  <2>2. PICK m \in Stored(cache[reader[r].worker], reader[r].key, reader[r].body) :
            cache' = [cache EXCEPT ![reader[r].worker] = m]
    BY <1>2 DEF Respond
  <2>3. Holds(m)
    BY <2>1, StoredHolds DEF CachesHold
  <2> QED BY <2>1, <2>2, <2>3 DEF CachesHold, Shapes
<1>3. ASSUME NEW x \in Writers, ClearResponseCache(x)
      PROVE  CachesHold'
  <2>1. cache' = [cache EXCEPT ![writer[x].worker] = EmptyMap]
    BY <1>3 DEF ClearResponseCache
  <2> QED BY <2>1, EmptyHolds DEF CachesHold, Shapes
<1>4. ASSUME Tick
      PROVE  CachesHold'
  <2>1. \A w \in Workers : DOMAIN cache'[w] = DOMAIN cache[w]
    BY <1>4, AgedEntries DEF Tick, Shapes
  <2> QED BY <2>1 DEF CachesHold, Holds
<1>5. ASSUME UNCHANGED cache
      PROVE  CachesHold'
  BY <1>5 DEF CachesHold
<1> QED BY <1>1, <1>2, <1>3, <1>4, <1>5 DEF ServingNext, BuildStep, Read, BuildFails, Commit,
                                         ClearSkipped, NextWrite, servingVars

(* No worker's cache ever holds more than CACHE_MAX_ENTRIES, and what      *)
(* requests, writes and entries carry stays well formed (cache.py:43-45,   *)
(* http.py:56-75).                                                         *)
THEOREM ServingTypeCorrect == ServingSpec => []ServingTypeOK
<1>1. ServingInit => Shapes /\ CachesHold
  <2>1. ASSUME ServingInit PROVE CachesHold
    BY <2>1, EmptyHolds DEF ServingInit, CachesHold
  <2> QED BY <2>1, ShapesInit
<1>2. Shapes /\ CachesHold /\ [ServingNext]_servingVars => (Shapes /\ CachesHold)'
  BY ShapesStep, HoldsStep
<1>3. Shapes /\ CachesHold => ServingTypeOK
  BY DEF Shapes, CachesHold, Holds, CacheEntry, ServingTypeOK
<1> QED BY <1>1, <1>2, <1>3, PTL DEF ServingSpec
=============================================================================
