------------------------------ MODULE Serving ------------------------------
(***************************************************************************)
(* The read path and its response caches: serve_json with the cache of     *)
(* each worker, the write handlers that clear one of them, and time.       *)
(*                                                                         *)
(* A response body is the version of the catalogue it was built from, the  *)
(* number of writes committed before its first read of the database: equal *)
(* versions, equal bytes, equal ETags.  Every body is taken to depend on   *)
(* every write, which can only make a body look staler than it is.         *)
(*                                                                         *)
(* serve_json runs without awaiting from the cache lookup to build(), and  *)
(* again from the end of build() to the cache fill; the database is in     *)
(* between.  A write handler commits, then clears the cache of its own     *)
(* worker; the two are apart, and the second may never come.               *)
(***************************************************************************)
EXTENDS BoundedMap

CONSTANTS Workers, Keys, Readers, Writers,
          MaxVersion,  \* bound on the number of writes
          BuildMax     \* the longest a build goes on after its first read

ASSUME Bounds == MaxVersion \in Nat /\ BuildMax \in Nat

Versions == 0 .. MaxVersion

(* No property looks further back than this. *)
MaxOutdated == BuildMax + TTL + 1

VARIABLES version,   \* of the catalogue in Postgres
          cache,     \* the response cache of each worker
          reader,    \* requests to GET endpoints that missed the cache
          writer,    \* write requests between their commit and their clear
          outdated,  \* history: ticks since a version was superseded
          cleared    \* history: the newest write whose clear each worker ran

servingVars == <<version, cache, reader, writer, outdated, cleared>>

(* spanned: a clear ran on the worker between the read and the response.   *)
Body == [version : Versions, spanned : BOOLEAN]

NoBody == [version |-> 0, spanned |-> FALSE]

(* A request; age is the time since its first read of the database.        *)
Request(pc, w, k, body, age) ==
    [pc |-> pc, worker |-> w, key |-> k, body |-> body, age |-> age]

Requests == [pc     : {"idle", "building", "built"},
             worker : Workers,
             key    : Keys,
             body   : Body,
             age    : 0 .. BuildMax]

Writes == [pc      : {"idle", "committed", "failed"},
           worker  : Workers,
           version : Versions]

ServingTypeOK ==
    /\ version \in Versions
    /\ \A w \in Workers :
            /\ DOMAIN cache[w] \subseteq Keys
            /\ Cardinality(DOMAIN cache[w]) <= MaxSize
            /\ \A k \in DOMAIN cache[w] : cache[w][k] \in [value : Body, left : 0 .. TTL]
    /\ reader \in [Readers -> Requests]
    /\ writer \in [Writers -> Writes]
    /\ outdated \in [Versions -> 0 .. MaxOutdated]
    /\ cleared \in [Workers -> Versions]

ServingInit ==
    /\ version = 0
    /\ cache = [w \in Workers |-> EmptyMap]
    /\ \E w \in Workers, k \in Keys :
            /\ reader = [r \in Readers |-> Request("idle", w, k, NoBody, 0)]
            /\ writer = [x \in Writers |-> [pc |-> "idle", worker |-> w, version |-> 0]]
    /\ outdated = [v \in Versions |-> 0]
    /\ cleared = [w \in Workers |-> 0]

----------------------------------------------------------------------------
(* serve_json. *)

(* The lookup fails; an expired entry goes.  A lookup that hits answers at *)
(* once and changes nothing but the order of the entries.                  *)
StartBuild(r, w, k) ==
    /\ reader[r].pc = "idle"
    /\ ~Live(cache[w], k)
    /\ cache' = [cache EXCEPT ![w] = Fetched(@, k)]
    /\ reader' = [reader EXCEPT ![r] = Request("building", w, k, NoBody, 0)]
    /\ UNCHANGED <<version, writer, outdated, cleared>>

(* Wrong on purpose: the reads go to a replica, which may lag behind.      *)
ReadReplica(r) ==
    /\ reader[r].pc = "building"
    /\ \E v \in 0 .. version :
            reader' = [reader EXCEPT ![r] = Request("built", @.worker, @.key,
                                                    [version |-> v, spanned |-> FALSE], 0)]
    /\ UNCHANGED <<version, cache, writer, outdated, cleared>>

(* The first statement of build() takes its snapshot. *)
Read(r) ==
    /\ reader[r].pc = "building"
    /\ reader' = [reader EXCEPT ![r] = Request("built", @.worker, @.key,
                                               [version |-> version, spanned |-> FALSE], 0)]
    /\ UNCHANGED <<version, cache, writer, outdated, cleared>>

(* The bytes of the response, stored for the next TTL seconds. *)
Respond(r) ==
    /\ reader[r].pc = "built"
    /\ \E m \in Stored(cache[reader[r].worker], reader[r].key, reader[r].body) :
            cache' = [cache EXCEPT ![reader[r].worker] = m]
    /\ reader' = [reader EXCEPT ![r] = Request("idle", @.worker, @.key, NoBody, 0)]
    /\ UNCHANGED <<version, writer, outdated, cleared>>

(* build() raises: 404, a timeout, a lost connection.  Nothing is stored.  *)
BuildFails(r) ==
    /\ reader[r].pc \in {"building", "built"}
    /\ reader' = [reader EXCEPT ![r] = Request("idle", @.worker, @.key, NoBody, 0)]
    /\ UNCHANGED <<version, cache, writer, outdated, cleared>>

----------------------------------------------------------------------------
(* Writes. *)

(* The statement of an admin request on worker w commits. *)
Commit(x, w) ==
    /\ writer[x].pc = "idle"
    /\ version < MaxVersion
    /\ version' = version + 1
    /\ writer' = [writer EXCEPT ![x] = [pc |-> "committed", worker |-> w,
                                        version |-> version + 1]]
    /\ UNCHANGED <<cache, reader, outdated, cleared>>

ClearResponseCache(x) ==
    LET w == writer[x].worker IN
    /\ writer[x].pc = "committed"
    /\ cache' = [cache EXCEPT ![w] = EmptyMap]
    /\ reader' = [r \in Readers |->
                    IF reader[r].pc = "built" /\ reader[r].worker = w
                    THEN [reader[r] EXCEPT !.body = [version |-> @.version, spanned |-> TRUE]]
                    ELSE reader[r]]
    /\ cleared' = [cleared EXCEPT ![w] = IF @ < writer[x].version
                                         THEN writer[x].version ELSE @]
    /\ writer' = [writer EXCEPT ![x].pc = "idle"]
    /\ UNCHANGED <<version, outdated>>

(* The request ends without the clear: storage.delete raises after the     *)
(* soft delete, or the connection breaks after the commit.  A write from a *)
(* psql session looks the same.                                            *)
ClearSkipped(x) ==
    /\ writer[x].pc = "committed"
    /\ writer' = [writer EXCEPT ![x].pc = "failed"]
    /\ UNCHANGED <<version, cache, reader, outdated, cleared>>

(* The client or the operator goes on to the next write. *)
NextWrite(x) ==
    /\ writer[x].pc = "failed"
    /\ writer' = [writer EXCEPT ![x].pc = "idle"]
    /\ UNCHANGED <<version, cache, reader, outdated, cleared>>

----------------------------------------------------------------------------
(* Time.  The timeouts of a statement keep a build from going on for more  *)
(* than BuildMax ticks once it has read.                                   *)
Tick ==
    /\ \A r \in Readers : reader[r].pc = "built" => reader[r].age < BuildMax
    /\ cache' = [w \in Workers |-> Aged(cache[w])]
    /\ reader' = [r \in Readers |-> IF reader[r].pc = "built"
                                    THEN [reader[r] EXCEPT !.age = @ + 1]
                                    ELSE reader[r]]
    /\ outdated' = [v \in Versions |->
                        IF v < version /\ outdated[v] < MaxOutdated
                        THEN outdated[v] + 1 ELSE outdated[v]]
    /\ UNCHANGED <<version, writer, cleared>>

BuildStep(r) == Read(r) \/ Respond(r) \/ BuildFails(r)

ServingNext ==
    \/ \E r \in Readers, w \in Workers, k \in Keys : StartBuild(r, w, k)
    \/ \E r \in Readers : BuildStep(r)
    \/ \E x \in Writers, w \in Workers : Commit(x, w)
    \/ \E x \in Writers : ClearResponseCache(x) \/ ClearSkipped(x) \/ NextWrite(x)
    \/ Tick

(* Time passes, and a build ends: its statements time out, and the event   *)
(* loop resumes it.  Nobody has to read or write.                          *)
ServingSpec ==
    /\ ServingInit
    /\ [][ServingNext]_servingVars
    /\ WF_servingVars(Tick)
    /\ \A r \in Readers : WF_servingVars(BuildStep(r))

----------------------------------------------------------------------------
(* Properties. *)

(* A response served from a cache was up to date at most BuildMax plus the *)
(* age of its entry ago.  So nothing is ever served that was superseded    *)
(* more than BuildMax + TTL ago, on any worker, clears lost or not         *)
(* (http.py:56-75, cache.py:33).                                           *)
StalenessBound ==
    \A w \in Workers : \A k \in Keys :
        Live(cache[w], k) =>
            outdated[cache[w][k].value.version] <= BuildMax + TTL - cache[w][k].left

(* The one way for a worker to hold a body older than a write it has       *)
(* itself cleared for: a build that had read before that clear and stored  *)
(* after it (http.py:66-73, :32-34).                                       *)
StaleOnlyIfSpanned ==
    \A w \in Workers : \A k \in DOMAIN cache[w] :
        cache[w][k].value.version < cleared[w] => cache[w][k].value.spanned

(* Once the writes stop, every worker comes to serve the latest version    *)
(* and no other, although only one of them was told (http.py:32-34).       *)
Converges ==
    <>[](\A w \in Workers : \A k \in Keys :
            Live(cache[w], k) => cache[w][k].value.version = version)

(* http.py:33, "Called after every write so the next read reflects it      *)
(* immediately": after the clear, on the worker that ran it.               *)
ReadsReflectWrites ==
    \A w \in Workers : \A k \in Keys :
        Live(cache[w], k) => cache[w][k].value.version >= cleared[w]
=============================================================================
