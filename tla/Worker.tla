------------------------------- MODULE Worker -------------------------------
(***************************************************************************)
(* The life of one worker process (lifespan in app/main.py) and what its   *)
(* handlers take from the connection pool (app/db.py) and from the storage *)
(* client (app/storage.py).                                                *)
(*                                                                         *)
(* uvicorn runs lifespan to its yield, then serves; on SIGTERM it accepts  *)
(* nothing more, waits for the handlers, and resumes lifespan.  It waits   *)
(* for handlers only: puts that a failed put_many has left behind run on.  *)
(***************************************************************************)
EXTENDS Integers, Sequences, FiniteSets

CONSTANTS Requests,   \* slots for requests being served
          PoolMax,    \* DB_POOL_MAX
          Backends,   \* values of STORAGE_BACKEND # "none", over the deployments
          PutsMax     \* objects of an upload

ASSUME WorkerConstants ==
    /\ PoolMax \in Nat \ {0}
    /\ PutsMax \in Nat \ {0}
    /\ Backends \subseteq BOOLEAN

VARIABLES phase,   \* of lifespan
          pool,    \* is the pool open
          client,  \* is the storage client open
          todo,    \* what each handler has yet to await
          kind,    \* of each request, "none" in a free slot
          holds,   \* requests that hold a connection
          puts     \* calls to B2 under way, by request

workerVars == <<phase, pool, client, todo, kind, holds, puts>>

(* What a handler of each kind awaits, in order.  A page is one connection *)
(* for one or two statements, a bundle three connections in turn.          *)
Plan == [live   |-> <<>>,
         ready  |-> <<"db">>,
         page   |-> <<"db">>,
         bundle |-> <<"db", "db", "db">>,
         purge  |-> <<"db", "b2">>,
         upload |-> <<"db", "b2", "db">>]

Ended == {"down", "failed"}

WorkerTypeOK ==
    /\ phase \in Ended \cup {"connecting", "starting", "serving", "draining", "closing"}
    /\ pool \in BOOLEAN /\ client \in BOOLEAN
    /\ todo \in [Requests -> Seq({"db", "b2"})]
    /\ kind \in [Requests -> {"none"} \cup DOMAIN Plan]
    /\ holds \subseteq {r \in Requests : kind[r] # "none" /\ todo[r] # <<>> /\ Head(todo[r]) = "db"}
    /\ Cardinality(holds) <= PoolMax
    /\ puts \in [Requests -> 0 .. PutsMax]

WorkerInit ==
    /\ phase = "down"
    /\ pool = FALSE
    /\ client = FALSE
    /\ todo = [r \in Requests |-> <<>>]
    /\ kind = [r \in Requests |-> "none"]
    /\ holds = {}
    /\ puts = [r \in Requests |-> 0]

requestVars == <<todo, kind, holds, puts>>

----------------------------------------------------------------------------
(* lifespan. *)

(* A new process: whatever the last one left open went with it. *)
Boot ==
    /\ phase \in Ended
    /\ phase' = "connecting"
    /\ pool' = FALSE
    /\ client' = FALSE
    /\ puts' = [r \in Requests |-> 0]
    /\ UNCHANGED <<todo, kind, holds>>

Connect ==
    /\ phase = "connecting"
    /\ \/ phase' = "starting" /\ pool' = TRUE
       \/ phase' = "failed" /\ UNCHANGED pool
    /\ UNCHANGED <<client, requestVars>>

(* storage.start comes before the try: if it raises nothing is undone.     *)
StartStorage ==
    /\ phase = "starting"
    /\ \/ phase' = "serving" /\ client' \in Backends
       \/ phase' = "failed" /\ UNCHANGED client
    /\ UNCHANGED <<pool, requestVars>>

Terminate ==
    /\ phase = "serving"
    /\ phase' = "draining"
    /\ UNCHANGED <<pool, client, requestVars>>

Drained == \A r \in Requests : kind[r] = "none"

(* Wrong on purpose: lifespan ends when the signal comes. *)
StopStorageAtOnce ==
    /\ phase = "draining"
    /\ \/ phase' = "closing" /\ client' = FALSE
       \/ phase' = "failed" /\ client /\ UNCHANGED client
    /\ UNCHANGED <<pool, requestVars>>

(* If storage.stop raises db.disconnect is not reached. *)
StopStorage ==
    /\ phase = "draining"
    /\ Drained
    /\ \/ phase' = "closing" /\ client' = FALSE
       \/ phase' = "failed" /\ client /\ UNCHANGED client
    /\ UNCHANGED <<pool, requestVars>>

(* Pool.close waits for every connection to be given back.                 *)
Disconnect ==
    /\ phase = "closing"
    /\ holds = {}
    /\ pool' = FALSE
    /\ phase' = "down"
    /\ UNCHANGED <<client, requestVars>>

----------------------------------------------------------------------------
(* Handlers. *)

(* Without a storage backend an upload is refused and a purge skips B2.    *)
PlanOf(k) ==
    CASE ~client /\ k = "upload" -> <<>>
      [] ~client /\ k = "purge"  -> <<"db">>
      [] OTHER                   -> Plan[k]

Arrive(r, k) ==
    /\ phase = "serving"
    /\ kind[r] = "none"
    /\ puts[r] = 0    \* bound: a slot is used again when its puts are over
    /\ kind' = [kind EXCEPT ![r] = k]
    /\ todo' = [todo EXCEPT ![r] = PlanOf(k)]
    /\ UNCHANGED <<phase, pool, client, holds, puts>>

Proceed(r) == todo' = [todo EXCEPT ![r] = Tail(@)]

(* What is left of a handler when an await raises: the cleanup of an       *)
(* upload whose INSERT failed.                                             *)
Raises(r) ==
    todo' = [todo EXCEPT ![r] =
                IF kind[r] = "upload" /\ @ = <<"db">> THEN <<"b2">> ELSE <<>>]

Acquire(r) ==
    /\ todo[r] # <<>> /\ Head(todo[r]) = "db"
    /\ r \notin holds
    /\ Cardinality(holds) < PoolMax
    /\ holds' = holds \cup {r}
    /\ UNCHANGED <<phase, pool, client, todo, kind, puts>>

(* Wrong on purpose: a raising handler keeps its connection. *)
ReleaseUnlessRaised(r) ==
    /\ r \in holds
    /\ todo[r] # <<>>
    /\ \/ Proceed(r) /\ holds' = holds \ {r}
       \/ Raises(r) /\ UNCHANGED holds
    /\ UNCHANGED <<phase, pool, client, kind, puts>>

(* Wrong on purpose: fetch_page calls fetch beside its own connection.     *)
ReleaseNested(r) ==
    /\ r \in holds
    /\ kind[r] = "page" => Cardinality(holds) < PoolMax
    /\ holds' = holds \ {r}
    /\ Proceed(r) \/ Raises(r)
    /\ UNCHANGED <<phase, pool, client, kind, puts>>

(* The statements end, if need be by command_timeout or statement_timeout, *)
(* and the connection is given back on every way out.                      *)
Release(r) ==
    /\ r \in holds
    /\ holds' = holds \ {r}
    /\ Proceed(r) \/ Raises(r)
    /\ UNCHANGED <<phase, pool, client, kind, puts>>

(* put_many sends what there is to send, delete one request.               *)
CallB2(r) ==
    /\ todo[r] # <<>> /\ Head(todo[r]) = "b2"
    /\ puts[r] = 0
    /\ \E n \in 1 .. (IF Len(todo[r]) = 1 THEN 1 ELSE PutsMax) : puts' = [puts EXCEPT ![r] = n]
    /\ UNCHANGED <<phase, pool, client, todo, kind, holds>>

(* A call ends.  The handler goes on after the last one, and at once if    *)
(* one fails, leaving the others to themselves.                            *)
B2Ends(r) ==
    /\ puts[r] > 0
    /\ puts' = [puts EXCEPT ![r] = @ - 1]
    /\ IF todo[r] # <<>> /\ Head(todo[r]) = "b2"
       THEN \/ puts[r] > 1 /\ UNCHANGED todo
            \/ puts[r] = 1 /\ Proceed(r)
            \/ Raises(r)
       ELSE UNCHANGED todo
    /\ UNCHANGED <<phase, pool, client, kind, holds>>

Answer(r) ==
    /\ kind[r] # "none"
    /\ todo[r] = <<>>
    /\ kind' = [kind EXCEPT ![r] = "none"]
    /\ UNCHANGED <<phase, pool, client, todo, holds, puts>>

Lifespan == Connect \/ StartStorage \/ StopStorage \/ Disconnect

WorkerNext ==
    \/ Boot
    \/ Lifespan
    \/ Terminate
    \/ \E r \in Requests, k \in DOMAIN Plan : Arrive(r, k)
    \/ \E r \in Requests : Acquire(r) \/ Release(r) \/ CallB2(r) \/ B2Ends(r) \/ Answer(r)

(* asyncpg hands out connections first come, first served, so whoever      *)
(* waits long enough gets one; everything else is a task that is ready, or *)
(* a call that ends, if need be by its timeout.                            *)
WorkerSpec ==
    /\ WorkerInit
    /\ [][WorkerNext]_workerVars
    /\ WF_workerVars(Lifespan)
    /\ \A r \in Requests :
        /\ SF_workerVars(Acquire(r))
        /\ WF_workerVars(Release(r)) /\ WF_workerVars(CallB2(r))
        /\ WF_workerVars(B2Ends(r)) /\ WF_workerVars(Answer(r))

----------------------------------------------------------------------------
(* Properties. *)

(* No handler loses the pool, or a storage client it is to call, under its *)
(* hands; only puts whose upload has been answered already can (main.py    *)
(* :53-57, storage.py:131).  And a worker that went down in order has      *)
(* nothing open: only one whose start or stop failed has.                  *)
ResourcesOutliveHandlers ==
    /\ \A r \in Requests : kind[r] # "none" =>
            /\ pool
            /\ \A i \in DOMAIN todo[r] : todo[r][i] = "b2" => client
    /\ phase = "down" => ~pool /\ ~client

(* However many handlers compete for PoolMax connections, with no timeout  *)
(* on acquire, each is answered: none holds one while it waits for another *)
(* (db.py:77-93, categories.py:132-156).                                   *)
EveryRequestAnswered == \A r \in Requests : kind[r] # "none" ~> kind[r] = "none"

(* A worker told to stop does stop: no handler, and no connection that was *)
(* not given back, keeps it (main.py:55-57, db.py:58-61).                  *)
StopCompletes == phase = "draining" ~> phase \in Ended
=============================================================================
