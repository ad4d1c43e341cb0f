------------------------------ MODULE Migrate ------------------------------
(***************************************************************************)
(* scripts/migrate.py: runs of the script against one database, one per    *)
(* deploy and at the same time.                                            *)
(*                                                                         *)
(* Files are numbered, so file i of a release is the i-th in filename      *)
(* order, and a release is the sequence of its files' contents.  Another   *)
(* release may have more files, or an edited one.  Equal contents, equal   *)
(* checksums.  --status writes nothing and is left out.                    *)
(***************************************************************************)
EXTENDS Integers, Sequences

CONSTANTS Deploys,
          Contents,
          Releases,  \* the files each deploy has on disk
          NoDeploy,
          Faults     \* "sql": a file may fail; "crash": a run may be killed

ASSUME DeploysHaveReleases ==
    /\ Releases \in [Deploys -> Seq(Contents)]
    /\ NoDeploy \notin Deploys
    /\ Faults \subseteq {"sql", "crash"}

VARIABLES run,       \* the script's run for each deploy
          lock,      \* whose session holds the advisory lock
          recorded,  \* schema_migrations: contents by file
          schema     \* history: the files whose SQL took effect, in that order

migrateVars == <<run, lock, recorded, schema>>

FileNumbers == Nat \ {0}

IsRecord(r) == DOMAIN r \subseteq FileNumbers /\ r \in [DOMAIN r -> Contents]

Ends == {"up_to_date", "refused", "failed", "killed"}

(* applied is what the run has read of schema_migrations, next its next file. *)
Run(pc, applied, next) == [pc |-> pc, applied |-> applied, next |-> next]

(* The script goes through the files exactly while its session holds the   *)
(* lock, whichever way it then ends (migrate.py:66-97).                    *)
MigrateTypeOK ==
    /\ \A d \in Deploys :
            /\ run[d] = Run(run[d].pc, run[d].applied, run[d].next)
            /\ run[d].pc \in {"idle", "waiting", "applying"} \cup Ends
            /\ IsRecord(run[d].applied)
            /\ run[d].next \in FileNumbers
            /\ run[d].pc = "applying" <=> lock = d
    /\ lock \in Deploys \cup {NoDeploy}
    /\ IsRecord(recorded)
    /\ schema \in Seq(FileNumbers)

NoRecord == [i \in {} |-> 0]

MigrateInit ==
    /\ run = [d \in Deploys |-> Run("idle", NoRecord, 1)]
    /\ lock = NoDeploy
    /\ recorded = NoRecord
    /\ schema = <<>>

(* The run is at a file. *)
At(d) == run[d].pc = "applying" /\ run[d].next \in DOMAIN Releases[d]

File(d) == Releases[d][run[d].next]

Known(d) == run[d].next \in DOMAIN run[d].applied

Unchanged(d) == run[d].applied[run[d].next] = File(d)

GoOn(d) == run' = [run EXCEPT ![d] = Run("applying", @.applied, @.next + 1)]

(* On every way out of the loop the finally clause gives the lock back.    *)
End(d, pc) ==
    /\ run' = [run EXCEPT ![d] = Run(pc, @.applied, @.next)]
    /\ lock' = NoDeploy

----------------------------------------------------------------------------
(* Creates the table if it is not there, then reads it. *)
ReadApplied(d) ==
    /\ run[d].pc = "idle"
    /\ run' = [run EXCEPT ![d] = Run("waiting", recorded, 1)]
    /\ UNCHANGED <<lock, recorded, schema>>

(* Wrong on purpose: pg_try_advisory_lock, its answer not looked at.       *)
TryLock(d) ==
    /\ run[d].pc = "waiting"
    /\ run' = [run EXCEPT ![d] = Run("applying", @.applied, 1)]
    /\ lock' = d
    /\ UNCHANGED <<recorded, schema>>

Lock(d) ==
    /\ run[d].pc = "waiting"
    /\ lock = NoDeploy
    /\ run' = [run EXCEPT ![d] = Run("applying", @.applied, 1)]
    /\ lock' = d
    /\ UNCHANGED <<recorded, schema>>

(* Wrong on purpose: a file that is recorded at all is skipped. *)
SkipKnown(d) ==
    /\ At(d) /\ Known(d)
    /\ GoOn(d)
    /\ UNCHANGED <<lock, recorded, schema>>

Skip(d) ==
    /\ At(d) /\ Known(d) /\ Unchanged(d)
    /\ GoOn(d)
    /\ UNCHANGED <<lock, recorded, schema>>

(* The file was applied and its contents have changed since: exit code 1.  *)
Refuse(d) ==
    /\ At(d) /\ Known(d) /\ ~Unchanged(d)
    /\ End(d, "refused")
    /\ UNCHANGED <<recorded, schema>>

(* The file's SQL and its row in schema_migrations commit together.        *)
Apply(d) ==
    /\ At(d) /\ ~Known(d)
    /\ run[d].next \notin DOMAIN recorded
    /\ recorded' = [i \in DOMAIN recorded \cup {run[d].next} |->
                        IF i = run[d].next THEN File(d) ELSE recorded[i]]
    /\ schema' = Append(schema, run[d].next)
    /\ GoOn(d)
    /\ UNCHANGED lock

(* Wrong on purpose: the SQL is not part of the transaction. *)
ApplyFailsHalfway(d) ==
    /\ At(d) /\ ~Known(d)
    /\ run[d].next \in DOMAIN recorded \/ "sql" \in Faults
    /\ schema' = Append(schema, run[d].next)
    /\ End(d, "failed")
    /\ UNCHANGED recorded

(* Wrong on purpose: a file that fails is tried again, under the lock.     *)
ApplyFailsRetried(d) ==
    /\ At(d) /\ ~Known(d)
    /\ run[d].next \in DOMAIN recorded \/ "sql" \in Faults
    /\ UNCHANGED migrateVars

(* The SQL fails, or its effects or its row are there already; the         *)
(* transaction is rolled back and the exception ends the run.              *)
ApplyFails(d) ==
    /\ At(d) /\ ~Known(d)
    /\ run[d].next \in DOMAIN recorded \/ "sql" \in Faults
    /\ End(d, "failed")
    /\ UNCHANGED <<recorded, schema>>

Finish(d) ==
    /\ run[d].pc = "applying" /\ ~At(d)
    /\ End(d, "up_to_date")
    /\ UNCHANGED <<recorded, schema>>

(* The server rolls back and drops the lock when the session goes. *)
Kill(d) ==
    /\ "crash" \in Faults
    /\ run[d].pc \in {"waiting", "applying"}
    /\ run' = [run EXCEPT ![d] = Run("killed", @.applied, @.next)]
    /\ lock' = IF lock = d THEN NoDeploy ELSE lock
    /\ UNCHANGED <<recorded, schema>>

(* The deploy is repeated. *)
Retry(d) ==
    /\ run[d].pc \in Ends
    /\ run' = [run EXCEPT ![d] = Run("idle", NoRecord, 1)]
    /\ UNCHANGED <<lock, recorded, schema>>

Step(d) == Skip(d) \/ Refuse(d) \/ Apply(d) \/ ApplyFails(d) \/ Finish(d)

MigrateNext ==
    \E d \in Deploys : ReadApplied(d) \/ Lock(d) \/ Step(d) \/ Kill(d) \/ Retry(d)

(* A run goes on once it is started, and a session that waits for the lock *)
(* is not passed over for ever: Postgres queues the waiters.               *)
MigrateSpec ==
    /\ MigrateInit
    /\ [][MigrateNext]_migrateVars
    /\ \A d \in Deploys : SF_migrateVars(Lock(d)) /\ WF_migrateVars(Step(d))

----------------------------------------------------------------------------
(* Properties. *)

(* However many deploys run, fail and are killed, each file takes effect   *)
(* once, in filename order, and is recorded if and only if it did          *)
(* (migrate.py:1-8, :85-91).                                               *)
AppliedOnceInOrder ==
    /\ schema = [i \in 1 .. Len(schema) |-> i]
    /\ DOMAIN recorded = 1 .. Len(schema)

(* A run that reports "up to date" left a database on which every file of  *)
(* its release is applied with the contents it has on disk, although it    *)
(* compared them with a table it had read before it waited for the lock    *)
(* (migrate.py:48-51, :69-95).                                             *)
UpToDateMeansApplied ==
    \A d \in Deploys : run[d].pc = "up_to_date" =>
        \A i \in DOMAIN Releases[d] : i \in DOMAIN recorded /\ recorded[i] = Releases[d][i]

(* Every run comes to an end: the lock is given back on each path, and     *)
(* with the session when a run is killed (migrate.py:66, :96-99).          *)
EveryRunEnds == \A d \in Deploys : (run[d].pc = "waiting") ~> (run[d].pc \in Ends)

(* migrate.py:7-8: "A session-level advisory lock makes concurrent deploys *)
(* safe: the second one waits, then finds nothing to do."                  *)
SecondFindsNothingToDo == \A d \in Deploys : run[d].pc # "failed"
=============================================================================
