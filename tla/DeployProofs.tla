---------------------------- MODULE DeployProofs ----------------------------
(***************************************************************************)
(* Proofs about what a deploy does: it runs the migration script (Migrate, *)
(* for any number of deploys and any releases), then starts workers and    *)
(* stops them again (Worker, for any number of requests, connections and   *)
(* puts).                                                                  *)
(*                                                                         *)
(* The properties of Migrate hold because what a run has read of           *)
(* schema_migrations stays true although it goes out of date, and because  *)
(* the files a run has gone past are recorded as it has them.  So the next *)
(* file of a run, if it is not recorded, is the one right after those that *)
(* are.  Those of Worker hold because handlers are there only while        *)
(* lifespan serves, and because each phase leaves open what they need.     *)
(***************************************************************************)
EXTENDS Migrate, Worker, FiniteSetTheorems, TLAPS

(* The migration script. *)

PCs == {"idle", "waiting", "applying"} \cup Ends

(* Everything in r is in the table, with the same contents. *)
Within(r, table) == \A i \in DOMAIN r : i \in DOMAIN table /\ table[i] = r[i]

(* The first n - 1 files of a release. *)
Before(d, n) == [i \in 1 .. n - 1 |-> Releases[d][i]]

(* A run that knows `applied` and is about to look at file n. *)
Sound(d, pc, applied, n, table) ==
    /\ Within(applied, table)
    /\ pc \in {"applying", "up_to_date"} => Within(Before(d, n), table)
    /\ pc = "up_to_date" => n \notin DOMAIN Releases[d]

MInv ==
    /\ DOMAIN run = Deploys
    /\ MigrateTypeOK
    /\ AppliedOnceInOrder
    /\ \A d \in Deploys :
            Sound(d, run[d].pc, run[d].applied, run[d].next, recorded)

----------------------------------------------------------------------------
LEMMA RunFields ==
    ASSUME NEW pc, NEW applied, NEW n
    PROVE  LET r == Run(pc, applied, n) IN r.pc = pc /\ r.applied = applied /\ r.next = n
BY DEF Run

(* A table that only grows keeps what was in it. *)
LEMMA WithinGrows ==
    ASSUME NEW r, NEW t, NEW u, Within(r, t), Within(t, u)
    PROVE  Within(r, u)
BY DEF Within

(* What a step of one run has to show for the invariant to hold again.     *)
LEMMA RunStep ==
    ASSUME MInv, NEW d \in Deploys, NEW pc \in PCs, NEW applied, NEW n \in FileNumbers,
           run' = [run EXCEPT ![d] = Run(pc, applied, n)],
           IsRecord(applied), IsRecord(recorded'), schema' \in Seq(FileNumbers),
           AppliedOnceInOrder',
           Within(recorded, recorded'),
           Sound(d, pc, applied, n, recorded'),
           lock' \in Deploys \cup {NoDeploy},
           pc = "applying" <=> lock' = d,
           \A e \in Deploys \ {d} : run[e].pc = "applying" <=> lock' = e
    PROVE  MInv'
<1>1. DOMAIN run' = Deploys
  BY DEF MInv
<1>2. run'[d] = Run(pc, applied, n) /\ \A e \in Deploys \ {d} : run'[e] = run[e]
  BY DEF MInv
<1>3. run'[d].pc = pc /\ run'[d].applied = applied /\ run'[d].next = n
  BY <1>2, RunFields
<1>4. ASSUME NEW e \in Deploys \ {d}
      PROVE  Sound(e, run[e].pc, run[e].applied, run[e].next, recorded')
  BY WithinGrows DEF MInv, Sound
<1>5. \A e \in Deploys : Sound(e, run'[e].pc, run'[e].applied, run'[e].next, recorded')
  BY <1>2, <1>3, <1>4
<1>6. MigrateTypeOK'
  BY <1>2, <1>3 DEF MInv, MigrateTypeOK, PCs
<1> QED BY <1>1, <1>5, <1>6 DEF MInv

(* While d goes through the files no other run does. *)
LEMMA Alone ==
    ASSUME MInv, NEW d \in Deploys, run[d].pc = "applying"
    PROVE  /\ lock = d
           /\ \A e \in Deploys \ {d} : run[e].pc # "applying" /\ e # NoDeploy
           /\ d # NoDeploy
BY DeploysHaveReleases DEF MInv, MigrateTypeOK

LEMMA EndStep ==
    ASSUME MInv, NEW d \in Deploys, NEW pc \in Ends, run[d].pc = "applying",
           End(d, pc), UNCHANGED <<recorded, schema>>,
           pc = "up_to_date" => run[d].next \notin DOMAIN Releases[d]
    PROVE  MInv'
<1>1. Sound(d, "applying", run[d].applied, run[d].next, recorded)
  BY DEF MInv
<1>2. Sound(d, pc, run[d].applied, run[d].next, recorded)
  BY <1>1 DEF Sound
<1>3. IsRecord(run[d].applied) /\ run[d].next \in FileNumbers /\ IsRecord(recorded)
      /\ schema \in Seq(FileNumbers) /\ AppliedOnceInOrder
  BY DEF MInv, MigrateTypeOK
<1>4. pc \in PCs /\ pc # "applying"
  BY DEF PCs, Ends
<1>5. run' = [run EXCEPT ![d] = Run(pc, run[d].applied, run[d].next)] /\ lock' = NoDeploy
  BY DEF End
<1>6. AppliedOnceInOrder'
  BY <1>3 DEF AppliedOnceInOrder
<1>7. Within(recorded, recorded')
  BY DEF Within
<1> QED BY <1>2, <1>3, <1>4, <1>5, <1>6, <1>7, Alone, RunStep

(* A run that goes past its file n, which is recorded as it has it.        *)
LEMMA GoOnStep ==
    ASSUME MInv, NEW d \in Deploys, At(d), GoOn(d), UNCHANGED lock,
           IsRecord(recorded'), schema' \in Seq(FileNumbers), AppliedOnceInOrder',
           Within(recorded, recorded'),
           run[d].next \in DOMAIN recorded', recorded'[run[d].next] = File(d)
    PROVE  MInv'
<1> DEFINE n == run[d].next
<1>1. n \in FileNumbers /\ IsRecord(run[d].applied) /\ lock \in Deploys \cup {NoDeploy}
  BY DEF MInv, MigrateTypeOK
<1>2. Sound(d, "applying", run[d].applied, n, recorded)
  BY DEF MInv, At
<1>3. Within(run[d].applied, recorded') /\ Within(Before(d, n), recorded')
  BY <1>2, WithinGrows DEF Sound
<1>4. Within(Before(d, n + 1), recorded')
  <2>1. ASSUME NEW i \in 1 .. n
        PROVE  i \in DOMAIN recorded' /\ recorded'[i] = Releases[d][i]
    <3>1. CASE i = n
      BY <3>1 DEF File
    <3>2. CASE i # n
      <4>1. i \in 1 .. n - 1
        BY <1>1, <3>2 DEF FileNumbers
      <4> QED BY <1>3, <4>1 DEF Within, Before
    <3> QED BY <3>1, <3>2
  <2>2. n + 1 - 1 = n
    BY <1>1 DEF FileNumbers
  <2>3. Before(d, n + 1) = [i \in 1 .. n |-> Releases[d][i]]
    BY <2>2 DEF Before
  <2> HIDE DEF n
  <2> QED BY <2>1, <2>3 DEF Within
<1>5. Sound(d, "applying", run[d].applied, n + 1, recorded')
  BY <1>3, <1>4 DEF Sound
<1>6. n + 1 \in FileNumbers /\ "applying" \in PCs
  BY <1>1 DEF FileNumbers, PCs
<1>7. run' = [run EXCEPT ![d] = Run("applying", run[d].applied, n + 1)]
  BY DEF GoOn
<1>8. lock = d /\ \A e \in Deploys \ {d} : run[e].pc # "applying"
  BY Alone DEF At
<1> HIDE DEF n
<1> QED BY <1>1, <1>5, <1>6, <1>7, <1>8, RunStep

----------------------------------------------------------------------------
LEMMA InitMInv == MigrateInit => MInv
<1> SUFFICES ASSUME MigrateInit PROVE MInv
  OBVIOUS
<1>1. /\ DOMAIN run = Deploys
      /\ \A d \in Deploys : run[d] = Run("idle", NoRecord, 1)
  BY DEF MigrateInit
<1>2. \A d \in Deploys :
        run[d].pc = "idle" /\ run[d].applied = NoRecord /\ run[d].next = 1
  <2> TAKE d \in Deploys
  <2>1. run[d] = [pc |-> "idle", applied |-> NoRecord, next |-> 1]
    BY <1>1 DEF Run
  <2> QED BY <2>1
<1>3. IsRecord(NoRecord)
  BY DEF IsRecord, NoRecord
<1>4. schema \in Seq(FileNumbers)
  BY DEF MigrateInit
<1>5. MigrateTypeOK
  BY <1>1, <1>2, <1>3, <1>4, DeploysHaveReleases DEF MigrateInit, MigrateTypeOK, FileNumbers
<1>6. AppliedOnceInOrder
  <2>1. schema = <<>> /\ Len(schema) = 0 /\ DOMAIN recorded = {}
    BY DEF MigrateInit, NoRecord
  <2> QED BY <2>1 DEF AppliedOnceInOrder
<1>7. \A d \in Deploys :
        Sound(d, run[d].pc, run[d].applied, run[d].next, recorded)
  BY <1>2 DEF MigrateInit, Sound, Within, NoRecord
<1> QED BY <1>1, <1>5, <1>6, <1>7 DEF MInv

(* The file is the first one that is not recorded. *)
LEMMA ApplyNext ==
    ASSUME MInv, NEW d \in Deploys, Apply(d)
    PROVE  run[d].next = Len(schema) + 1
<1> DEFINE n == run[d].next
<1>1. n \in FileNumbers /\ Len(schema) \in Nat
  BY DEF MInv, MigrateTypeOK
<1>2. DOMAIN recorded = 1 .. Len(schema)
  BY DEF MInv, AppliedOnceInOrder
<1>3. Within(Before(d, n), recorded)
  BY DEF MInv, Sound, Apply, At
<1>4. \A i \in 1 .. n - 1 : i \in 1 .. Len(schema)
  BY <1>2, <1>3 DEF Within, Before
<1>5. n \notin 1 .. Len(schema)
  BY <1>2 DEF Apply
<1>6. n = 1 \/ n - 1 \in 1 .. n - 1
  BY <1>1 DEF FileNumbers
<1> QED BY <1>1, <1>4, <1>5, <1>6 DEF FileNumbers

LEMMA ApplyStep ==
    ASSUME MInv, NEW d \in Deploys, Apply(d)
    PROVE  MInv'
<1> DEFINE n == run[d].next
<1>1. n = Len(schema) + 1 /\ n \in FileNumbers /\ Len(schema) \in Nat
  BY ApplyNext DEF MInv, MigrateTypeOK
<1>2. schema \in Seq(FileNumbers) /\ schema' = Append(schema, n) /\ IsRecord(recorded)
      /\ schema = [i \in 1 .. Len(schema) |-> i] /\ DOMAIN recorded = 1 .. Len(schema)
  BY DEF MInv, MigrateTypeOK, AppliedOnceInOrder, Apply
<1>3. recorded' = [i \in DOMAIN recorded \cup {n} |->
                        IF i = n THEN File(d) ELSE recorded[i]]
      /\ n \notin DOMAIN recorded
  BY DEF Apply
<1> HIDE DEF n
<1>4. schema' \in Seq(FileNumbers) /\ Len(schema') = n
      /\ \A i \in 1 .. n : schema'[i] = i
  BY <1>1, <1>2
<1>5. DOMAIN recorded' = 1 .. n
  BY <1>1, <1>2, <1>3
<1>6. schema' = [i \in 1 .. n |-> i]
  BY <1>4
<1>7. AppliedOnceInOrder'
  BY <1>4, <1>5, <1>6 DEF AppliedOnceInOrder
<1>8. File(d) \in Contents
  BY DeploysHaveReleases DEF Apply, At, File
<1>9. IsRecord(recorded')
  BY <1>1, <1>2, <1>3, <1>8 DEF IsRecord
<1>10. Within(recorded, recorded') /\ n \in DOMAIN recorded' /\ recorded'[n] = File(d)
  BY <1>3 DEF Within
<1> QED BY <1>4, <1>7, <1>9, <1>10, GoOnStep DEF Apply, n

LEMMA StepMInv ==
    ASSUME MInv, [MigrateNext]_migrateVars
    PROVE  MInv'
<1>1. ASSUME UNCHANGED <<recorded, schema>>
      PROVE  AppliedOnceInOrder' /\ Within(recorded, recorded') /\ IsRecord(recorded')
             /\ schema' \in Seq(FileNumbers)
  BY <1>1 DEF MInv, MigrateTypeOK, AppliedOnceInOrder, Within
<1>2. \A d \in Deploys : IsRecord(run[d].applied) /\ run[d].next \in FileNumbers
                         /\ (run[d].pc = "applying" <=> lock = d)
                         /\ Sound(d, run[d].pc, run[d].applied, run[d].next, recorded)
  BY DEF MInv, MigrateTypeOK
<1>3. lock \in Deploys \cup {NoDeploy} /\ NoDeploy \notin Deploys
  BY DeploysHaveReleases DEF MInv, MigrateTypeOK
<1>4. 1 \in FileNumbers /\ IsRecord(NoRecord) /\ \A d : Within(NoRecord, recorded)
  BY DEF FileNumbers, IsRecord, NoRecord, Within
<1>5. ASSUME NEW d \in Deploys, ReadApplied(d)
      PROVE  MInv'
  <2>1. Sound(d, "waiting", recorded, 1, recorded)
    BY DEF Sound, Within
  <2>2. run' = [run EXCEPT ![d] = Run("waiting", recorded, 1)]
        /\ UNCHANGED <<lock, recorded, schema>> /\ lock # d
    BY <1>2, <1>5 DEF ReadApplied
  <2> QED BY <1>1, <1>2, <1>3, <1>4, <2>1, <2>2, RunStep DEF PCs
<1>6. ASSUME NEW d \in Deploys, Lock(d)
      PROVE  MInv'
  <2>1. Within(Before(d, 1), recorded)
    BY DEF Within, Before
  <2>2. Sound(d, "applying", run[d].applied, 1, recorded)
    BY <1>2, <2>1 DEF Sound
  <2>3. run' = [run EXCEPT ![d] = Run("applying", run[d].applied, 1)]
        /\ UNCHANGED <<recorded, schema>> /\ lock = NoDeploy /\ lock' = d
    BY <1>6 DEF Lock
  <2> QED BY <1>1, <1>2, <1>3, <1>4, <2>2, <2>3, RunStep DEF PCs
<1>7. ASSUME NEW d \in Deploys, Skip(d)
      PROVE  MInv'
  <2>1. Within(run[d].applied, recorded)
    BY <1>2 DEF Sound
  <2>2. run[d].next \in DOMAIN recorded /\ recorded[run[d].next] = File(d)
    BY <1>7, <2>1 DEF Skip, Known, Unchanged, Within
  <2> QED BY <1>1, <1>7, <2>2, GoOnStep DEF Skip
<1>8. ASSUME NEW d \in Deploys, Refuse(d)
      PROVE  MInv'
  BY <1>8, EndStep DEF Refuse, At, Ends
<1>9. ASSUME NEW d \in Deploys, ApplyFails(d)
      PROVE  MInv'
  BY <1>9, EndStep DEF ApplyFails, At, Ends
<1>10. ASSUME NEW d \in Deploys, Finish(d)
       PROVE  MInv'
  BY <1>10, EndStep DEF Finish, At, Ends
<1>11. ASSUME NEW d \in Deploys, Kill(d)
       PROVE  MInv'
  <2>1. Sound(d, "killed", run[d].applied, run[d].next, recorded)
    BY <1>2 DEF Sound
  <2>2. run' = [run EXCEPT ![d] = Run("killed", run[d].applied, run[d].next)]
        /\ UNCHANGED <<recorded, schema>>
        /\ lock' = IF lock = d THEN NoDeploy ELSE lock
    BY <1>11 DEF Kill
  <2> QED BY <1>1, <1>2, <1>3, <2>1, <2>2, RunStep DEF PCs, Ends
<1>12. ASSUME NEW d \in Deploys, Retry(d)
       PROVE  MInv'
  <2>1. Sound(d, "idle", NoRecord, 1, recorded)
    BY <1>4 DEF Sound
  <2>2. run' = [run EXCEPT ![d] = Run("idle", NoRecord, 1)]
        /\ UNCHANGED <<lock, recorded, schema>> /\ lock # d
    BY <1>2, <1>12 DEF Retry, Ends
  <2> QED BY <1>1, <1>2, <1>3, <1>4, <2>1, <2>2, RunStep DEF PCs
<1>13. ASSUME UNCHANGED migrateVars
       PROVE  MInv'
  BY <1>13 DEF migrateVars, MInv, MigrateTypeOK, AppliedOnceInOrder
<1> QED BY <1>5, <1>6, <1>7, <1>8, <1>9, <1>10, <1>11, <1>12, <1>13, ApplyStep
        DEF MigrateNext, Step

LEMMA MInvHolds == MigrateSpec => []MInv
BY InitMInv, StepMInv, PTL DEF MigrateSpec

----------------------------------------------------------------------------
(* One run at a time goes through the files, and only while it holds the   *)
(* lock (migrate.py:66-97).                                                *)
THEOREM OneRunAtATime == MigrateSpec => []MigrateTypeOK
<1>1. MInv => MigrateTypeOK
  BY DEF MInv
<1> QED BY <1>1, MInvHolds, PTL

(* Each file takes effect once, in filename order, and is recorded if and  *)
(* only if it did (migrate.py:1-8, :85-91).                                *)
THEOREM FilesApplyOnceInOrder == MigrateSpec => []AppliedOnceInOrder
<1>1. MInv => AppliedOnceInOrder
  BY DEF MInv
<1> QED BY <1>1, MInvHolds, PTL

(* "up to date" is true of the release that says so, its table read before *)
(* the lock notwithstanding (migrate.py:48-51, :69-95).                    *)
THEOREM UpToDateIsTrue == MigrateSpec => []UpToDateMeansApplied
<1>1. ASSUME MInv, NEW d \in Deploys, run[d].pc = "up_to_date",
             NEW i \in DOMAIN Releases[d]
      PROVE  i \in DOMAIN recorded /\ recorded[i] = Releases[d][i]
  <2>1. run[d].next \in FileNumbers /\ run[d].next \notin DOMAIN Releases[d]
        /\ Within(Before(d, run[d].next), recorded)
    BY <1>1 DEF MInv, MigrateTypeOK, Sound
  <2>2. Releases[d] \in Seq(Contents)
    BY DeploysHaveReleases
  <2>3. i \in 1 .. run[d].next - 1
    BY <2>1, <2>2 DEF FileNumbers
  <2> QED BY <2>1, <2>3 DEF Within, Before
<1>2. MInv => UpToDateMeansApplied
  BY <1>1 DEF UpToDateMeansApplied
<1> QED BY <1>2, MInvHolds, PTL

----------------------------------------------------------------------------
(* A worker. *)

(* The pool is open while lifespan serves, and only then there are         *)
(* handlers.                                                               *)
PhaseInv ==
    /\ phase \in {"starting", "serving", "draining"} => pool
    /\ phase \notin {"serving", "draining"} => Drained
    /\ phase \in {"connecting", "starting", "closing", "down"} => ~client
    /\ phase = "down" => ~pool

(* Whoever may still have to ask something of B2 has the storage client:   *)
(* also an upload that will have to clean up.                              *)
HandlerInv ==
    \A r \in Requests :
        /\ kind[r] = "none" => todo[r] = <<>>
        /\ (\E i \in DOMAIN todo[r] : todo[r][i] = "b2") => client
        /\ kind[r] = "upload" /\ todo[r] # <<>> => client

WInv == WorkerTypeOK /\ IsFiniteSet(holds) /\ PhaseInv /\ HandlerInv

LEMMA InvariantSuffices == WInv => ResourcesOutliveHandlers
  BY DEF WInv, PhaseInv, HandlerInv, ResourcesOutliveHandlers, Drained

----------------------------------------------------------------------------

LEMMA PlansAreSequences ==
    ASSUME NEW k \in DOMAIN Plan
    PROVE  /\ PlanOf(k) \in Seq({"db", "b2"})
           /\ ~client => \A i \in DOMAIN PlanOf(k) : PlanOf(k)[i] # "b2"
           /\ ~client /\ k = "upload" => PlanOf(k) = <<>>
           /\ k # "none"
  <1>1. k \in {"live", "ready", "page", "bundle", "purge", "upload"}
    <2>1. DOMAIN Plan = {"live", "ready", "page", "bundle", "purge", "upload"}
      BY DEF Plan
    <2> QED BY <2>1
  <1>2. /\ Plan["live"] = <<>> /\ Plan["ready"] = <<"db">> /\ Plan["page"] = <<"db">>
        /\ Plan["bundle"] = <<"db", "db", "db">> /\ Plan["purge"] = <<"db", "b2">>
        /\ Plan["upload"] = <<"db", "b2", "db">>
    BY DEF Plan
  <1>3. Plan[k] \in Seq({"db", "b2"})
    <2>1. /\ <<>> \in Seq({"db", "b2"}) /\ <<"db">> \in Seq({"db", "b2"})
          /\ <<"db", "b2">> \in Seq({"db", "b2"})
          /\ <<"db", "db", "db">> \in Seq({"db", "b2"}) /\ <<"db", "b2", "db">> \in Seq({"db", "b2"})
      OBVIOUS
    <2> QED BY <1>1, <1>2, <2>1
  <1>4. k \notin {"purge", "upload"} => \A i \in DOMAIN Plan[k] : Plan[k][i] # "b2"
    <2>1. /\ DOMAIN <<>> = {}
          /\ \A i \in DOMAIN <<"db">> : <<"db">>[i] = "db"
          /\ \A i \in DOMAIN <<"db", "db", "db">> : <<"db", "db", "db">>[i] = "db"
      OBVIOUS
    <2>2. CASE k = "live"             BY <1>2, <2>1, <2>2
    <2>3. CASE k \in {"ready", "page"} BY <1>2, <2>1, <2>3
    <2>4. CASE k = "bundle"           BY <1>2, <2>1, <2>4
    <2> QED BY <1>1, <2>2, <2>3, <2>4
  <1>5. PlanOf(k) = IF ~client /\ k = "upload" THEN <<>>
                    ELSE IF ~client /\ k = "purge" THEN <<"db">> ELSE Plan[k]
    BY DEF PlanOf
  <1>6. /\ <<"db">> \in Seq({"db", "b2"}) /\ <<>> \in Seq({"db", "b2"})
        /\ \A i \in DOMAIN <<"db">> : <<"db">>[i] # "b2"
        /\ DOMAIN <<>> = {}
    OBVIOUS
  <1>7. PlanOf(k) \in Seq({"db", "b2"})
    BY <1>3, <1>5, <1>6
  <1>8. ~client => \A i \in DOMAIN PlanOf(k) : PlanOf(k)[i] # "b2"
    BY <1>4, <1>5, <1>6
  <1> QED BY <1>1, <1>5, <1>7, <1>8

(* What goes on after an await, or after one that has raised, is a shorter *)
(* sequence, or the cleanup of an upload.                                  *)
LEMMA GoingOn ==
    ASSUME WorkerTypeOK, NEW r \in Requests, todo[r] # <<>>, Proceed(r) \/ Raises(r)
    PROVE  /\ todo' \in [Requests -> Seq({"db", "b2"})]
           /\ \A q \in Requests \ {r} : todo'[q] = todo[q]
           /\ \A i \in DOMAIN todo'[r] : todo'[r][i] = "b2" =>
                \/ \E j \in DOMAIN todo[r] : todo[r][j] = "b2"
                \/ kind[r] = "upload"
  <1>1. CASE Proceed(r)
    <2>1. /\ Tail(todo[r]) \in Seq({"db", "b2"})
          /\ \A i \in DOMAIN Tail(todo[r]) :
                /\ i + 1 \in DOMAIN todo[r]
                /\ Tail(todo[r])[i] = todo[r][i + 1]
      BY DEF WorkerTypeOK
    <2> QED BY <1>1, <2>1 DEF WorkerTypeOK, Proceed
  <1>2. CASE Raises(r)
    <2>1. <<"b2">> \in Seq({"db", "b2"}) /\ <<>> \in Seq({"db", "b2"}) /\ DOMAIN <<>> = {}
      OBVIOUS
    <2>2. /\ todo'[r] = <<>> \/ kind[r] = "upload"
          /\ todo'[r] \in Seq({"db", "b2"})
      BY <1>2, <2>1 DEF WorkerTypeOK, Raises
    <2>3. /\ todo' \in [Requests -> Seq({"db", "b2"})]
          /\ \A q \in Requests \ {r} : todo'[q] = todo[q]
      BY <1>2, <2>1 DEF WorkerTypeOK, Raises
    <2> QED BY <2>1, <2>2, <2>3
  <1> QED BY <1>1, <1>2

----------------------------------------------------------------------------

LEMMA InitHolds == WorkerInit => WInv
  <1> SUFFICES ASSUME WorkerInit PROVE WInv
    OBVIOUS
  <1>1. IsFiniteSet(holds) /\ Cardinality(holds) = 0
    BY FS_EmptySet DEF WorkerInit
  <1>2. WorkerTypeOK
    <2>1. <<>> \in Seq({"db", "b2"})
      OBVIOUS
    <2>2. puts \in [Requests -> 0 .. PutsMax]
      BY WorkerConstants DEF WorkerInit
    <2>3. todo \in [Requests -> Seq({"db", "b2"})] /\ kind \in [Requests -> {"none"} \cup DOMAIN Plan]
      BY <2>1 DEF WorkerInit
    <2>4. Cardinality(holds) <= PoolMax
      BY <1>1, WorkerConstants
    <2> QED BY <2>2, <2>3, <2>4 DEF WorkerInit, WorkerTypeOK, Ended
  <1>3. PhaseInv
    BY DEF WorkerInit, PhaseInv, Drained
  <1>4. HandlerInv
    <2>1. DOMAIN <<>> = {}
      OBVIOUS
    <2> QED BY <2>1 DEF WorkerInit, HandlerInv
  <1> QED BY <1>1, <1>2, <1>3, <1>4 DEF WInv

(* lifespan and signals: no handler, or none that goes on. *)
LEMMA LifespanKeeps == WInv /\ (Boot \/ Lifespan \/ Terminate) => WInv'
  <1> SUFFICES ASSUME WInv, Boot \/ Lifespan \/ Terminate PROVE WInv'
    OBVIOUS
  <1> USE DEF WInv
  <1>1. UNCHANGED <<todo, kind, holds>>
    BY DEF Boot, Lifespan, Connect, StartStorage, StopStorage, Disconnect, Terminate, requestVars
  <1>2. puts' = puts \/ puts' = [r \in Requests |-> 0]
    BY DEF Boot, Lifespan, Connect, StartStorage, StopStorage, Disconnect, Terminate, requestVars
  <1>3. puts' \in [Requests -> 0 .. PutsMax]
    <2>1. 0 \in 0 .. PutsMax
      BY WorkerConstants
    <2> QED BY <1>2, <2>1 DEF WorkerTypeOK
  <1>4. /\ phase' \in Ended \cup {"connecting", "starting", "serving", "draining", "closing"}
        /\ pool' \in BOOLEAN /\ client' \in BOOLEAN
    BY WorkerConstants DEF WorkerTypeOK, Ended, Boot, Lifespan, Connect, StartStorage,
                           StopStorage, Disconnect, Terminate, requestVars
  <1>5. WorkerTypeOK'
    BY <1>1, <1>3, <1>4 DEF WorkerTypeOK
  <1>6. PhaseInv'
    <2>1. Drained' = Drained
      BY <1>1 DEF Drained
    <2>2. CASE Boot          BY <2>1, <2>2 DEF PhaseInv, Ended, Boot
    <2>3. CASE Connect       BY <2>1, <2>3 DEF PhaseInv, Connect
    <2>4. CASE StartStorage  BY <2>1, <2>4 DEF PhaseInv, StartStorage
    <2>5. CASE StopStorage   BY <2>1, <2>5 DEF PhaseInv, StopStorage
    <2>6. CASE Disconnect    BY <2>1, <2>6 DEF PhaseInv, Disconnect
    <2>7. CASE Terminate     BY <2>1, <2>7 DEF PhaseInv, Terminate
    <2> QED BY <2>2, <2>3, <2>4, <2>5, <2>6, <2>7 DEF Lifespan
  <1>7. HandlerInv'
    <2>1. Drained \/ client' = client
      BY DEF PhaseInv, Ended, Boot, Lifespan, Connect, StartStorage, StopStorage, Disconnect,
             Terminate
    <2>2. Drained => \A r \in Requests : kind[r] = "none" /\ todo[r] = <<>>
      BY DEF Drained, HandlerInv
    <2>3. DOMAIN <<>> = {}
      OBVIOUS
    <2> QED BY <1>1, <2>1, <2>2, <2>3 DEF HandlerInv
  <1> QED BY <1>1, <1>5, <1>6, <1>7

LEMMA ArriveKeeps ==
    ASSUME WInv, NEW r \in Requests, NEW k \in DOMAIN Plan, Arrive(r, k)
    PROVE  WInv'
  <1> USE DEF WInv
  <1>1. WorkerTypeOK'
    BY PlansAreSequences DEF WorkerTypeOK, Arrive
  <1>2. PhaseInv'
    BY DEF PhaseInv, Drained, Arrive
  <1>3. HandlerInv'
    <2> SUFFICES ASSUME NEW q \in Requests
                 PROVE  /\ kind'[q] = "none" => todo'[q] = <<>>
                        /\ (\E i \in DOMAIN todo'[q] : todo'[q][i] = "b2") => client'
                        /\ kind'[q] = "upload" /\ todo'[q] # <<>> => client'
      BY DEF HandlerInv
    <2>1. CASE q = r
      BY <2>1, PlansAreSequences DEF WorkerTypeOK, Arrive
    <2>2. CASE q # r
      BY <2>2 DEF WorkerTypeOK, HandlerInv, Arrive
    <2> QED BY <2>1, <2>2
  <1> QED BY <1>1, <1>2, <1>3 DEF Arrive

LEMMA AcquireKeeps ==
    ASSUME WInv, NEW r \in Requests, Acquire(r)
    PROVE  WInv'
  <1> USE DEF WInv
  <1>1. IsFiniteSet(holds') /\ Cardinality(holds') = Cardinality(holds) + 1
    BY FS_AddElement DEF Acquire
  <1>2. Cardinality(holds) \in Nat
    BY FS_CardinalityType
  <1>3. Cardinality(holds') <= PoolMax
    BY <1>1, <1>2, WorkerConstants DEF Acquire
  <1>4. WorkerTypeOK'
    BY <1>3 DEF WorkerTypeOK, HandlerInv, Acquire
  <1>5. PhaseInv' /\ HandlerInv'
    BY DEF PhaseInv, HandlerInv, Drained, Acquire
  <1> QED BY <1>1, <1>4, <1>5

(* A connection is given back, or a call to B2 ends, and the handler goes  *)
(* on or not at all.                                                       *)
LEMMA ReleaseKeeps ==
    ASSUME WInv, NEW r \in Requests, Release(r)
    PROVE  WInv'
  <1> USE DEF WInv
  <1>1. /\ todo[r] # <<>>
        /\ kind[r] # "none"
        /\ Proceed(r) \/ Raises(r)
    BY DEF WorkerTypeOK, Release
  <1>2. IsFiniteSet(holds') /\ Cardinality(holds') = Cardinality(holds) - 1
    BY FS_RemoveElement DEF Release
  <1>3. Cardinality(holds) \in Nat
    BY FS_CardinalityType
  <1>4. Cardinality(holds') <= PoolMax
    BY <1>2, <1>3, WorkerConstants DEF WorkerTypeOK
  <1>5. WorkerTypeOK'
    BY <1>1, <1>4, GoingOn DEF WorkerTypeOK, Release
  <1>6. PhaseInv'
    BY DEF PhaseInv, Drained, Release
  <1>7. HandlerInv'
    BY <1>1, GoingOn DEF HandlerInv, WorkerTypeOK, Release
  <1> QED BY <1>2, <1>5, <1>6, <1>7

LEMMA B2EndsKeeps ==
    ASSUME WInv, NEW r \in Requests, B2Ends(r)
    PROVE  WInv'
  <1> USE DEF WInv
  <1>1. puts' \in [Requests -> 0 .. PutsMax]
    BY WorkerConstants DEF WorkerTypeOK, B2Ends
  <1>2. CASE UNCHANGED todo
    BY <1>1, <1>2 DEF WorkerTypeOK, PhaseInv, HandlerInv, Drained, B2Ends
  <1>3. CASE /\ todo[r] # <<>> /\ Head(todo[r]) = "b2"
             /\ Proceed(r) \/ Raises(r)
    <2>1. kind[r] # "none" /\ r \notin holds
      BY <1>3 DEF WorkerTypeOK, HandlerInv
    <2>2. WorkerTypeOK'
      BY <1>1, <1>3, <2>1, GoingOn DEF WorkerTypeOK, B2Ends
    <2>3. PhaseInv'
      BY DEF PhaseInv, Drained, B2Ends
    <2>4. HandlerInv'
      BY <1>3, <2>1, GoingOn DEF HandlerInv, WorkerTypeOK, B2Ends
    <2> QED BY <2>2, <2>3, <2>4 DEF B2Ends
  <1> QED BY <1>2, <1>3 DEF B2Ends

LEMMA CallAndAnswerKeep ==
    ASSUME WInv, NEW r \in Requests, CallB2(r) \/ Answer(r)
    PROVE  WInv'
  <1> USE DEF WInv
  <1>1. CASE CallB2(r)
    <2>1. puts' \in [Requests -> 0 .. PutsMax]
      BY <1>1, WorkerConstants DEF WorkerTypeOK, CallB2
    <2> QED BY <1>1, <2>1 DEF WorkerTypeOK, PhaseInv, HandlerInv, Drained, CallB2
  <1>2. CASE Answer(r)
    <2>1. WorkerTypeOK'
      BY <1>2 DEF WorkerTypeOK, Answer
    <2>2. PhaseInv' /\ HandlerInv'
      BY <1>2 DEF WorkerTypeOK, PhaseInv, HandlerInv, Drained, Answer
    <2> QED BY <1>2, <2>1, <2>2 DEF Answer
  <1> QED BY <1>1, <1>2

LEMMA StutterKeeps == WInv /\ UNCHANGED workerVars => WInv'
  BY DEF WInv, WorkerTypeOK, PhaseInv, HandlerInv, Drained, workerVars

LEMMA StepKeeps == WInv /\ [WorkerNext]_workerVars => WInv'
  BY LifespanKeeps, ArriveKeeps, AcquireKeeps, ReleaseKeeps, B2EndsKeeps, CallAndAnswerKeep,
     StutterKeeps DEF WorkerNext

----------------------------------------------------------------------------

(* The type invariant: in particular no more than DB_POOL_MAX handlers     *)
(* hold a connection, and each of them is one that needs it.               *)
THEOREM WorkerTypeCorrect == WorkerSpec => []WorkerTypeOK
  <1>1. WInv => WorkerTypeOK
    BY DEF WInv
  <1> QED BY <1>1, InitHolds, StepKeeps, PTL DEF WorkerSpec

(* Handlers keep pool and storage client to their end, whatever fails at   *)
(* start or stop, and what goes down in order leaves nothing open          *)
(* (main.py:47-58).                                                        *)
THEOREM NothingClosedUnderHandlers == WorkerSpec => []ResourcesOutliveHandlers
  BY InitHolds, StepKeeps, InvariantSuffices, PTL DEF WorkerSpec
=============================================================================
