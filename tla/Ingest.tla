------------------------------- MODULE Ingest -------------------------------
(***************************************************************************)
(* POST and DELETE /admin/artworks on one worker: an upload puts one to    *)
(* three objects in the bucket concurrently, under the worker's semaphore, *)
(* then inserts one row; if the insert raises it deletes the objects.      *)
(* A delete soft-deletes the row and, on request, purges the objects.      *)
(*                                                                         *)
(* Extends Catalogue: the rows, constraints and triggers are those.  The   *)
(* steps between two awaits of a handler are one action; anything may      *)
(* happen at an await.  Other workers, and psql, appear as the statements  *)
(* on categories that can fall between them.                               *)
(*                                                                         *)
(* Upload u inserts the artworks row with id u: the id stands for whatever *)
(* the sequence hands out at the insert, and for the uuid in the keys.     *)
(***************************************************************************)
EXTENDS Catalogue

CONSTANTS Seeded,       \* the categories table to begin with
          TargetWidth,  \* THUMB_WIDTH and PREVIEW_WIDTH, by rendition
          Widths,       \* widths that images come in
          Concurrency,  \* B2_UPLOAD_CONCURRENCY
          AllowPurge,   \* STORAGE_ALLOW_PURGE
          EnforceKind,  \* ENFORCE_KIND_MEDIA_MATCH
          Faults        \* what the environment may do

AllFaults == {"put",          \* put_object raises
              "insert",       \* the INSERT raises and has not committed
              "lost_commit",  \* the INSERT raises but has committed
              "delete",       \* delete_objects does not delete all it is given
              "crash",        \* the worker is killed and restarted
              "erase"}        \* a category is deleted in psql

ASSUME SeededCatalogue ==
    /\ DOMAIN Seeded \subseteq CategoryIds
    /\ Seeded \in [DOMAIN Seeded -> CategoryRow]
    /\ \A c \in DOMAIN Seeded :
            /\ Seeded[c].artwork_count = 0
            /\ Seeded[c].parent_id \in DOMAIN Seeded \cup {NULL}
            /\ (Seeded[c].parent_id = NULL) <=> (Seeded[c].kind = NULL)

Renditions == DOMAIN TargetWidth

ASSUME Configuration ==
    /\ "original" \notin Renditions
    /\ TargetWidth \in [Renditions -> Nat] /\ Widths \subseteq Nat
    /\ Concurrency \in Nat \ {0}
    /\ AllowPurge \in BOOLEAN
    /\ EnforceKind \in BOOLEAN
    /\ Faults \subseteq AllFaults

VARIABLES req,      \* upload requests
          put,      \* state of each Storage.put
          permits,  \* free permits of the semaphore
          bucket,   \* objects in the bucket, as <<upload, part>>
          del       \* delete requests, by artwork

ingestVars == <<categories, artworks, req, put, permits, bucket, del>>

Parts == {"original"} \cup Renditions
Media == {"image", "video"}

Ends == {"published", "put_failed", "rolled_back", "rollback_failed", "crashed"}
InFlight == {"putting", "inserting", "cleaning"}

Uploads == [pc       : {"idle"} \cup InFlight \cup Ends,
            category : CategoryIds \cup {NULL},
            media    : Media \cup {NULL},
            parts    : SUBSET Parts]

Deletes == {"none", "purging", "kept", "purged", "purge_incomplete", "purge_failed"}

PutStates == {"none", "waiting", "sending", "stored", "failed"}

IngestTypeOK ==
    /\ req \in [ArtworkIds -> Uploads]
    /\ put \in [ArtworkIds -> [Parts -> PutStates]]
    /\ permits \in 0 .. Concurrency
    /\ bucket \subseteq ArtworkIds \X Parts
    /\ del \in [ArtworkIds -> Deletes]

(* The seed script's categories and, to begin with, no media. *)
IngestInit ==
    /\ categories = Seeded
    /\ artworks = [a \in {} |-> NULL]
    /\ req = [u \in ArtworkIds |->
                [pc |-> "idle", category |-> NULL, media |-> NULL, parts |-> {}]]
    /\ put = [u \in ArtworkIds |-> [p \in Parts |-> "none"]]
    /\ permits = Concurrency
    /\ bucket = {}
    /\ del = [u \in ArtworkIds |-> "none"]

(* The objects being sent. *)
Sending == {o \in ArtworkIds \X Parts : put[o[1]][o[2]] = "sending"}

Goto(u, pc) == req' = [req EXCEPT ![u].pc = pc]

PutTo(u, p, state) == put' = [put EXCEPT ![u][p] = state]

(* Wrong on purpose: the renditions are forgotten. *)
OriginalOf(u) == {<<u, "original">>}

(* The objects upload u puts, and its row names. *)
ObjectsOf(u) == {u} \X req[u].parts

----------------------------------------------------------------------------
(* The upload. *)

Expected(kind) == IF kind = "static" THEN "image" ELSE "video"

MediaFits(c, media) == EnforceKind => media = Expected(categories[c].kind)

(* What Pillow makes of it: only what is narrower than the image itself.   *)
RenditionsOf(media, width) ==
    {r \in Renditions : media = "image" /\ width > TargetWidth[r]}

(* Everything up to put_many: the checks against CATEGORY_META, then the   *)
(* renditions.  A request that fails a check, or whose file Pillow cannot  *)
(* read, changes nothing and is no step.                                   *)
StartUpload(u, c, media, width) ==
    /\ req[u].pc = "idle"
    /\ c \in DOMAIN categories
    /\ categories[c].is_active
    /\ ~IsRoot(c)
    /\ MediaFits(c, media)
    /\ LET parts == {"original"} \cup RenditionsOf(media, width) IN
         /\ req' = [req EXCEPT ![u] = [pc |-> "putting", category |-> c,
                                       media |-> media, parts |-> parts]]
         /\ put' = [put EXCEPT ![u] = [p \in Parts |->
                                        IF p \in parts THEN "waiting" ELSE "none"]]
    /\ UNCHANGED <<vars, permits, bucket, del>>

(* Wrong on purpose: the put does not wait for its permit. *)
PutStartAtOnce(u, p) ==
    /\ put[u][p] = "waiting"
    /\ PutTo(u, p, "sending")
    /\ UNCHANGED <<vars, req, permits, bucket, del>>

PutStart(u, p) ==
    /\ put[u][p] = "waiting"
    /\ permits > 0
    /\ permits' = permits - 1
    /\ PutTo(u, p, "sending")
    /\ UNCHANGED <<vars, req, bucket, del>>

PutDone(u, p) ==
    /\ put[u][p] = "sending"
    /\ permits' = permits + 1
    /\ PutTo(u, p, "stored")
    /\ bucket' = bucket \cup {<<u, p>>}
    /\ UNCHANGED <<vars, req, del>>

(* Wrong on purpose: acquire and release without a finally. *)
PutFailLeaks(u, p, landed) ==
    /\ "put" \in Faults
    /\ put[u][p] = "sending"
    /\ PutTo(u, p, "failed")
    /\ bucket' = bucket \cup landed
    /\ UNCHANGED <<vars, req, permits, del>>

(* put_object raises after its retries; the object may have landed.        *)
PutFail(u, p, landed) ==
    /\ "put" \in Faults
    /\ put[u][p] = "sending"
    /\ permits' = permits + 1
    /\ PutTo(u, p, "failed")
    /\ bucket' = bucket \cup landed
    /\ UNCHANGED <<vars, req, del>>

(* Wrong on purpose: the first put that is done will do. *)
OnePutDone(u) ==
    /\ req[u].pc = "putting"
    /\ \E p \in req[u].parts : put[u][p] = "stored"
    /\ Goto(u, "inserting")
    /\ UNCHANGED <<vars, put, permits, bucket, del>>

PutsDone(u) ==
    /\ req[u].pc = "putting"
    /\ \A p \in req[u].parts : put[u][p] = "stored"
    /\ Goto(u, "inserting")
    /\ UNCHANGED <<vars, put, permits, bucket, del>>

(* Wrong on purpose: gather with return_exceptions, its result not read.   *)
PutsFailedUnread(u) ==
    /\ req[u].pc = "putting"
    /\ \E p \in req[u].parts : put[u][p] = "failed"
    /\ Goto(u, "inserting")
    /\ UNCHANGED <<vars, put, permits, bucket, del>>

(* gather raises at the first failure.  It does not cancel the other puts, *)
(* which go on by themselves, and nothing deletes what they store.         *)
PutsFailed(u) ==
    /\ req[u].pc = "putting"
    /\ \E p \in req[u].parts : put[u][p] = "failed"
    /\ Goto(u, "put_failed")
    /\ UNCHANGED <<vars, put, permits, bucket, del>>

Insert(u) ==
    /\ req[u].pc = "inserting"
    /\ InsertArtwork(u, req[u].category, TRUE)
    /\ Goto(u, "published")
    /\ UNCHANGED <<put, permits, bucket, del>>

(* The trigger rejects the row, or the connection or a timeout does.       *)
InsertFails(u) ==
    /\ req[u].pc = "inserting"
    /\ "insert" \in Faults \/ ~RequireSubcategory(req[u].category)
    /\ Goto(u, "cleaning")
    /\ UNCHANGED <<vars, put, permits, bucket, del>>

(* The connection breaks after the commit and before the answer. *)
InsertLost(u) ==
    /\ "lost_commit" \in Faults
    /\ req[u].pc = "inserting"
    /\ InsertArtwork(u, req[u].category, TRUE)
    /\ Goto(u, "cleaning")
    /\ UNCHANGED <<put, permits, bucket, del>>

----------------------------------------------------------------------------
Cleanup(u) ==
    /\ req[u].pc = "cleaning"
    /\ bucket' = bucket \ ObjectsOf(u)
    /\ Goto(u, "rolled_back")
    /\ UNCHANGED <<vars, put, permits, del>>

(* delete_objects raises, or reports errors for keys that nobody reads; the *)
(* request fails with the error of its INSERT either way.                  *)
CleanupFails(u) ==
    /\ "delete" \in Faults
    /\ req[u].pc = "cleaning"
    /\ \E left \in SUBSET (ObjectsOf(u) \cap bucket) :
            bucket' = (bucket \ ObjectsOf(u)) \cup left
    /\ Goto(u, "rollback_failed")
    /\ UNCHANGED <<vars, put, permits, del>>

----------------------------------------------------------------------------
(* The delete. *)

(* Wrong on purpose: DELETE instead of an UPDATE of is_active. *)
HardDelete(u, purge) ==
    /\ EraseArtwork(u)
    /\ artworks[u].is_active
    /\ del' = [del EXCEPT ![u] = IF purge /\ AllowPurge THEN "purging" ELSE "kept"]
    /\ UNCHANGED <<req, put, permits, bucket>>

Delete(u, purge) ==
    /\ SoftDeleteArtwork(u)
    /\ del' = [del EXCEPT ![u] = IF purge /\ AllowPurge THEN "purging" ELSE "kept"]
    /\ UNCHANGED <<req, put, permits, bucket>>

Purge(u) ==
    /\ del[u] = "purging"
    /\ bucket' = bucket \ ObjectsOf(u)
    /\ del' = [del EXCEPT ![u] = "purged"]
    /\ UNCHANGED <<vars, req, put, permits>>

(* The same of a purge.  If delete_objects raises the request fails; if it *)
(* reports errors for keys it is answered as if the purge were complete.   *)
PurgeFails(u) ==
    /\ "delete" \in Faults
    /\ del[u] = "purging"
    /\ \E left \in SUBSET (ObjectsOf(u) \cap bucket) :
            bucket' = (bucket \ ObjectsOf(u)) \cup left
    /\ \E end \in {"purge_failed", "purge_incomplete"} : del' = [del EXCEPT ![u] = end]
    /\ UNCHANGED <<vars, req, put, permits>>

----------------------------------------------------------------------------
(* The environment. *)

(* Every handler and put of the worker is gone; of the puts under way some *)
(* may still have landed.  The new process has a new semaphore.            *)
Crash ==
    /\ "crash" \in Faults
    /\ req' = [u \in ArtworkIds |->
                [req[u] EXCEPT !.pc = IF @ \in InFlight THEN "crashed" ELSE @]]
    /\ put' = [u \in ArtworkIds |-> [p \in Parts |->
                IF put[u][p] \in {"waiting", "sending"} THEN "failed" ELSE put[u][p]]]
    /\ permits' = Concurrency
    /\ \E landed \in SUBSET Sending :
            bucket' = bucket \cup landed
    /\ del' = [u \in ArtworkIds |-> IF del[u] = "purging" THEN "purge_failed" ELSE del[u]]
    /\ UNCHANGED vars

(* Other requests, and psql, on the categories. *)
CategoryChanges ==
    /\ \/ \E c \in CategoryIds, b \in BOOLEAN : UpdateCategory(c, b)
       \/ \E c \in CategoryIds : DeleteCategory(c)
       \/ "erase" \in Faults /\ EraseNext
       \/ Recount
    /\ UNCHANGED <<req, put, permits, bucket, del>>

PutStep(u, p) ==
    \/ PutStart(u, p)
    \/ PutDone(u, p)
    \/ \E landed \in SUBSET {<<u, p>>} : PutFail(u, p, landed)

HandlerStep(u) ==
    \/ PutsDone(u)
    \/ PutsFailed(u)
    \/ Insert(u)
    \/ InsertFails(u)
    \/ InsertLost(u)
    \/ Cleanup(u)
    \/ CleanupFails(u)

PurgeStep(u) == Purge(u) \/ PurgeFails(u)

IngestNext ==
    \/ \E u \in ArtworkIds, c \in CategoryIds, m \in Media, w \in Widths :
            StartUpload(u, c, m, w)
    \/ \E u \in ArtworkIds, p \in Parts : PutStep(u, p)
    \/ \E u \in ArtworkIds : HandlerStep(u)
    \/ \E u \in ArtworkIds, purge \in BOOLEAN : Delete(u, purge)
    \/ \E u \in ArtworkIds : PurgeStep(u)
    \/ Crash
    \/ CategoryChanges

(* What is started runs on: the event loop schedules every ready task, and *)
(* boto's and asyncpg's timeouts end every call one way or the other.      *)
(* Clients, admins and crashes owe nobody anything.                        *)
IngestSpec ==
    /\ IngestInit
    /\ [][IngestNext]_ingestVars
    /\ \A u \in ArtworkIds, p \in Parts : WF_ingestVars(PutStep(u, p))
    /\ \A u \in ArtworkIds : WF_ingestVars(HandlerStep(u)) /\ WF_ingestVars(PurgeStep(u))

----------------------------------------------------------------------------
(* Properties. *)

(* Every permit is either free or held by a put that is being sent, on     *)
(* each path out of the `async with`, and again after a restart            *)
(* (storage.py:121): a leak would starve uploads for good.                 *)
PermitsConserved ==
    permits + Cardinality(Sending) = Concurrency

(* A medium answered with 201 and not deleted since has each object its    *)
(* row names in the bucket, whatever failed for other requests meanwhile   *)
(* (admin.py:216-232, put_many before the INSERT).                         *)
PublishedHasMedia ==
    \A u \in DOMAIN artworks :
        artworks[u].is_active /\ req[u].pc = "published" => ObjectsOf(u) \subseteq bucket

(* After a rollback or a purge for which delete_objects reported no error  *)
(* nothing of the upload is left, and nothing still running can bring it   *)
(* back (admin.py:236 and :256).                                           *)
GoneMeansGone ==
    \A u \in ArtworkIds :
        req[u].pc = "rolled_back" \/ del[u] = "purged" => ({u} \X Parts) \cap bucket = {}

(* Rows and bucket match, whatever failed, crashed or was deleted meanwhile *)
(* (admin.py:216-257).  Each row, soft-deleted ones included, has all its   *)
(* objects, unless its purge was asked for or its request failed and        *)
(* deleted them under it (admin.py:236, after a commit that went unheard).  *)
(* An object has a row, unless its request is under way, failed at a put,   *)
(* could not roll back or died with its worker, or its medium went with a   *)
(* category that is no longer there.                                        *)
RowsMatchBucket ==
    \A u \in ArtworkIds :
        /\ u \in DOMAIN artworks =>
                \/ ObjectsOf(u) \subseteq bucket
                \/ del[u] \notin {"none", "kept"}
                \/ req[u].pc \in {"rolled_back", "rollback_failed"}
        /\ ({u} \X Parts) \cap bucket # {} =>
                \/ u \in DOMAIN artworks
                \/ req[u].pc \in InFlight \cup {"put_failed", "rollback_failed", "crashed"}
                \/ req[u].pc = "published" /\ req[u].category \notin DOMAIN categories

(* admin.py:235, "Never leave objects in the bucket that no row points     *)
(* at", and README.md:129-130, "nothing is orphaned in the bucket", of     *)
(* requests that have ended.                                               *)
NoOrphans ==
    \A u \in ArtworkIds :
        req[u].pc \in Ends /\ u \notin DOMAIN artworks => ({u} \X Parts) \cap bucket = {}

(* Every upload that passed its checks is answered: failed puts of others  *)
(* do not keep it waiting for the semaphore forever (storage.py:121-131).  *)
EveryUploadAnswered ==
    \A u \in ArtworkIds : (req[u].pc = "putting") ~> (req[u].pc \in Ends)

(* Uploads and deletes implement AtomicUpload.  A medium is public when    *)
(* its row is active and its objects are there.                            *)
Answers ==
    [u \in ArtworkIds |->
        IF req[u].pc = "idle" THEN "none"
        ELSE IF req[u].pc \in InFlight THEN "pending"
        ELSE IF req[u].pc = "published" THEN "created"
        ELSE "error"]

Public == {u \in DOMAIN artworks : artworks[u].is_active /\ ObjectsOf(u) \subseteq bucket}

Abstract == INSTANCE AtomicUpload WITH
    Uploads <- ArtworkIds, answer <- Answers, public <- Public

UploadIsAtomic == Abstract!Spec
=============================================================================
