---------------------------- MODULE IngestProofs ----------------------------
(***************************************************************************)
(* Proofs about Ingest for any number of uploads and renditions, any       *)
(* concurrency, configuration and seeded catalogue.                        *)
(***************************************************************************)
EXTENDS Ingest, CatalogueProofs

----------------------------------------------------------------------------
(* The catalogue under uploads and deletes. *)

LEMMA SeededIInv == IngestInit => IInv
<1> SUFFICES ASSUME IngestInit PROVE IInv
  OBVIOUS
<1>1. categories = Seeded /\ DOMAIN artworks = {}
  BY DEF IngestInit
<1>2. TypeOK
  BY <1>1, SeededCatalogue DEF IngestInit, TypeOK
<1>3. ParentsExist /\ MediaOnSubcategories
  BY <1>1, SeededCatalogue DEF ParentsExist, MediaOnSubcategories
<1>4. \A c \in DOMAIN categories : Counted(c) = {} /\ categories[c].artwork_count = 0
  BY <1>1, SeededCatalogue DEF Counted, ActiveIn
<1>5. IsFiniteSet(DOMAIN artworks) /\ CountsExact
  BY <1>1, <1>4, FS_EmptySet DEF CountsExact
<1> QED BY <1>2, <1>3, <1>5 DEF IInv

(* Whatever a step of a handler does to the tables is a statement of       *)
(* Catalogue, or nothing.                                                  *)
LEMMA IngestStepIsCatalogueStep ==
    ASSUME "erase" \notin Faults, IInv, [IngestNext]_ingestVars
    PROVE  [Next]_vars
<1>1. ASSUME NEW u \in ArtworkIds, NEW c \in CategoryIds, NEW m \in Media,
             NEW w \in Widths, StartUpload(u, c, m, w)
      PROVE  UNCHANGED vars
  BY <1>1 DEF StartUpload
<1>2. ASSUME NEW u \in ArtworkIds, NEW p \in Parts, PutStep(u, p)
      PROVE  UNCHANGED vars
  BY <1>2 DEF PutStep, PutStart, PutDone, PutFail
<1>3. ASSUME NEW u \in ArtworkIds, InsertArtwork(u, req[u].category, TRUE)
      PROVE  Next
  <2>1. req[u].category \in CategoryIds
    BY <1>3 DEF InsertArtwork, RequireSubcategory, IInv, TypeOK
  <2> QED BY <1>3, <2>1 DEF Next
<1>4. ASSUME NEW u \in ArtworkIds, HandlerStep(u)
      PROVE  Next \/ UNCHANGED vars
  BY <1>3, <1>4 DEF HandlerStep, PutsDone, PutsFailed, Insert, InsertFails, InsertLost,
                    Cleanup, CleanupFails
<1>5. ASSUME NEW u \in ArtworkIds, NEW purge \in BOOLEAN, Delete(u, purge)
      PROVE  Next
  BY <1>5 DEF Delete, Next
<1>6. ASSUME NEW u \in ArtworkIds, PurgeStep(u)
      PROVE  UNCHANGED vars
  BY <1>6 DEF PurgeStep, Purge, PurgeFails
<1>7. ASSUME Crash
      PROVE  UNCHANGED vars
  BY <1>7 DEF Crash
<1>8. ASSUME CategoryChanges
      PROVE  Next
  BY <1>8 DEF CategoryChanges, Next
<1>9. ASSUME UNCHANGED ingestVars
      PROVE  UNCHANGED vars
  BY <1>9 DEF ingestVars, vars
<1> QED BY <1>1, <1>2, <1>4, <1>5, <1>6, <1>7, <1>8, <1>9 DEF IngestNext

(* Uploads, deletes and purges, whatever fails or dies in the middle of    *)
(* them, leave every counter equal to the number of active media: the      *)
(* count is part of the statement, not of the handler (admin.py:218-233).  *)
THEOREM UploadsKeepCountsExact ==
    ASSUME "erase" \notin Faults
    PROVE  IngestSpec => [](CountsExact /\ MediaOnSubcategories)
<1>1. IInv /\ [IngestNext]_ingestVars => IInv'
  BY IngestStepIsCatalogueStep, StepIInv
<1>2. IInv => CountsExact /\ MediaOnSubcategories
  BY DEF IInv
<1> QED BY SeededIInv, <1>1, <1>2, PTL DEF IngestSpec

(* Categories may also be deleted in psql, media and all.  The seed script *)
(* makes a tree of one level, and then no counter ever falls short.  That  *)
(* a category has no subcategories unless it is a root is what makes       *)
(* Recount right of all of them.                                           *)
OneLevelSeed ==
    \A c \in DOMAIN Seeded :
        Seeded[c].parent_id # NULL => Seeded[Seeded[c].parent_id].parent_id = NULL

UInv ==
    /\ Tables
    /\ \A c \in DOMAIN categories : IsRoot(c) \/ Children(c) = {}
    /\ NeverUndercounted

LEMMA DriftKeepsEnough ==
    ASSUME UInv, Tables', DOMAIN categories' = DOMAIN categories,
           \A c \in DOMAIN categories :
                categories'[c].parent_id = categories[c].parent_id /\ Drift(c)' = Drift(c)
    PROVE  UInv'
<1>1. ASSUME NEW c \in DOMAIN categories
      PROVE  /\ IsRoot(c)' <=> IsRoot(c)
             /\ Children(c)' = Children(c)
             /\ categories'[c].artwork_count >= Cardinality(Counted(c)')
  <2>1. IsRoot(c)' <=> IsRoot(c)
    BY DEF IsRoot
  <2>2. Children(c)' = Children(c)
    BY DEF Children
  <2>3. categories[c].artwork_count >= Cardinality(Counted(c))
    BY DEF UInv, NeverUndercounted
  <2>4. categories[c].artwork_count \in Nat /\ Cardinality(Counted(c)) \in Nat
    BY CountsAreIntegers DEF UInv, Tables
  <2>5. categories'[c].artwork_count \in Nat
    BY DEF Tables, TypeOK, CategoryRow
  <2>6. IsFiniteSet(Counted(c)')
    BY FS_Subset DEF Tables, Counted, ActiveIn
  <2>7. Cardinality(Counted(c)') \in Nat
    BY <2>6, FS_CardinalityType
  <2> QED BY <2>1, <2>2, <2>3, <2>4, <2>5, <2>7 DEF Drift
<1> QED BY <1>1 DEF UInv, NeverUndercounted

(* What a step that is no cascade does to the counters: each of them stays *)
(* off by as much as it was, or all of them are set right.                 *)
TreeKept ==
    /\ DOMAIN categories' = DOMAIN categories
    /\ \A c \in DOMAIN categories : categories'[c].parent_id = categories[c].parent_id

TallyKept == \A c \in DOMAIN categories : Drift(c)' = Drift(c)

TallyRight ==
    \A c \in DOMAIN categories : categories'[c].artwork_count = Cardinality(Counted(c)')

Orderly == Tables' /\ TreeKept /\ (TallyKept \/ TallyRight)

LEMMA FlagIsOrderly ==
    ASSUME UInv, NEW c \in DOMAIN categories, NEW b \in BOOLEAN,
           categories' = [categories EXCEPT ![c].is_active = b], UNCHANGED artworks
    PROVE  Orderly
<1>1. /\ DOMAIN categories' = DOMAIN categories
      /\ \A d \in DOMAIN categories :
            /\ categories'[d] \in CategoryRow
            /\ categories'[d].parent_id = categories[d].parent_id
            /\ categories'[d].artwork_count = categories[d].artwork_count
  BY DEF UInv, Tables, TypeOK, CategoryRow
<1>2. Tables'
  BY <1>1 DEF UInv, Tables, TypeOK, MediaOnSubcategories, IsRoot
<1>3. ASSUME NEW d \in DOMAIN categories
      PROVE  Drift(d)' = Drift(d)
  <2>1. Counted(d)' = Counted(d)
    BY <1>1 DEF Counted, ActiveIn, Children
  <2> QED BY <1>1, <2>1 DEF Drift
<1> QED BY <1>1, <1>2, <1>3 DEF Orderly, TreeKept, TallyKept

LEMMA RecountIsOrderly ==
    ASSUME UInv, Recount
    PROVE  Tables' /\ TreeKept /\ TallyRight
<1>1. /\ Tables'
      /\ SameShape(categories, categories')
      /\ \A c \in DOMAIN categories : categories'[c].artwork_count = Cardinality(Counted(c)')
  BY RecountEffect DEF UInv
<1> QED BY <1>1 DEF SameShape, TreeKept, TallyRight

(* Whatever the cascade takes, the categories that stay keep their         *)
(* counters and count no new media.                                        *)
LEMMA EraseKeepsEnough ==
    ASSUME UInv, NEW c \in CategoryIds, EraseCategory(c)
    PROVE  UInv'
<1>1. PICK gone : /\ categories' = Without(categories, gone)
                  /\ artworks' = Without(artworks, {a \in DOMAIN artworks :
                                                        artworks[a].category_id \in gone})
  BY DEF EraseCategory
<1>2. /\ DOMAIN categories' = DOMAIN categories \ gone
      /\ \A d \in DOMAIN categories' : categories'[d] = categories[d]
      /\ DOMAIN artworks' = {a \in DOMAIN artworks : artworks[a].category_id \notin gone}
      /\ \A a \in DOMAIN artworks' : artworks'[a] = artworks[a]
  BY <1>1 DEF Without, Restrict
<1>3. IsFiniteSet(DOMAIN artworks')
  BY <1>2, FS_Subset DEF UInv, Tables
<1>4. TypeOK'
  BY <1>1, <1>2 DEF UInv, Tables, TypeOK, Without, Restrict
<1>5. MediaOnSubcategories'
  BY <1>2 DEF UInv, Tables, MediaOnSubcategories, IsRoot
<1>6. ASSUME NEW d \in DOMAIN categories'
      PROVE  /\ IsRoot(d)' \/ Children(d)' = {}
             /\ categories'[d].artwork_count >= Cardinality(Counted(d)')
  <2>1. Children(d)' \subseteq Children(d)
    BY <1>2 DEF Children
  <2>2. IsRoot(d)' <=> IsRoot(d)
    BY <1>2 DEF IsRoot
  <2>3. Counted(d)' \subseteq Counted(d)
    BY <1>2, <2>1 DEF Counted, ActiveIn
  <2>4. IsFiniteSet(Counted(d))
    BY FS_Subset DEF UInv, Tables, Counted, ActiveIn
  <2>5. /\ Cardinality(Counted(d)') <= Cardinality(Counted(d))
        /\ Cardinality(Counted(d)') \in Nat /\ Cardinality(Counted(d)) \in Nat
    BY <2>3, <2>4, FS_Subset, FS_CardinalityType
  <2>6. /\ categories[d].artwork_count >= Cardinality(Counted(d))
        /\ categories[d].artwork_count \in Nat
    BY <1>2, CountsAreIntegers DEF UInv, Tables, NeverUndercounted
  <2> QED BY <1>2, <2>1, <2>2, <2>5, <2>6 DEF UInv
<1> QED BY <1>3, <1>4, <1>5, <1>6 DEF UInv, Tables, NeverUndercounted

LEMMA StepIsOrderly ==
    ASSUME UInv, [IngestNext]_ingestVars, ~EraseNext
    PROVE  Orderly
<1>1. CASE UNCHANGED vars
  <2>1. Tables' /\ TreeKept
    BY <1>1 DEF vars, UInv, Tables, TypeOK, MediaOnSubcategories, IsRoot, TreeKept
  <2>2. \A c : Drift(c)' = Drift(c)
    BY <1>1 DEF vars, Drift, Counted, ActiveIn, Children
  <2> QED BY <2>1, <2>2 DEF Orderly, TallyKept
<1>2. ASSUME NEW a \in ArtworkIds, NEW row \in ArtworkRow,
             RequireSubcategory(row.category_id),
             artworks' = WithRow(artworks, a, row),
             SyncCounts(CountsFor(artworks, a), CountedAs(row))
      PROVE  Orderly
  <2>1. /\ Tables'
        /\ SameShape(categories, categories')
        /\ \A c \in DOMAIN categories : Children(c)' = Children(c) /\ Drift(c)' = Drift(c)
    BY <1>2, WriteRowEffect DEF UInv
  <2> QED BY <2>1 DEF SameShape, Orderly, TreeKept, TallyKept
<1>3. ASSUME NEW u \in ArtworkIds, InsertArtwork(u, req[u].category, TRUE)
      PROVE  Orderly
  <2> DEFINE row == [category_id |-> req[u].category, is_active |-> TRUE]
  <2>1. RequireSubcategory(req[u].category)
    BY <1>3 DEF InsertArtwork
  <2>2. row \in ArtworkRow /\ row.category_id = req[u].category
    BY <2>1 DEF ArtworkRow, RequireSubcategory, UInv, Tables, TypeOK
  <2>3. /\ artworks' = WithRow(artworks, u, row)
        /\ SyncCounts(CountsFor(artworks, u), CountedAs(row))
    BY <1>3 DEF InsertArtwork, CountsFor
  <2> HIDE DEF row
  <2> QED BY <1>2, <2>1, <2>2, <2>3
<1>4. ASSUME NEW u \in ArtworkIds, SoftDeleteArtwork(u)
      PROVE  Orderly
  BY <1>2, <1>4, SoftDeleteWrites DEF UInv
<1>5. CASE Recount
  BY <1>5, RecountIsOrderly DEF Orderly
<1>6. CASE CategoryChanges
  BY <1>5, <1>6, FlagIsOrderly DEF CategoryChanges, UpdateCategory, DeleteCategory
<1>7. ASSUME NEW u \in ArtworkIds, HandlerStep(u)
      PROVE  Orderly
  BY <1>1, <1>3, <1>7 DEF HandlerStep, PutsDone, PutsFailed, Insert, InsertFails, InsertLost,
                          Cleanup, CleanupFails
<1>8. ASSUME NEW u \in ArtworkIds, NEW p \in Parts, PutStep(u, p)
      PROVE  Orderly
  BY <1>1, <1>8 DEF PutStep, PutStart, PutDone, PutFail
<1>9. ASSUME NEW u \in ArtworkIds, NEW c \in CategoryIds, NEW m \in Media,
             NEW w \in Widths, StartUpload(u, c, m, w)
      PROVE  Orderly
  BY <1>1, <1>9 DEF StartUpload
<1>10. ASSUME NEW u \in ArtworkIds, NEW purge \in BOOLEAN, Delete(u, purge)
       PROVE  Orderly
  BY <1>4, <1>10 DEF Delete
<1>11. ASSUME NEW u \in ArtworkIds, PurgeStep(u)
       PROVE  Orderly
  BY <1>1, <1>11 DEF PurgeStep, Purge, PurgeFails
<1>12. CASE Crash
  BY <1>1, <1>12 DEF Crash
<1>13. CASE UNCHANGED ingestVars
  BY <1>1, <1>13 DEF ingestVars, vars
<1> QED BY <1>6, <1>7, <1>8, <1>9, <1>10, <1>11, <1>12, <1>13 DEF IngestNext

LEMMA StepUInv ==
    ASSUME UInv, [IngestNext]_ingestVars
    PROVE  UInv'
<1>1. CASE EraseNext
  BY <1>1, EraseKeepsEnough DEF EraseNext
<1>2. CASE ~EraseNext /\ TallyRight
  <2>1. Tables' /\ TreeKept
    BY <1>2, StepIsOrderly DEF Orderly
  <2>2. ASSUME NEW c \in DOMAIN categories'
        PROVE  /\ IsRoot(c)' \/ Children(c)' = {}
               /\ categories'[c].artwork_count >= Cardinality(Counted(c)')
    <3>1. c \in DOMAIN categories /\ categories'[c].artwork_count \in Nat
      BY <2>1 DEF TreeKept, Tables, TypeOK, CategoryRow
    <3>2. (IsRoot(c)' <=> IsRoot(c)) /\ Children(c)' = Children(c)
      BY <2>1, <3>1 DEF TreeKept, IsRoot, Children
    <3> QED BY <1>2, <3>1, <3>2 DEF UInv, TallyRight
  <2> QED BY <2>1, <2>2 DEF UInv, NeverUndercounted
<1>3. CASE ~EraseNext /\ TallyKept
  BY <1>3, StepIsOrderly, DriftKeepsEnough DEF Orderly, TreeKept, TallyKept
<1> QED BY <1>1, <1>2, <1>3, StepIsOrderly DEF Orderly

LEMMA OrderlyKeepsExact ==
    ASSUME UInv, Orderly, TallyRight \/ CountsExact
    PROVE  CountsExact'
<1> SUFFICES ASSUME NEW c \in DOMAIN categories', IsRoot(c)' \/ Children(c)' = {}
             PROVE  categories'[c].artwork_count = Cardinality(Counted(c)')
  BY DEF CountsExact
<1>1. c \in DOMAIN categories /\ (IsRoot(c)' <=> IsRoot(c)) /\ Children(c)' = Children(c)
  BY DEF Orderly, TreeKept, IsRoot, Children
<1>2. CASE TallyRight
  BY <1>1, <1>2 DEF TallyRight
<1>3. CASE TallyKept /\ CountsExact
  <2>1. categories[c].artwork_count = Cardinality(Counted(c)) /\ Drift(c)' = Drift(c)
    BY <1>1, <1>3 DEF CountsExact, TallyKept
  <2>2. categories[c].artwork_count \in Nat /\ Cardinality(Counted(c)) \in Nat
    BY <1>1, CountsAreIntegers DEF UInv, Tables
  <2>3. categories'[c].artwork_count \in Nat
    BY DEF Orderly, Tables, TypeOK, CategoryRow
  <2>4. IsFiniteSet(Counted(c)')
    BY FS_Subset DEF Orderly, Tables, Counted, ActiveIn
  <2>5. Cardinality(Counted(c)') \in Nat
    BY <2>4, FS_CardinalityType
  <2> QED BY <2>1, <2>2, <2>3, <2>5 DEF Drift
<1> QED BY <1>2, <1>3 DEF Orderly

LEMMA UInvHolds ==
    ASSUME OneLevelSeed
    PROVE  IngestSpec => []UInv
<1>1. IngestInit => UInv
  <2> SUFFICES ASSUME IngestInit PROVE UInv
    OBVIOUS
  <2>1. IInv /\ categories = Seeded
    BY SeededIInv DEF IngestInit
  <2>2. \A c \in DOMAIN categories : IsRoot(c) \/ Children(c) = {}
    BY <2>1, NullIsNoValue DEF IInv, TypeOK, OneLevelSeed, IsRoot, Children
  <2>3. \A c \in DOMAIN categories : categories[c].artwork_count \in Nat
    BY <2>1 DEF IInv, TypeOK, CategoryRow
  <2> QED BY <2>1, <2>2, <2>3 DEF IInv, UInv, Tables, CountsExact, NeverUndercounted
<1>2. UInv /\ [IngestNext]_ingestVars => UInv'
  BY StepUInv
<1> QED BY <1>1, <1>2, PTL DEF IngestSpec

(* On the tree that the seed script makes no counter ever falls short of   *)
(* its media, categories deleted in psql in the middle of uploads and      *)
(* deletes included, so no delete of a medium ever fails on                *)
(* categories_count_non_negative (001_init.sql:32, 002_triggers.sql:37).   *)
THEOREM CountersNeverFallShort ==
    ASSUME OneLevelSeed
    PROVE  IngestSpec => [](NeverUndercounted /\ MediaOnSubcategories)
<1>1. UInv => NeverUndercounted /\ MediaOnSubcategories
  BY DEF UInv, Tables
<1> QED BY UInvHolds, <1>1, PTL

(* On that tree nothing but such a cascade takes the counters off the      *)
(* number of active media, uploads that fail, roll back or die included,   *)
(* and whatever cascades have left, the recount of the admin API puts all  *)
(* of them right (admin.py:261-270, 002_triggers.sql:31-100).                 *)
OnlyCascadesDrift == Recount \/ (CountsExact /\ ~EraseNext) => CountsExact'

THEOREM RecountRepairsDrift ==
    ASSUME OneLevelSeed
    PROVE  IngestSpec => [][OnlyCascadesDrift]_ingestVars
<1>1. UInv /\ [IngestNext]_ingestVars => [OnlyCascadesDrift]_ingestVars
  <2> SUFFICES ASSUME UInv, [IngestNext]_ingestVars, Recount \/ (CountsExact /\ ~EraseNext)
               PROVE  CountsExact'
    BY DEF OnlyCascadesDrift
  <2>1. CASE Recount
    <3>1. Tables' /\ TreeKept /\ TallyRight
      BY <2>1, RecountIsOrderly
    <3> QED BY <3>1, OrderlyKeepsExact DEF Orderly
  <2>2. CASE CountsExact /\ ~EraseNext
    BY <2>2, StepIsOrderly, OrderlyKeepsExact
  <2> QED BY <2>1, <2>2
<1> QED BY <1>1, UInvHolds, PTL DEF IngestSpec

----------------------------------------------------------------------------
(* The semaphore.  A permit is conserved by each step because the step     *)
(* moves one object into or out of Sending and one permit the other way;   *)
(* that a new upload brings no object of its own into Sending needs its    *)
(* puts to be untouched until it starts.                                   *)

Shapes ==
    /\ req \in [ArtworkIds -> Uploads]
    /\ put \in [ArtworkIds -> [Parts -> PutStates]]
    /\ bucket \subseteq ArtworkIds \X Parts
    /\ del \in [ArtworkIds -> Deletes]

IdleUntouched ==
    \A u \in ArtworkIds : req[u].pc = "idle" => \A p \in Parts : put[u][p] = "none"

PInv ==
    /\ Shapes
    /\ IdleUntouched
    /\ IsFiniteSet(Sending)
    /\ permits \in Nat
    /\ PermitsConserved

(* A handler moves on; its request keeps the rest. *)
LEMMA GotoEffect ==
    ASSUME req \in [ArtworkIds -> Uploads], NEW u \in ArtworkIds,
           NEW pc \in InFlight \cup Ends, Goto(u, pc)
    PROVE  /\ req' \in [ArtworkIds -> Uploads]
           /\ req'[u].pc = pc /\ req'[u].parts = req[u].parts
           /\ req'[u].category = req[u].category
           /\ \A v \in ArtworkIds \ {u} : req'[v] = req[v]
<1>1. ASSUME NEW q \in Uploads
      PROVE  [q EXCEPT !.pc = pc] \in Uploads /\ [q EXCEPT !.pc = pc].pc = pc
             /\ [q EXCEPT !.pc = pc].parts = q.parts
             /\ [q EXCEPT !.pc = pc].category = q.category
  BY DEF Uploads
<1>2. req' = [req EXCEPT ![u] = [req[u] EXCEPT !.pc = pc]]
  BY DEF Goto
<1> QED BY <1>1, <1>2

LEMMA PutToEffect ==
    ASSUME put \in [ArtworkIds -> [Parts -> PutStates]],
           NEW u \in ArtworkIds, NEW p \in Parts, NEW s \in PutStates, PutTo(u, p, s)
    PROVE  /\ put' \in [ArtworkIds -> [Parts -> PutStates]]
           /\ put'[u][p] = s
           /\ \A v \in ArtworkIds, q \in Parts :
                <<v, q>> # <<u, p>> => put'[v][q] = put[v][q]
  BY DEF PutTo

(* The shapes, and what an idle request has not touched, survive any step. *)
LEMMA ShapesKept ==
    ASSUME Shapes, IdleUntouched, [IngestNext]_ingestVars
    PROVE  Shapes' /\ IdleUntouched'
<1>1. ASSUME NEW u \in ArtworkIds, NEW c \in CategoryIds, NEW m \in Media,
             NEW w \in Widths, StartUpload(u, c, m, w)
      PROVE  Shapes' /\ IdleUntouched'
  <2> DEFINE parts == {"original"} \cup RenditionsOf(m, w)
             q == [pc |-> "putting", category |-> c, media |-> m, parts |-> parts]
             states == [p \in Parts |-> IF p \in parts THEN "waiting" ELSE "none"]
  <2>1. q \in Uploads /\ q.pc = "putting"
    BY DEF Uploads, InFlight, Parts, RenditionsOf
  <2>2. states \in [Parts -> PutStates]
    BY DEF PutStates
  <2>3. /\ req' = [req EXCEPT ![u] = q]
        /\ put' = [put EXCEPT ![u] = states]
        /\ UNCHANGED <<bucket, del>>
    BY <1>1 DEF StartUpload
  <2> HIDE DEF q, states
  <2> QED BY <2>1, <2>2, <2>3 DEF Shapes, IdleUntouched
<1>2. ASSUME NEW u \in ArtworkIds, NEW p \in Parts, PutStep(u, p)
      PROVE  Shapes' /\ IdleUntouched'
  <2>1. PICK s \in PutStates : PutTo(u, p, s)
    BY <1>2 DEF PutStep, PutStart, PutDone, PutFail, PutStates
  <2>2. put[u][p] # "none"
    BY <1>2 DEF PutStep, PutStart, PutDone, PutFail
  <2>3. bucket' \subseteq ArtworkIds \X Parts
    BY <1>2 DEF PutStep, PutStart, PutDone, PutFail, Shapes
  <2>4. UNCHANGED <<req, del>>
    BY <1>2 DEF PutStep, PutStart, PutDone, PutFail
  <2>5. put' \in [ArtworkIds -> [Parts -> PutStates]]
    BY <2>1, PutToEffect DEF Shapes
  <2>6. ASSUME NEW v \in ArtworkIds, req'[v].pc = "idle", NEW q \in Parts
        PROVE  put'[v][q] = "none"
    <3>1. put[v][q] = "none"
      BY <2>4, <2>6 DEF IdleUntouched
    <3>2. <<v, q>> # <<u, p>>
      BY <2>2, <3>1
    <3> QED BY <2>1, <3>1, <3>2, PutToEffect DEF Shapes
  <2> QED BY <2>3, <2>4, <2>5, <2>6 DEF Shapes, IdleUntouched
<1>3. ASSUME NEW u \in ArtworkIds, HandlerStep(u)
      PROVE  Shapes' /\ IdleUntouched'
  <2>1. PICK pc \in InFlight \cup Ends : Goto(u, pc)
    BY <1>3 DEF HandlerStep, PutsDone, PutsFailed, Insert, InsertFails, InsertLost,
                Cleanup, CleanupFails, InFlight, Ends
  <2>2. bucket' \subseteq ArtworkIds \X Parts
    BY <1>3 DEF HandlerStep, PutsDone, PutsFailed, Insert, InsertFails, InsertLost,
                Cleanup, CleanupFails, Shapes
  <2>3. UNCHANGED <<put, del>>
    BY <1>3 DEF HandlerStep, PutsDone, PutsFailed, Insert, InsertFails, InsertLost,
                Cleanup, CleanupFails
  <2>4. pc # "idle"
    BY DEF InFlight, Ends
  <2>5. Shapes'
    BY <2>1, <2>2, <2>3, GotoEffect DEF Shapes
  <2>6. ASSUME NEW v \in ArtworkIds, req'[v].pc = "idle"
        PROVE  req[v].pc = "idle"
    <3>1. req'[u].pc = pc /\ \A w \in ArtworkIds \ {u} : req'[w] = req[w]
      BY <2>1, GotoEffect DEF Shapes
    <3> QED BY <2>4, <2>6, <3>1
  <2>7. IdleUntouched'
    BY <2>3, <2>6 DEF IdleUntouched
  <2> QED BY <2>5, <2>7
<1>4. ASSUME NEW u \in ArtworkIds, NEW purge \in BOOLEAN, Delete(u, purge)
      PROVE  Shapes' /\ IdleUntouched'
  BY <1>4 DEF Delete, Shapes, IdleUntouched, Deletes
<1>5. ASSUME NEW u \in ArtworkIds, PurgeStep(u)
      PROVE  Shapes' /\ IdleUntouched'
  <2>1. bucket' \subseteq ArtworkIds \X Parts
    BY <1>5 DEF PurgeStep, Purge, PurgeFails, Shapes
  <2> QED BY <1>5, <2>1 DEF PurgeStep, Purge, PurgeFails, Shapes, IdleUntouched, Deletes
<1>6. ASSUME Crash
      PROVE  Shapes' /\ IdleUntouched'
  <2>1. ASSUME NEW q \in Uploads
        PROVE  LET p == IF q.pc \in InFlight THEN "crashed" ELSE q.pc IN
               /\ [q EXCEPT !.pc = p] \in Uploads
               /\ [q EXCEPT !.pc = p].pc = p
    BY DEF Uploads, InFlight, Ends
  <2>2. ASSUME NEW u \in ArtworkIds
        PROVE  req'[u] \in Uploads /\ (req'[u].pc = "idle" => req[u].pc = "idle")
    <3>1. req[u] \in Uploads
      BY DEF Shapes
    <3>2. req'[u] = [req[u] EXCEPT !.pc = IF req[u].pc \in InFlight THEN "crashed"
                                          ELSE req[u].pc]
      BY <1>6 DEF Crash
    <3> QED BY <2>1, <3>1, <3>2
  <2>3. req' \in [ArtworkIds -> Uploads]
    BY <1>6, <2>2 DEF Crash
  <2>4. put' \in [ArtworkIds -> [Parts -> PutStates]]
    BY <1>6 DEF Crash, Shapes, PutStates
  <2>5. bucket' \subseteq ArtworkIds \X Parts
    BY <1>6 DEF Crash, Shapes, Sending
  <2>6. del' \in [ArtworkIds -> Deletes]
    BY <1>6 DEF Crash, Shapes, Deletes
  <2>7. IdleUntouched'
    BY <1>6, <2>2 DEF Crash, Shapes, IdleUntouched
  <2> QED BY <2>3, <2>4, <2>5, <2>6, <2>7 DEF Shapes
<1>7. ASSUME CategoryChanges
      PROVE  Shapes' /\ IdleUntouched'
  BY <1>7 DEF CategoryChanges, Shapes, IdleUntouched
<1>8. ASSUME UNCHANGED ingestVars
      PROVE  Shapes' /\ IdleUntouched'
  BY <1>8 DEF ingestVars, Shapes, IdleUntouched
<1> QED BY <1>1, <1>2, <1>3, <1>4, <1>5, <1>6, <1>7, <1>8 DEF IngestNext

(* An object that leaves the semaphore's queue takes a permit with it, and *)
(* one that is done, or has failed, gives it back.                         *)
LEMMA PutKeepsPermits ==
    ASSUME PInv, NEW u \in ArtworkIds, NEW p \in Parts, PutStep(u, p)
    PROVE  IsFiniteSet(Sending)' /\ permits' \in Nat /\ PermitsConserved'
<1> DEFINE o == <<u, p>>
<1>1. Cardinality(Sending) \in Nat
  BY FS_CardinalityType DEF PInv
<1>2. o \in Sending <=> put[u][p] = "sending"
  BY DEF Sending
<1>3. ASSUME PutTo(u, p, "sending")
      PROVE  Sending' = Sending \cup {o}
  <2>1. put'[u][p] = "sending" /\ \A v \in ArtworkIds, q \in Parts :
            <<v, q>> # <<u, p>> => put'[v][q] = put[v][q]
    BY <1>3, PutToEffect DEF PInv, Shapes, PutStates
  <2> QED BY <2>1 DEF Sending
<1>4. ASSUME NEW s \in PutStates, s # "sending", PutTo(u, p, s)
      PROVE  Sending' = Sending \ {o}
  <2>1. put'[u][p] = s /\ \A v \in ArtworkIds, q \in Parts :
            <<v, q>> # <<u, p>> => put'[v][q] = put[v][q]
    BY <1>4, PutToEffect DEF PInv, Shapes
  <2> QED BY <1>4, <2>1 DEF Sending
<1>5. CASE PutStart(u, p)
  <2>1. o \notin Sending /\ Sending' = Sending \cup {o}
    BY <1>2, <1>3, <1>5 DEF PutStart
  <2>2. IsFiniteSet(Sending') /\ Cardinality(Sending') = Cardinality(Sending) + 1
    BY <2>1, FS_AddElement DEF PInv
  <2> QED BY <1>1, <1>5, <2>2 DEF PutStart, PInv, PermitsConserved
<1>6. ASSUME o \in Sending, Sending' = Sending \ {o}, permits' = permits + 1
      PROVE  IsFiniteSet(Sending)' /\ permits' \in Nat /\ PermitsConserved'
  <2>1. IsFiniteSet(Sending') /\ Cardinality(Sending') = Cardinality(Sending) - 1
    BY <1>6, FS_RemoveElement DEF PInv
  <2> QED BY <1>1, <1>6, <2>1 DEF PInv, PermitsConserved
<1>7. CASE PutDone(u, p)
  BY <1>2, <1>4, <1>6, <1>7 DEF PutDone, PutStates
<1>8. CASE \E landed \in SUBSET {<<u, p>>} : PutFail(u, p, landed)
  BY <1>2, <1>4, <1>6, <1>8 DEF PutFail, PutStates
<1> QED BY <1>5, <1>7, <1>8 DEF PutStep

LEMMA StepPInv ==
    ASSUME PInv, [IngestNext]_ingestVars
    PROVE  PInv'
<1> DEFINE Kept == IsFiniteSet(Sending)' /\ permits' \in Nat /\ PermitsConserved'
<1>1. Shapes' /\ IdleUntouched'
  BY ShapesKept DEF PInv
<1>2. ASSUME UNCHANGED <<put, permits>>
      PROVE  Kept
  BY <1>2 DEF PInv, Sending, PermitsConserved
<1>3. ASSUME NEW u \in ArtworkIds, NEW c \in CategoryIds, NEW m \in Media,
             NEW w \in Widths, StartUpload(u, c, m, w)
      PROVE  Kept
  <2>1. \A p \in Parts : put[u][p] # "sending" /\ put'[u][p] # "sending"
    BY <1>3 DEF StartUpload, PInv, Shapes, IdleUntouched
  <2>2. \A v \in ArtworkIds \ {u} : put'[v] = put[v]
    BY <1>3 DEF StartUpload, PInv, Shapes
  <2>3. Sending' = Sending
    BY <2>1, <2>2 DEF Sending
  <2> QED BY <1>3, <2>3 DEF StartUpload, PInv, PermitsConserved
<1>4. ASSUME NEW u \in ArtworkIds, NEW p \in Parts, PutStep(u, p)
      PROVE  Kept
  BY <1>4, PutKeepsPermits
<1>5. ASSUME NEW u \in ArtworkIds, HandlerStep(u)
      PROVE  Kept
  BY <1>2, <1>5 DEF HandlerStep, PutsDone, PutsFailed, Insert, InsertFails, InsertLost,
                    Cleanup, CleanupFails
<1>6. ASSUME NEW u \in ArtworkIds, NEW purge \in BOOLEAN, Delete(u, purge)
      PROVE  Kept
  BY <1>2, <1>6 DEF Delete
<1>7. ASSUME NEW u \in ArtworkIds, PurgeStep(u)
      PROVE  Kept
  BY <1>2, <1>7 DEF PurgeStep, Purge, PurgeFails
<1>8. ASSUME Crash
      PROVE  Kept
  <2>1. \A u \in ArtworkIds, p \in Parts : put'[u][p] # "sending"
    BY <1>8 DEF Crash
  <2>2. Sending' = {}
    BY <2>1 DEF Sending
  <2>3. permits' = Concurrency
    BY <1>8 DEF Crash
  <2> QED BY <2>2, <2>3, FS_EmptySet, Configuration DEF PermitsConserved
<1>9. ASSUME CategoryChanges
      PROVE  Kept
  BY <1>2, <1>9 DEF CategoryChanges
<1>10. ASSUME UNCHANGED ingestVars
       PROVE  Kept
  BY <1>2, <1>10 DEF ingestVars
<1>11. Kept
  BY <1>3, <1>4, <1>5, <1>6, <1>7, <1>8, <1>9, <1>10 DEF IngestNext
<1> QED BY <1>1, <1>11 DEF PInv

LEMMA PInvHolds == IngestSpec => []PInv
<1>1. IngestInit => PInv
  <2> SUFFICES ASSUME IngestInit PROVE PInv
    OBVIOUS
  <2>1. Sending = {}
    BY DEF IngestInit, Sending
  <2>2. Shapes /\ IdleUntouched
    BY DEF IngestInit, Shapes, IdleUntouched, Uploads, PutStates, Deletes
  <2> QED BY <2>1, <2>2, FS_EmptySet, Configuration DEF IngestInit, PInv, PermitsConserved
<1>2. PInv /\ [IngestNext]_ingestVars => PInv'
  BY StepPInv
<1> QED BY <1>1, <1>2, PTL DEF IngestSpec

(* However puts fail, requests end and workers restart, the free permits   *)
(* and the puts under way add up to B2_UPLOAD_CONCURRENCY (storage.py:121).*)
THEOREM NoPermitLeaks == IngestSpec => []PermitsConserved
<1>1. PInv => PermitsConserved
  BY DEF PInv
<1> QED BY <1>1, PInvHolds, PTL

(* The same invariant bounds the permits, and with them the puts under way *)
(* at once (storage.py:121).                                               *)
THEOREM IngestTypeCorrect == IngestSpec => []IngestTypeOK
<1>1. PInv => IngestTypeOK
  <2> SUFFICES ASSUME PInv PROVE IngestTypeOK
    OBVIOUS
  <2>1. Cardinality(Sending) \in Nat
    BY FS_CardinalityType DEF PInv
  <2>2. permits \in 0 .. Concurrency
    BY <2>1, Configuration DEF PInv, PermitsConserved
  <2> QED BY <2>2 DEF PInv, Shapes, IngestTypeOK
<1> QED BY <1>1, PInvHolds, PTL
----------------------------------------------------------------------------
(* Rows and objects.  Where the objects of an upload are follows from how  *)
(* far its request, its puts and its delete have come; no statement on     *)
(* categories and no other upload enters into it.                          *)

(* The requests that may have a row: all that reached their INSERT, and    *)
(* those whose worker died.                                                *)
Late == {"published", "cleaning", "rolled_back", "rollback_failed", "crashed"}

(* The requests all of whose puts succeeded. *)
AllPut == {"inserting", "published", "cleaning", "rolled_back", "rollback_failed"}

RowsOK ==
    /\ DOMAIN artworks \subseteq ArtworkIds
    /\ artworks \in [DOMAIN artworks -> [category_id : CategoryIds \cup {NULL},
                                         is_active   : BOOLEAN]]

(* Each part requested has a put, and nothing else has; objects come from  *)
(* puts that ended.                                                        *)
PutsOf(u) ==
    \A p \in Parts :
        /\ put[u][p] # "none" => p \in req[u].parts
        /\ req[u].pc # "idle" /\ p \in req[u].parts => put[u][p] # "none"
        /\ <<u, p>> \in bucket => put[u][p] \in {"stored", "failed"}
        /\ req[u].pc \in AllPut /\ p \in req[u].parts => put[u][p] = "stored"
        /\ req[u].pc = "crashed" => put[u][p] \notin {"waiting", "sending"}

(* What was stored stays until the rollback or the purge.                  *)
KeptOf(u) ==
    /\ req[u].pc \in {"putting", "inserting"} =>
            \A p \in Parts : put[u][p] = "stored" => <<u, p>> \in bucket
    /\ /\ u \in DOMAIN artworks /\ del[u] \in {"none", "kept"}
       /\ req[u].pc \notin {"rolled_back", "rollback_failed"}
       => ObjectsOf(u) \subseteq bucket

RowOf(u) ==
    /\ u \in DOMAIN artworks => req[u].pc \in Late
    /\ u \in DOMAIN artworks /\ artworks[u].is_active => del[u] = "none"
    /\ del[u] # "none" => req[u].pc \in Late

GoneOf(u) ==
    req[u].pc = "rolled_back" \/ del[u] = "purged" => ({u} \X Parts) \cap bucket = {}

StoryOf(u) == PutsOf(u) /\ KeptOf(u) /\ RowOf(u) /\ GoneOf(u)

MInv == RowsOK /\ \A u \in ArtworkIds : StoryOf(u)

LEMMA InsertedRow ==
    ASSUME Shapes, RowsOK, NEW u \in ArtworkIds, InsertArtwork(u, req[u].category, TRUE)
    PROVE  /\ RowsOK'
           /\ DOMAIN artworks' = DOMAIN artworks \cup {u}
           /\ artworks'[u].is_active
           /\ artworks'[u].category_id = req[u].category
           /\ \A v \in DOMAIN artworks \ {u} : artworks'[v] = artworks[v]
<1> DEFINE row == [category_id |-> req[u].category, is_active |-> TRUE]
<1>1. artworks' = [x \in DOMAIN artworks \cup {u} |-> IF x = u THEN row ELSE artworks[x]]
  BY DEF InsertArtwork, WithRow
<1>2. row \in [category_id : CategoryIds \cup {NULL}, is_active : BOOLEAN] /\ row.is_active
      /\ row.category_id = req[u].category
  <2>1. req[u].category \in CategoryIds \cup {NULL}
    BY DEF Shapes, Uploads
  <2> QED BY <2>1
<1> HIDE DEF row
<1> QED BY <1>1, <1>2 DEF RowsOK

LEMMA DeletedRow ==
    ASSUME RowsOK, NEW u \in ArtworkIds, SoftDeleteArtwork(u)
    PROVE  /\ RowsOK'
           /\ DOMAIN artworks' = DOMAIN artworks
           /\ ~artworks'[u].is_active
           /\ artworks'[u].category_id = artworks[u].category_id
           /\ \A v \in DOMAIN artworks \ {u} : artworks'[v] = artworks[v]
<1>1. ASSUME NEW r \in [category_id : CategoryIds \cup {NULL}, is_active : BOOLEAN]
      PROVE  /\ [r EXCEPT !.is_active = FALSE] \in [category_id : CategoryIds \cup {NULL},
                                                    is_active   : BOOLEAN]
             /\ ~[r EXCEPT !.is_active = FALSE].is_active
             /\ [r EXCEPT !.is_active = FALSE].category_id = r.category_id
  OBVIOUS
<1>2. u \in DOMAIN artworks
  BY DEF SoftDeleteArtwork
<1>3. artworks' = [artworks EXCEPT ![u] = [artworks[u] EXCEPT !.is_active = FALSE]]
  BY DEF SoftDeleteArtwork
<1> QED BY <1>1, <1>2, <1>3 DEF RowsOK

(* Statements on categories add and change no row of media; the rows they  *)
(* take away are those of categories they delete.                          *)
LEMMA RowsVanish ==
    ASSUME RowsOK, CategoryChanges
    PROVE  /\ RowsOK'
           /\ DOMAIN artworks' \subseteq DOMAIN artworks
           /\ \A v \in DOMAIN artworks' : artworks'[v] = artworks[v]
           /\ \A v \in DOMAIN artworks \ DOMAIN artworks' :
                    artworks[v].category_id \notin DOMAIN categories'
           /\ DOMAIN categories' \subseteq DOMAIN categories
<1>1. CASE UNCHANGED artworks /\ DOMAIN categories' = DOMAIN categories
  BY <1>1 DEF RowsOK
<1>2. CASE "erase" \in Faults /\ EraseNext
  <2>1. PICK c \in CategoryIds : EraseCategory(c)
    BY <1>2 DEF EraseNext
  <2> DEFINE gone == Subtree({c})
             ids == {a \in DOMAIN artworks : artworks[a].category_id \in gone}
  <2>2. categories' = Without(categories, gone) /\ artworks' = Without(artworks, ids)
    BY <2>1 DEF EraseCategory
  <2> HIDE DEF gone
  <2>3. /\ artworks' = [x \in DOMAIN artworks \ ids |-> artworks[x]]
        /\ DOMAIN categories' = DOMAIN categories \ gone
    BY <2>2 DEF Without, Restrict
  <2> QED BY <2>3 DEF RowsOK
<1> QED
  BY <1>1, <1>2 DEF CategoryChanges, UpdateCategory, DeleteCategory, Recount, RecountedTable

(* A step concerns the uploads whose request, puts, objects, row or delete *)
(* it touches; the others' stories go on as they were.                     *)
LEMMA UntouchedUpload ==
    ASSUME NEW u \in ArtworkIds, StoryOf(u),
           req'[u] = req[u], put'[u] = put[u], del'[u] = del[u],
           \A p \in Parts : <<u, p>> \in bucket' <=> <<u, p>> \in bucket,
           u \in DOMAIN artworks' => u \in DOMAIN artworks /\ artworks'[u] = artworks[u],
           req[u].parts \subseteq Parts
    PROVE  StoryOf(u)'
<1>1. PutsOf(u)'
  BY DEF StoryOf, PutsOf
<1>2. KeptOf(u)'
  BY DEF StoryOf, KeptOf, ObjectsOf
<1>3. RowOf(u)'
  BY DEF StoryOf, RowOf
<1>4. GoneOf(u)'
  BY DEF StoryOf, GoneOf
<1> QED BY <1>1, <1>2, <1>3, <1>4 DEF StoryOf

LEMMA StartKeepsStories ==
    ASSUME PInv, MInv, NEW u \in ArtworkIds, NEW c \in CategoryIds, NEW m \in Media,
           NEW w \in Widths, StartUpload(u, c, m, w)
    PROVE  MInv'
<1> DEFINE parts == {"original"} \cup RenditionsOf(m, w)
           q == [pc |-> "putting", category |-> c, media |-> m, parts |-> parts]
           states == [p \in Parts |-> IF p \in parts THEN "waiting" ELSE "none"]
<1>1. q.pc = "putting" /\ q.parts = parts
  OBVIOUS
<1>2. \A p \in Parts : states[p] = IF p \in parts THEN "waiting" ELSE "none"
  OBVIOUS
<1>3. req' = [req EXCEPT ![u] = q] /\ put' = [put EXCEPT ![u] = states]
      /\ UNCHANGED <<artworks, bucket, del>> /\ req[u].pc = "idle"
  BY DEF StartUpload, vars
<1> HIDE DEF q, states
<1>4. req'[u] = q /\ put'[u] = states
  BY <1>3 DEF PInv, Shapes
<1>5. StoryOf(u)'
  <2>1. \A p \in Parts : <<u, p>> \notin bucket
    BY <1>3 DEF PInv, IdleUntouched, MInv, StoryOf, PutsOf
  <2>2. PutsOf(u)'
    BY <1>1, <1>2, <1>3, <1>4, <2>1 DEF PutsOf, AllPut
  <2>3. u \notin DOMAIN artworks /\ del[u] = "none"
    BY <1>3 DEF MInv, StoryOf, RowOf, Late
  <2>4. KeptOf(u)'
    BY <1>1, <1>2, <1>3, <1>4, <2>3 DEF KeptOf
  <2>5. RowOf(u)' /\ GoneOf(u)'
    BY <1>1, <1>3, <1>4, <2>3 DEF RowOf, GoneOf
  <2> QED BY <2>2, <2>4, <2>5 DEF StoryOf
<1>6. ASSUME NEW v \in ArtworkIds \ {u}
      PROVE  StoryOf(v)'
  <2>1. req'[v] = req[v] /\ put'[v] = put[v]
    BY <1>3 DEF PInv, Shapes
  <2>2. req[v].parts \subseteq Parts
    BY DEF PInv, Shapes, Uploads
  <2> QED BY <1>3, <2>1, <2>2, UntouchedUpload DEF MInv
<1> QED BY <1>3, <1>5, <1>6 DEF MInv, RowsOK

LEMMA PutKeepsStories ==
    ASSUME PInv, MInv, NEW u \in ArtworkIds, NEW p \in Parts, PutStep(u, p)
    PROVE  MInv'
<1>1. UNCHANGED <<req, artworks, del>>
  BY DEF PutStep, PutStart, PutDone, PutFail, vars
<1>2. put[u][p] \in {"waiting", "sending"}
  BY DEF PutStep, PutStart, PutDone, PutFail
<1>3. PICK s \in {"sending", "stored", "failed"} :
        /\ PutTo(u, p, s)
        /\ bucket \subseteq bucket' /\ bucket' \subseteq bucket \cup {<<u, p>>}
        /\ <<u, p>> \in bucket' /\ <<u, p>> \notin bucket => s \in {"stored", "failed"}
        /\ s = "stored" => <<u, p>> \in bucket'
  BY DEF PutStep, PutStart, PutDone, PutFail
<1>4. /\ put'[u][p] = s
      /\ \A v \in ArtworkIds, r \in Parts : <<v, r>> # <<u, p>> => put'[v][r] = put[v][r]
  BY <1>3, PutToEffect DEF PInv, Shapes, PutStates
<1>5. <<u, p>> \notin bucket
  BY <1>2 DEF MInv, StoryOf, PutsOf
<1>6. p \in req[u].parts
  BY <1>2 DEF MInv, StoryOf, PutsOf
<1>7. req[u].pc \notin AllPut \cup {"crashed"}
  BY <1>2, <1>6 DEF MInv, StoryOf, PutsOf
<1>8. StoryOf(u)'
  <2>1. PutsOf(u)'
    BY <1>1, <1>3, <1>4, <1>5, <1>6, <1>7 DEF MInv, StoryOf, PutsOf
  <2>2. KeptOf(u)'
    BY <1>1, <1>3, <1>4, <1>7 DEF MInv, StoryOf, KeptOf, RowOf, Late, AllPut
  <2>3. del[u] = "none" /\ req[u].pc # "rolled_back"
    BY <1>7 DEF MInv, StoryOf, RowOf, Late, AllPut
  <2>4. RowOf(u)' /\ GoneOf(u)'
    BY <1>1, <2>3 DEF MInv, StoryOf, RowOf, GoneOf
  <2> QED BY <2>1, <2>2, <2>4 DEF StoryOf
<1>9. ASSUME NEW v \in ArtworkIds \ {u}
      PROVE  StoryOf(v)'
  <2>1. put'[v] = put[v]
    BY <1>3 DEF PutTo, PInv, Shapes
  <2>2. req[v].parts \subseteq Parts
    BY DEF PInv, Shapes, Uploads
  <2>3. \A r \in Parts : <<v, r>> \in bucket' <=> <<v, r>> \in bucket
    BY <1>3
  <2> QED BY <1>1, <2>1, <2>2, <2>3, UntouchedUpload DEF MInv
<1> QED BY <1>1, <1>8, <1>9 DEF MInv, RowsOK

(* A handler that goes on without touching the tables. *)
LEMMA GotoKeepsStories ==
    ASSUME PInv, MInv, NEW u \in ArtworkIds,
           \/ PutsDone(u) \/ PutsFailed(u) \/ InsertFails(u) \/ Cleanup(u) \/ CleanupFails(u)
    PROVE  MInv'
<1>1. UNCHANGED <<put, artworks, del>>
  BY DEF PutsDone, PutsFailed, InsertFails, Cleanup, CleanupFails, vars
<1>2. PICK pc \in InFlight \cup Ends :
        /\ Goto(u, pc)
        /\ \/ /\ pc \in {"inserting", "put_failed"}
              /\ req[u].pc = "putting" /\ UNCHANGED bucket
              /\ pc = "inserting" => \A p \in req[u].parts : put[u][p] = "stored"
           \/ /\ pc = "cleaning" /\ req[u].pc = "inserting" /\ UNCHANGED bucket
           \/ /\ pc \in {"rolled_back", "rollback_failed"} /\ req[u].pc = "cleaning"
              /\ bucket \ ObjectsOf(u) \subseteq bucket' /\ bucket' \subseteq bucket
              /\ pc = "rolled_back" => bucket' \cap ObjectsOf(u) = {}
  BY DEF PutsDone, PutsFailed, InsertFails, Cleanup, CleanupFails, InFlight, Ends
<1>3. /\ req'[u].pc = pc /\ req'[u].parts = req[u].parts
      /\ \A v \in ArtworkIds \ {u} : req'[v] = req[v]
  BY <1>2, GotoEffect DEF PInv, Shapes
<1>4. bucket' \subseteq bucket
  BY <1>2
<1>5. PutsOf(u)'
  BY <1>1, <1>2, <1>3, <1>4 DEF MInv, StoryOf, PutsOf, AllPut
<1>6. KeptOf(u)'
  <2>1. ObjectsOf(u)' = ObjectsOf(u)
    BY <1>3 DEF ObjectsOf
  <2> QED BY <1>1, <1>2, <1>3, <2>1 DEF MInv, StoryOf, KeptOf, RowOf, Late
<1>7. RowOf(u)'
  BY <1>1, <1>2, <1>3 DEF MInv, StoryOf, RowOf, Late
<1>8. GoneOf(u)'
  <2>1. CASE pc = "rolled_back"
    <3>1. ASSUME NEW p \in Parts, <<u, p>> \in bucket'
          PROVE  FALSE
      <4>1. p \in req[u].parts
        BY <1>4, <3>1 DEF MInv, StoryOf, PutsOf
      <4> QED BY <1>2, <2>1, <3>1, <4>1 DEF ObjectsOf
    <3> QED BY <3>1 DEF GoneOf
  <2>2. CASE pc # "rolled_back"
    BY <1>1, <1>3, <1>4, <2>2 DEF MInv, StoryOf, GoneOf
  <2> QED BY <2>1, <2>2
<1>9. ASSUME NEW v \in ArtworkIds \ {u}
      PROVE  StoryOf(v)'
  <2>1. req[v].parts \subseteq Parts
    BY DEF PInv, Shapes, Uploads
  <2>2. \A p \in Parts : <<v, p>> \in bucket' <=> <<v, p>> \in bucket
    BY <1>2 DEF ObjectsOf
  <2> QED BY <1>1, <1>3, <2>1, <2>2, UntouchedUpload DEF MInv
<1> QED BY <1>1, <1>5, <1>6, <1>7, <1>8, <1>9 DEF MInv, StoryOf, RowsOK

(* The INSERT commits, whether or not the handler learns of it. *)
LEMMA InsertKeepsStories ==
    ASSUME PInv, MInv, NEW u \in ArtworkIds, Insert(u) \/ InsertLost(u)
    PROVE  MInv'
<1>1. PICK pc \in {"published", "cleaning"} :
        Goto(u, pc) /\ req[u].pc = "inserting" /\ UNCHANGED <<put, bucket, del>>
  BY DEF Insert, InsertLost
<1>2. /\ RowsOK'
      /\ DOMAIN artworks' = DOMAIN artworks \cup {u}
      /\ \A v \in DOMAIN artworks \ {u} : artworks'[v] = artworks[v]
  BY InsertedRow DEF Insert, InsertLost, PInv, MInv
<1>3. /\ req'[u].pc = pc /\ req'[u].parts = req[u].parts
      /\ \A v \in ArtworkIds \ {u} : req'[v] = req[v]
  BY <1>1, GotoEffect DEF PInv, Shapes, InFlight, Ends
<1>4. PutsOf(u)'
  BY <1>1, <1>3 DEF MInv, StoryOf, PutsOf, AllPut
<1>5. KeptOf(u)'
  <2>1. ASSUME NEW p \in req[u].parts
        PROVE  <<u, p>> \in bucket
    <3>1. p \in Parts
      BY DEF PInv, Shapes, Uploads
    <3> QED BY <1>1, <3>1 DEF MInv, StoryOf, PutsOf, AllPut, KeptOf
  <2> QED BY <1>1, <1>3, <2>1 DEF KeptOf, ObjectsOf
<1>6. del[u] = "none"
  BY <1>1 DEF MInv, StoryOf, RowOf, Late
<1>7. RowOf(u)' /\ GoneOf(u)'
  BY <1>1, <1>2, <1>3, <1>6 DEF RowOf, GoneOf, Late
<1>8. ASSUME NEW v \in ArtworkIds \ {u}
      PROVE  StoryOf(v)'
  <2>1. req[v].parts \subseteq Parts
    BY DEF PInv, Shapes, Uploads
  <2> QED BY <1>1, <1>2, <1>3, <2>1, UntouchedUpload DEF MInv
<1> QED BY <1>2, <1>4, <1>5, <1>7, <1>8 DEF MInv, StoryOf

LEMMA DeleteKeepsStories ==
    ASSUME PInv, MInv, NEW u \in ArtworkIds, NEW purge \in BOOLEAN, Delete(u, purge)
    PROVE  MInv'
<1>1. PICK d \in {"purging", "kept"} : del' = [del EXCEPT ![u] = d]
  BY DEF Delete
<1>2. UNCHANGED <<req, put, bucket>> /\ u \in DOMAIN artworks /\ artworks[u].is_active
  BY DEF Delete, SoftDeleteArtwork
<1>3. /\ RowsOK' /\ DOMAIN artworks' = DOMAIN artworks /\ ~artworks'[u].is_active
      /\ \A v \in DOMAIN artworks \ {u} : artworks'[v] = artworks[v]
  BY DeletedRow DEF Delete, MInv
<1>4. del'[u] = d /\ \A v \in ArtworkIds \ {u} : del'[v] = del[v]
  BY <1>1 DEF PInv, Shapes
<1>5. req[u].pc \in Late /\ del[u] = "none"
  BY <1>2 DEF MInv, StoryOf, RowOf
<1>6. StoryOf(u)'
  BY <1>2, <1>3, <1>4, <1>5 DEF MInv, StoryOf, PutsOf, KeptOf, RowOf, GoneOf, ObjectsOf
<1>7. ASSUME NEW v \in ArtworkIds \ {u}
      PROVE  StoryOf(v)'
  <2>1. req[v].parts \subseteq Parts
    BY DEF PInv, Shapes, Uploads
  <2> QED BY <1>2, <1>3, <1>4, <2>1, UntouchedUpload DEF MInv
<1> QED BY <1>3, <1>6, <1>7 DEF MInv

LEMMA PurgeKeepsStories ==
    ASSUME PInv, MInv, NEW u \in ArtworkIds, PurgeStep(u)
    PROVE  MInv'
<1>1. UNCHANGED <<req, put, artworks>> /\ del[u] = "purging"
  BY DEF PurgeStep, Purge, PurgeFails, vars
<1>2. PICK d \in {"purged", "purge_failed", "purge_incomplete"} :
        /\ del' = [del EXCEPT ![u] = d]
        /\ bucket \ ObjectsOf(u) \subseteq bucket' /\ bucket' \subseteq bucket
        /\ d = "purged" => bucket' \cap ObjectsOf(u) = {}
  BY DEF PurgeStep, Purge, PurgeFails
<1>3. del'[u] = d /\ \A v \in ArtworkIds \ {u} : del'[v] = del[v]
  BY <1>2 DEF PInv, Shapes
<1>4. req[u].pc \in Late
  BY <1>1 DEF MInv, StoryOf, RowOf
<1>5. PutsOf(u)' /\ KeptOf(u)' /\ RowOf(u)'
  BY <1>1, <1>2, <1>3, <1>4 DEF MInv, StoryOf, PutsOf, KeptOf, RowOf, Late
<1>6. GoneOf(u)'
  <2>1. CASE d = "purged"
    <3>1. ASSUME NEW p \in Parts, <<u, p>> \in bucket'
          PROVE  FALSE
      <4>1. p \in req[u].parts
        BY <1>2, <3>1 DEF MInv, StoryOf, PutsOf
      <4> QED BY <1>2, <2>1, <3>1, <4>1 DEF ObjectsOf
    <3> QED BY <3>1 DEF GoneOf
  <2>2. CASE d # "purged"
    BY <1>1, <1>2, <1>3, <2>2 DEF MInv, StoryOf, GoneOf
  <2> QED BY <2>1, <2>2
<1>7. ASSUME NEW v \in ArtworkIds \ {u}
      PROVE  StoryOf(v)'
  <2>1. req[v].parts \subseteq Parts
    BY DEF PInv, Shapes, Uploads
  <2>2. \A p \in Parts : <<v, p>> \in bucket' <=> <<v, p>> \in bucket
    BY <1>2 DEF ObjectsOf
  <2> QED BY <1>1, <1>3, <2>1, <2>2, UntouchedUpload DEF MInv
<1> QED BY <1>1, <1>5, <1>6, <1>7 DEF MInv, StoryOf, RowsOK

(* Of an upload that has ended, or whose row exists, nothing is being sent,*)
(* so a crash lands none of its objects.                                   *)
LEMMA CrashKeepsStories ==
    ASSUME PInv, MInv, Crash
    PROVE  MInv'
<1>1. UNCHANGED artworks
  BY DEF Crash, vars
<1>2. PICK landed \in SUBSET Sending : bucket' = bucket \cup landed
  BY DEF Crash
<1>3. ASSUME NEW q \in Uploads
      PROVE  LET p == IF q.pc \in InFlight THEN "crashed" ELSE q.pc IN
             [q EXCEPT !.pc = p].pc = p /\ [q EXCEPT !.pc = p].parts = q.parts
  BY DEF Uploads
<1>4. ASSUME NEW u \in ArtworkIds
      PROVE  StoryOf(u)'
  <2>1. /\ req'[u].pc = IF req[u].pc \in InFlight THEN "crashed" ELSE req[u].pc
        /\ req'[u].parts = req[u].parts
    <3>1. req[u] \in Uploads
      BY DEF PInv, Shapes
    <3>2. req'[u] = [req[u] EXCEPT !.pc = IF req[u].pc \in InFlight THEN "crashed"
                                          ELSE req[u].pc]
      BY DEF Crash
    <3> QED BY <1>3, <3>1, <3>2
  <2>2. /\ del'[u] = IF del[u] = "purging" THEN "purge_failed" ELSE del[u]
        /\ \A p \in Parts :
                put'[u][p] = IF put[u][p] \in {"waiting", "sending"} THEN "failed" ELSE put[u][p]
    BY DEF Crash
  <2>3. \A p \in Parts :
            /\ <<u, p>> \in bucket => <<u, p>> \in bucket'
            /\ <<u, p>> \in bucket' => <<u, p>> \in bucket \/ put[u][p] = "sending"
    BY <1>2 DEF Sending
  <2>4. PutsOf(u)'
    BY <2>1, <2>2, <2>3 DEF MInv, StoryOf, PutsOf, AllPut, InFlight
  <2>5. KeptOf(u)'
    <3>1. ASSUME u \in DOMAIN artworks, del'[u] \in {"none", "kept"},
                 req'[u].pc \notin {"rolled_back", "rollback_failed"}
          PROVE  ObjectsOf(u)' \subseteq bucket'
      <4>1. ObjectsOf(u) \subseteq bucket
        BY <2>1, <2>2, <3>1 DEF MInv, StoryOf, KeptOf, InFlight
      <4> QED BY <1>2, <2>1, <4>1 DEF ObjectsOf
    <3> QED BY <1>1, <2>1, <3>1 DEF KeptOf, InFlight
  <2>6. RowOf(u)'
    BY <1>1, <2>1, <2>2 DEF MInv, StoryOf, RowOf, Late, InFlight
  <2>7. GoneOf(u)'
    <3>1. ASSUME req'[u].pc = "rolled_back" \/ del'[u] = "purged", NEW p \in Parts
          PROVE  <<u, p>> \notin bucket'
      <4>1. req[u].pc = "rolled_back" \/ del[u] = "purged"
        BY <2>1, <2>2, <3>1
      <4>2. put[u][p] # "sending"
        BY <4>1 DEF MInv, StoryOf, RowOf, PutsOf, Late, AllPut
      <4>3. <<u, p>> \notin bucket
        BY <4>1 DEF MInv, StoryOf, GoneOf
      <4> QED BY <2>3, <4>2, <4>3
    <3> QED BY <3>1 DEF GoneOf
  <2> QED BY <2>4, <2>5, <2>6, <2>7 DEF StoryOf
<1> QED BY <1>1, <1>4 DEF MInv, RowsOK

LEMMA StepMInv ==
    ASSUME PInv, MInv, [IngestNext]_ingestVars
    PROVE  MInv'
<1>1. \A u \in ArtworkIds : req[u].parts \subseteq Parts
  BY DEF PInv, Shapes, Uploads
<1>2. ASSUME CategoryChanges
      PROVE  MInv'
  <2>1. UNCHANGED <<req, put, bucket, del>>
    BY <1>2 DEF CategoryChanges
  <2>2. /\ RowsOK' /\ DOMAIN artworks' \subseteq DOMAIN artworks
        /\ \A v \in DOMAIN artworks' : artworks'[v] = artworks[v]
    BY <1>2, RowsVanish DEF MInv
  <2>3. ASSUME NEW u \in ArtworkIds
        PROVE  StoryOf(u)'
    BY <1>1, <2>1, <2>2, UntouchedUpload DEF MInv
  <2> QED BY <2>2, <2>3 DEF MInv
<1>3. ASSUME UNCHANGED ingestVars
      PROVE  MInv'
  <2>1. UNCHANGED <<artworks, req, put, bucket, del>>
    BY <1>3 DEF ingestVars
  <2>2. \A u \in ArtworkIds : StoryOf(u)'
    BY <1>1, <2>1, UntouchedUpload DEF MInv
  <2> QED BY <2>1, <2>2 DEF MInv, RowsOK
<1>4. ASSUME NEW u \in ArtworkIds, HandlerStep(u)
      PROVE  MInv'
  BY <1>4, GotoKeepsStories, InsertKeepsStories DEF HandlerStep
<1> QED
  BY <1>2, <1>3, <1>4, StartKeepsStories, PutKeepsStories, DeleteKeepsStories,
     PurgeKeepsStories, CrashKeepsStories DEF IngestNext

LEMMA MInvHolds == IngestSpec => [](PInv /\ MInv)
<1>1. IngestInit => MInv
  BY DEF IngestInit, MInv, RowsOK, StoryOf, PutsOf, KeptOf, RowOf, GoneOf, Late, AllPut
<1>2. PInv /\ MInv /\ [IngestNext]_ingestVars => MInv'
  BY StepMInv
<1> QED BY <1>1, <1>2, PInvHolds, PTL DEF IngestSpec

(* Upload u has a step of its own to take. *)
CanGoOn(u) ==
    \/ /\ req[u].pc = "putting"
       /\ \/ \A p \in req[u].parts : put[u][p] = "stored"
          \/ \E p \in req[u].parts :
                \/ put[u][p] \in {"failed", "sending"}
                \/ put[u][p] = "waiting" /\ permits > 0
    \/ /\ req[u].pc = "inserting"
       /\ RequireSubcategory(req[u].category) =>
                u \notin DOMAIN artworks /\ CountNonNegative(categories)
    \/ req[u].pc = "cleaning"

(* The safety part of EveryUploadAnswered. *)
WaitsOnlyForPuts ==
    \A u \in ArtworkIds : req[u].pc \in InFlight =>
        \/ CanGoOn(u)
        \/ req[u].pc = "putting" /\ permits = 0 /\ Sending # {}

(* No upload ever comes to a stop: each one under way can go on, unless it *)
(* waits for the semaphore, and then puts are being sent that will give    *)
(* their permits back, for any concurrency and number of uploads, and      *)
(* whatever failed before (storage.py:121-131, admin.py:216-237).          *)
THEOREM UploadsNeverStandStill ==
    ASSUME OneLevelSeed
    PROVE  IngestSpec => []WaitsOnlyForPuts
<1>1. PInv /\ MInv /\ UInv => WaitsOnlyForPuts
  <2> SUFFICES ASSUME PInv, MInv, UInv, NEW u \in ArtworkIds, req[u].pc \in InFlight,
                      ~CanGoOn(u)
               PROVE  req[u].pc = "putting" /\ permits = 0 /\ Sending # {}
    BY DEF WaitsOnlyForPuts
  <2>1. CASE req[u].pc = "putting"
    <3>1. permits = 0 => Sending # {}
      <4>1. Cardinality({}) = 0
        BY FS_EmptySet
      <4> QED BY <4>1, Configuration DEF PInv, PermitsConserved
    <3>2. ASSUME NEW p \in req[u].parts
          PROVE  put[u][p] \in {"waiting", "sending", "stored", "failed"}
      <4>1. p \in Parts
        BY DEF PInv, Shapes, Uploads
      <4>2. put[u][p] # "none"
        BY <2>1, <4>1 DEF MInv, StoryOf, PutsOf
      <4> QED BY <4>1, <4>2 DEF PInv, Shapes, PutStates
    <3>3. permits = 0
      BY <2>1, <3>2 DEF CanGoOn, PInv
    <3> QED BY <2>1, <3>1, <3>3
  <2>2. CASE req[u].pc = "inserting"
    <3>1. u \notin DOMAIN artworks
      BY <2>2 DEF MInv, StoryOf, RowOf, Late
    <3>2. CountNonNegative(categories)
      BY DEF UInv, Tables, TypeOK, CategoryRow, CountNonNegative
    <3> QED BY <2>2, <3>1, <3>2 DEF CanGoOn
  <2>3. CASE req[u].pc = "cleaning"
    BY <2>3 DEF CanGoOn
  <2> QED BY <2>1, <2>2, <2>3 DEF InFlight
<1> QED BY <1>1, MInvHolds, UInvHolds, PTL

(* A medium that was answered with 201 and is still listed has every one   *)
(* of its objects, for any number of uploads, faults of the storage and    *)
(* crashes among them (admin.py:216-232).                                  *)
THEOREM PublishedAlwaysHasMedia == IngestSpec => []PublishedHasMedia
<1>1. MInv => PublishedHasMedia
  BY DEF MInv, RowsOK, StoryOf, RowOf, KeptOf, PublishedHasMedia
<1> QED BY <1>1, MInvHolds, PTL

(* A rollback or a purge without an error leaves nothing of its upload     *)
(* and nothing that could still arrive (admin.py:236 and :256).            *)
THEOREM GoneStaysGone == IngestSpec => []GoneMeansGone
<1>1. MInv => GoneMeansGone
  BY DEF MInv, StoryOf, GoneOf, GoneMeansGone
<1> QED BY <1>1, MInvHolds, PTL

(* A row follows the category of its request, and that of a medium         *)
(* answered with 201 goes only together with it.                           *)
FateOf(u) ==
    /\ u \in DOMAIN artworks => artworks[u].category_id = req[u].category
    /\ req[u].pc = "published" =>
            u \in DOMAIN artworks \/ req[u].category \notin DOMAIN categories

FInv == \A u \in ArtworkIds : FateOf(u)

(* The counters' trigger adds and deletes no category. *)
LEMMA SyncKeepsCategories ==
    ASSUME NEW from, NEW to, SyncCounts(from, to)
    PROVE  DOMAIN categories' = DOMAIN categories
<1>1. \A cats, t, d : DOMAIN AdjustArtworkCount(cats, t, d) = DOMAIN cats
  BY DEF AdjustArtworkCount
<1> QED BY <1>1 DEF SyncCounts

LEMMA StepFInv ==
    ASSUME PInv, MInv, FInv, [IngestNext]_ingestVars
    PROVE  FInv'
<1> SUFFICES ASSUME NEW v \in ArtworkIds PROVE FateOf(v)'
  BY DEF FInv
<1>0. FateOf(v)
  BY DEF FInv
<1>1. ASSUME UNCHANGED vars, req'[v].category = req[v].category,
             req'[v].pc = "published" => req[v].pc = "published"
      PROVE  FateOf(v)'
  BY <1>0, <1>1 DEF FateOf, vars
<1>2. ASSUME NEW u \in ArtworkIds, NEW c \in CategoryIds, NEW m \in Media,
             NEW w \in Widths, StartUpload(u, c, m, w)
      PROVE  FateOf(v)'
  <2> DEFINE q == [pc |-> "putting", category |-> c, media |-> m,
                   parts |-> {"original"} \cup RenditionsOf(m, w)]
  <2>1. q.pc = "putting"
    OBVIOUS
  <2>2. req' = [req EXCEPT ![u] = q] /\ req[u].pc = "idle" /\ UNCHANGED vars
    BY <1>2 DEF StartUpload
  <2> HIDE DEF q
  <2>3. u \notin DOMAIN artworks
    BY <2>2 DEF MInv, StoryOf, RowOf, Late
  <2>4. req'[v] = IF v = u THEN q ELSE req[v]
    BY <2>2 DEF PInv, Shapes
  <2>5. CASE v = u
    BY <2>1, <2>2, <2>3, <2>4, <2>5 DEF FateOf, vars
  <2>6. CASE v # u
    BY <1>1, <2>2, <2>4, <2>6
  <2> QED BY <2>5, <2>6
<1>3. ASSUME NEW u \in ArtworkIds, Insert(u) \/ InsertLost(u)
      PROVE  FateOf(v)'
  <2>1. /\ DOMAIN artworks' = DOMAIN artworks \cup {u}
        /\ artworks'[u].category_id = req[u].category
        /\ \A x \in DOMAIN artworks \ {u} : artworks'[x] = artworks[x]
    BY <1>3, InsertedRow DEF Insert, InsertLost, PInv, MInv
  <2>2. DOMAIN categories' = DOMAIN categories
    BY <1>3, SyncKeepsCategories DEF Insert, InsertLost, InsertArtwork
  <2>3. /\ req'[u].category = req[u].category
        /\ \A x \in ArtworkIds \ {u} : req'[x] = req[x]
    BY <1>3, GotoEffect DEF Insert, InsertLost, PInv, Shapes, InFlight, Ends
  <2> QED BY <1>0, <2>1, <2>2, <2>3 DEF FateOf
<1>4. ASSUME NEW u \in ArtworkIds,
             \/ PutsDone(u) \/ PutsFailed(u) \/ InsertFails(u) \/ Cleanup(u) \/ CleanupFails(u)
      PROVE  FateOf(v)'
  <2>1. PICK pc \in InFlight \cup Ends : Goto(u, pc) /\ pc # "published" /\ UNCHANGED vars
    BY <1>4 DEF PutsDone, PutsFailed, InsertFails, Cleanup, CleanupFails, InFlight, Ends
  <2>2. /\ req'[u].category = req[u].category /\ req'[u].pc = pc
        /\ \A x \in ArtworkIds \ {u} : req'[x] = req[x]
    BY <2>1, GotoEffect DEF PInv, Shapes
  <2> QED BY <1>1, <2>1, <2>2
<1>5. ASSUME NEW u \in ArtworkIds, NEW purge \in BOOLEAN, Delete(u, purge)
      PROVE  FateOf(v)'
  <2>1. /\ DOMAIN artworks' = DOMAIN artworks
        /\ artworks'[u].category_id = artworks[u].category_id
        /\ \A x \in DOMAIN artworks \ {u} : artworks'[x] = artworks[x]
    BY <1>5, DeletedRow DEF Delete, MInv
  <2>2. DOMAIN categories' = DOMAIN categories
    BY <1>5, SyncKeepsCategories DEF Delete, SoftDeleteArtwork
  <2> QED BY <1>0, <1>5, <2>1, <2>2 DEF Delete, FateOf
<1>6. ASSUME Crash
      PROVE  FateOf(v)'
  <2>1. ASSUME NEW q \in Uploads
        PROVE  LET p == IF q.pc \in InFlight THEN "crashed" ELSE q.pc IN
               [q EXCEPT !.pc = p].pc = p /\ [q EXCEPT !.pc = p].category = q.category
    BY DEF Uploads
  <2>2. req[v] \in Uploads
    BY DEF PInv, Shapes
  <2>3. req'[v] = [req[v] EXCEPT !.pc = IF req[v].pc \in InFlight THEN "crashed"
                                        ELSE req[v].pc]
    BY <1>6 DEF Crash
  <2>4. req'[v].category = req[v].category
        /\ req'[v].pc = IF req[v].pc \in InFlight THEN "crashed" ELSE req[v].pc
    BY <2>1, <2>2, <2>3
  <2>5. UNCHANGED vars
    BY <1>6 DEF Crash
  <2> QED BY <1>1, <2>4, <2>5
<1>7. ASSUME CategoryChanges
      PROVE  FateOf(v)'
  BY <1>0, <1>7, RowsVanish DEF CategoryChanges, MInv, FateOf
<1>8. ASSUME UNCHANGED <<vars, req>>
      PROVE  FateOf(v)'
  BY <1>1, <1>8
<1>9. ASSUME \/ \E u \in ArtworkIds, p \in Parts : PutStep(u, p)
             \/ \E u \in ArtworkIds : PurgeStep(u)
             \/ UNCHANGED ingestVars
      PROVE  UNCHANGED <<vars, req>>
  BY <1>9 DEF PutStep, PutStart, PutDone, PutFail, PurgeStep, Purge, PurgeFails, ingestVars, vars
<1> QED
  BY <1>2, <1>3, <1>4, <1>5, <1>6, <1>7, <1>8, <1>9 DEF IngestNext, HandlerStep

LEMMA FInvHolds == IngestSpec => []FInv
<1>1. IngestInit => FInv
  BY DEF IngestInit, FInv, FateOf
<1>2. PInv /\ MInv /\ FInv /\ [IngestNext]_ingestVars => FInv'
  BY StepFInv
<1> QED BY <1>1, <1>2, MInvHolds, PTL DEF IngestSpec

(* Whatever fails, crashes or is deleted, in any number of uploads, no row *)
(* loses an object nobody asked to delete, and no object loses its row     *)
(* while the category is there (admin.py:216-257).                         *)
THEOREM RowsAlwaysMatchBucket == IngestSpec => []RowsMatchBucket
<1>1. PInv /\ MInv /\ FInv => RowsMatchBucket
  <2> SUFFICES ASSUME PInv, MInv, FInv, NEW u \in ArtworkIds
               PROVE  /\ u \in DOMAIN artworks =>
                            \/ ObjectsOf(u) \subseteq bucket
                            \/ del[u] \notin {"none", "kept"}
                            \/ req[u].pc \in {"rolled_back", "rollback_failed"}
                      /\ ({u} \X Parts) \cap bucket # {} =>
                            \/ u \in DOMAIN artworks
                            \/ req[u].pc \in InFlight \cup
                                             {"put_failed", "rollback_failed", "crashed"}
                            \/ /\ req[u].pc = "published"
                               /\ req[u].category \notin DOMAIN categories
    BY DEF RowsMatchBucket
  <2>1. u \in DOMAIN artworks =>
            \/ ObjectsOf(u) \subseteq bucket
            \/ del[u] \notin {"none", "kept"}
            \/ req[u].pc \in {"rolled_back", "rollback_failed"}
    BY DEF MInv, StoryOf, KeptOf
  <2>2. ASSUME NEW p \in Parts, <<u, p>> \in bucket, u \notin DOMAIN artworks
        PROVE  \/ req[u].pc \in InFlight \cup {"put_failed", "rollback_failed", "crashed"}
               \/ req[u].pc = "published" /\ req[u].category \notin DOMAIN categories
    <3>1. req[u].pc \in {"idle"} \cup InFlight \cup Ends
      BY DEF PInv, Shapes, Uploads
    <3>2. req[u].pc # "idle"
      BY <2>2 DEF PInv, IdleUntouched, MInv, StoryOf, PutsOf
    <3>3. req[u].pc # "rolled_back"
      BY <2>2 DEF MInv, StoryOf, GoneOf
    <3> QED BY <2>2, <3>1, <3>2, <3>3 DEF FInv, FateOf, Ends
  <2> QED BY <2>1, <2>2
<1> QED BY <1>1, MInvHolds, FInvHolds, PTL

----------------------------------------------------------------------------
(* The refinement.  Each step of Ingest is a step of AtomicUpload on       *)
(* answers and public media, or leaves both alone.                         *)

LEMMA Withdrawn ==
    ASSUME Answers' = Answers, Public' \subseteq Public
    PROVE  [Abstract!Next]_(Abstract!vars)
<1> DEFINE U == Public \ Public'
<1>1. U \in SUBSET Public /\ Public' = Public \ U
  OBVIOUS
<1> QED BY <1>1 DEF Abstract!Next, Abstract!Withdraw

LEMMA Refused ==
    ASSUME NEW U \in SUBSET ArtworkIds, \A u \in U : Answers[u] = "pending",
           Answers' = [u \in ArtworkIds |-> IF u \in U THEN "error" ELSE Answers[u]],
           Public' \subseteq Public, Public \ Public' \subseteq U
    PROVE  [Abstract!Next]_(Abstract!vars)
<1> DEFINE taken == Public \ Public'
<1>1. taken \in SUBSET (U \cap Public) /\ Public' = Public \ taken
  OBVIOUS
<1> QED BY <1>1 DEF Abstract!Next, Abstract!Refuse

(* No object of a medium with a row is on its way. *)
LEMMA NoneArrives ==
    ASSUME PInv, MInv, NEW u \in DOMAIN artworks, NEW p \in Parts
    PROVE  put[u][p] \notin {"waiting", "sending"}
<1>1. u \in ArtworkIds
  BY DEF MInv, RowsOK
<1> QED BY <1>1 DEF MInv, StoryOf, RowOf, PutsOf, Late, AllPut

(* Where no handler moves and no row appears or changes, media can only be *)
(* withdrawn.                                                              *)
LEMMA OnlyWithdrawn ==
    ASSUME PInv, MInv, UNCHANGED req,
           DOMAIN artworks' \subseteq DOMAIN artworks,
           \A v \in DOMAIN artworks' : artworks'[v].is_active => artworks[v].is_active,
           bucket' \subseteq bucket \cup Sending
    PROVE  [Abstract!Next]_(Abstract!vars)
<1>1. Answers' = Answers
  BY DEF Answers
<1>2. ASSUME NEW v \in Public'
      PROVE  v \in Public
  <2>1. v \in DOMAIN artworks /\ artworks[v].is_active /\ ObjectsOf(v) \subseteq bucket'
    BY <1>2 DEF Public, ObjectsOf
  <2>2. req[v].parts \subseteq Parts
    BY <2>1 DEF MInv, RowsOK, PInv, Shapes, Uploads
  <2>3. ASSUME NEW p \in req[v].parts
        PROVE  <<v, p>> \in bucket
    <3>1. <<v, p>> \notin Sending
      BY <2>1, <2>2, NoneArrives DEF Sending
    <3> QED BY <2>1, <3>1 DEF ObjectsOf
  <2> QED BY <2>1, <2>3 DEF Public, ObjectsOf
<1> QED BY <1>1, <1>2, Withdrawn

LEMMA StepRefines ==
    ASSUME PInv, MInv, [IngestNext]_ingestVars
    PROVE  [Abstract!Next]_(Abstract!vars)
<1>0. DOMAIN artworks \subseteq ArtworkIds /\ req \in [ArtworkIds -> Uploads]
  BY DEF MInv, RowsOK, PInv, Shapes
<1>1. ASSUME NEW u \in ArtworkIds, NEW c \in CategoryIds, NEW m \in Media,
             NEW w \in Widths, StartUpload(u, c, m, w)
      PROVE  Abstract!Accept(u)
  <2> DEFINE q == [pc |-> "putting", category |-> c, media |-> m,
                   parts |-> {"original"} \cup RenditionsOf(m, w)]
  <2>1. q.pc = "putting"
    OBVIOUS
  <2>2. req' = [req EXCEPT ![u] = q] /\ req[u].pc = "idle" /\ UNCHANGED <<artworks, bucket>>
    BY <1>1 DEF StartUpload, vars
  <2> HIDE DEF q
  <2>3. u \notin DOMAIN artworks
    BY <2>2 DEF MInv, StoryOf, RowOf, Late
  <2>4. \A v \in ArtworkIds : req'[v] = IF v = u THEN q ELSE req[v]
    BY <1>0, <2>2
  <2>5. Answers[u] = "none" /\ Answers' = [Answers EXCEPT ![u] = "pending"]
    BY <2>1, <2>2, <2>4 DEF Answers, InFlight
  <2>6. UNCHANGED Public
    BY <1>0, <2>2, <2>3, <2>4 DEF Public, ObjectsOf
  <2> QED BY <2>5, <2>6 DEF Abstract!Accept
<1>2. ASSUME NEW u \in ArtworkIds, NEW p \in Parts, PutStep(u, p)
      PROVE  [Abstract!Next]_(Abstract!vars)
  <2>1. bucket' \subseteq bucket \cup Sending
    BY <1>2 DEF PutStep, PutStart, PutDone, PutFail, Sending
  <2> QED BY <1>2, <2>1, OnlyWithdrawn DEF PutStep, PutStart, PutDone, PutFail, vars
<1>3. ASSUME NEW u \in ArtworkIds, HandlerStep(u)
      PROVE  [Abstract!Next]_(Abstract!vars)
  <2>1. ASSUME NEW pc \in InFlight \cup Ends, Goto(u, pc)
        PROVE  /\ \A v \in ArtworkIds : ObjectsOf(v)' = ObjectsOf(v)
               /\ \A v \in ArtworkIds : req'[v].pc = IF v = u THEN pc ELSE req[v].pc
    BY <1>0, <2>1, GotoEffect DEF ObjectsOf
  <2>2. CASE PutsDone(u) \/ InsertFails(u)
    <3>1. PICK pc \in InFlight : Goto(u, pc) /\ req[u].pc \in InFlight
                                /\ UNCHANGED <<artworks, bucket>>
      BY <2>2 DEF PutsDone, InsertFails, InFlight, vars
    <3>2. UNCHANGED Answers
      BY <2>1, <3>1 DEF Answers, InFlight
    <3>3. UNCHANGED Public
      BY <1>0, <2>1, <3>1 DEF Public
    <3> QED BY <3>2, <3>3 DEF Abstract!vars
  <2>3. CASE Insert(u) \/ InsertLost(u)
    <3>1. /\ DOMAIN artworks' = DOMAIN artworks \cup {u}
          /\ artworks'[u].is_active
          /\ \A v \in DOMAIN artworks \ {u} : artworks'[v] = artworks[v]
      BY <2>3, InsertedRow DEF Insert, InsertLost, PInv, MInv
    <3>2. req[u].pc = "inserting" /\ u \notin DOMAIN artworks /\ UNCHANGED bucket
      BY <2>3 DEF Insert, InsertLost, InsertArtwork
    <3>3. ObjectsOf(u) \subseteq bucket
      BY <3>2 DEF MInv, StoryOf, PutsOf, KeptOf, AllPut, ObjectsOf, PInv, Shapes, Uploads
    <3>4. PICK pc \in {"published", "cleaning"} :
            /\ Goto(u, pc)
            /\ pc = "published" <=> Insert(u)
      BY <2>3 DEF Insert, InsertLost
    <3>5. pc \in InFlight \cup Ends
      BY DEF InFlight, Ends
    <3>6. Public' = Public \cup {u}
      BY <1>0, <2>1, <3>1, <3>2, <3>3, <3>4, <3>5 DEF Public
    <3>7. Answers[u] = "pending"
      BY <3>2 DEF Answers, InFlight
    <3>8. CASE pc = "published"
      <4>1. Answers' = [Answers EXCEPT ![u] = "created"]
        BY <2>1, <3>4, <3>5, <3>8 DEF Answers, InFlight
      <4> QED BY <3>6, <3>7, <4>1 DEF Abstract!Next, Abstract!Publish
    <3>9. CASE pc = "cleaning"
      <4>1. Answers' = Answers
        BY <2>1, <3>2, <3>4, <3>5, <3>9 DEF Answers, InFlight
      <4> QED BY <3>6, <3>7, <4>1 DEF Abstract!Next, Abstract!PublishUnheard
    <3> QED BY <3>8, <3>9
  <2>4. CASE PutsFailed(u) \/ Cleanup(u) \/ CleanupFails(u)
    <3>1. PICK pc \in {"put_failed", "rolled_back", "rollback_failed"} :
            /\ Goto(u, pc) /\ req[u].pc \in InFlight /\ UNCHANGED artworks
            /\ bucket' \subseteq bucket /\ bucket \ ObjectsOf(u) \subseteq bucket'
      BY <2>4 DEF PutsFailed, Cleanup, CleanupFails, InFlight, vars
    <3>2. pc \in InFlight \cup Ends
      BY DEF Ends
    <3>3. Answers[u] = "pending"
      BY <3>1 DEF Answers, InFlight
    <3>4. Answers' = [v \in ArtworkIds |-> IF v \in {u} THEN "error" ELSE Answers[v]]
      BY <2>1, <3>1, <3>2 DEF Answers, InFlight
    <3>5. Public' \subseteq Public
      BY <1>0, <2>1, <3>1, <3>2 DEF Public
    <3>6. ASSUME NEW v \in Public, v # u
          PROVE  v \in Public'
      <4>1. ObjectsOf(v) \subseteq bucket'
        BY <3>1, <3>6 DEF Public, ObjectsOf
      <4> QED BY <1>0, <2>1, <3>1, <3>2, <3>6, <4>1 DEF Public
    <3>7. /\ {u} \in SUBSET ArtworkIds /\ \A v \in {u} : Answers[v] = "pending"
          /\ Public \ Public' \subseteq {u}
      BY <3>3, <3>6
    <3> QED BY <3>4, <3>5, <3>7, Refused
  <2> QED BY <1>3, <2>2, <2>3, <2>4 DEF HandlerStep
<1>4. ASSUME NEW u \in ArtworkIds, NEW purge \in BOOLEAN, Delete(u, purge)
      PROVE  [Abstract!Next]_(Abstract!vars)
  <2>1. /\ DOMAIN artworks' = DOMAIN artworks /\ ~artworks'[u].is_active
        /\ \A v \in DOMAIN artworks \ {u} : artworks'[v] = artworks[v]
    BY <1>4, DeletedRow DEF Delete, MInv
  <2> QED BY <1>4, <2>1, OnlyWithdrawn DEF Delete
<1>5. ASSUME NEW u \in ArtworkIds, PurgeStep(u)
      PROVE  [Abstract!Next]_(Abstract!vars)
  BY <1>5, OnlyWithdrawn DEF PurgeStep, Purge, PurgeFails, vars
<1>6. ASSUME Crash
      PROVE  [Abstract!Next]_(Abstract!vars)
  <2> DEFINE U == {u \in ArtworkIds : req[u].pc \in InFlight}
  <2>1. UNCHANGED artworks
    BY <1>6 DEF Crash, vars
  <2>2. PICK landed \in SUBSET Sending : bucket' = bucket \cup landed
    BY <1>6 DEF Crash
  <2>3. ASSUME NEW q \in Uploads
        PROVE  LET p == IF q.pc \in InFlight THEN "crashed" ELSE q.pc IN
               [q EXCEPT !.pc = p].pc = p /\ [q EXCEPT !.pc = p].parts = q.parts
    BY DEF Uploads
  <2>4. ASSUME NEW u \in ArtworkIds
        PROVE  /\ req'[u].pc = IF req[u].pc \in InFlight THEN "crashed" ELSE req[u].pc
               /\ ObjectsOf(u)' = ObjectsOf(u)
    <3>1. req[u] \in Uploads
      BY <1>0
    <3>2. req'[u] = [req[u] EXCEPT !.pc = IF req[u].pc \in InFlight THEN "crashed"
                                          ELSE req[u].pc]
      BY <1>6 DEF Crash
    <3> QED BY <2>3, <3>1, <3>2 DEF ObjectsOf
  <2>5. \A u \in U : Answers[u] = "pending"
    BY DEF Answers, InFlight
  <2>6. Answers' = [u \in ArtworkIds |-> IF u \in U THEN "error" ELSE Answers[u]]
    BY <2>4 DEF Answers, InFlight
  <2>7. Public' = Public
    <3>1. ASSUME NEW v \in DOMAIN artworks
          PROVE  ObjectsOf(v) \subseteq bucket' <=> ObjectsOf(v) \subseteq bucket
      <4>1. req[v].parts \subseteq Parts
        BY <1>0 DEF Uploads
      <4>2. \A p \in req[v].parts : <<v, p>> \notin Sending
        BY <4>1, NoneArrives DEF Sending
      <4> QED BY <2>2, <4>2 DEF ObjectsOf
    <3> QED BY <1>0, <2>1, <2>4, <3>1 DEF Public
  <2> QED BY <2>5, <2>6, <2>7, Refused
<1>7. ASSUME CategoryChanges
      PROVE  [Abstract!Next]_(Abstract!vars)
  BY <1>7, RowsVanish, OnlyWithdrawn DEF CategoryChanges, MInv
<1>8. ASSUME UNCHANGED ingestVars
      PROVE  [Abstract!Next]_(Abstract!vars)
  BY <1>8 DEF ingestVars, vars, Abstract!vars, Answers, Public, ObjectsOf
<1> QED BY <1>1, <1>2, <1>3, <1>4, <1>5, <1>6, <1>7, <1>8 DEF IngestNext, Abstract!Next

(* An upload takes effect in one step: a medium becomes public in the step *)
(* that answers its request, objects included, a request answered with an  *)
(* error publishes nothing any more, and what was public goes only by a    *)
(* delete (admin.py:140-260).  The answer to every request is liveness and *)
(* left to TLC.                                                            *)
THEOREM UploadsAreAtomic == IngestSpec => Abstract!Safety
<1>1. IngestInit => Abstract!Init
  BY DEF IngestInit, Abstract!Init, Answers, Public, InFlight
<1>2. PInv /\ MInv /\ [IngestNext]_ingestVars => [Abstract!Next]_(Abstract!vars)
  BY StepRefines
<1> QED BY <1>1, <1>2, MInvHolds, PTL DEF IngestSpec, Abstract!Safety
=============================================================================
