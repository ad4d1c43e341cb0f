----------------------------- MODULE Catalogue -----------------------------
(***************************************************************************)
(* The Postgres catalogue: the tables of migrations/001_init.sql, the      *)
(* triggers and the recount function of migrations/002_triggers.sql, and   *)
(* every statement that writes to them.                                    *)
(*                                                                         *)
(* A table is a function from the ids of its rows to the rows.  A          *)
(* statement is one action: each runs in a transaction of its own, its     *)
(* triggers included, and a constraint that fails aborts all of it, so a   *)
(* rejected statement is an action that is not enabled.                    *)
(*                                                                         *)
(* Next has the admin API and the plain DML on artworks that bulk loads,   *)
(* the seed script and psql sessions use; EraseNext what a psql session    *)
(* can also do to categories.  Transactions takes the statements apart.    *)
(***************************************************************************)
EXTENDS Integers, FiniteSets, Functions

CONSTANTS CategoryIds,  \* ids the categories sequence can hand out
          ArtworkIds,   \* ids the artworks sequence can hand out
          Slugs,        \* category slugs
          NULL          \* SQL NULL

Kinds == {"live", "static"}

ASSUME NullIsNoValue == NULL \notin CategoryIds /\ NULL \notin Kinds

VARIABLES categories, artworks

vars == <<categories, artworks>>

CategoryRow == [parent_id     : CategoryIds \cup {NULL},
                kind          : Kinds \cup {NULL},
                slug          : Slugs,
                is_active     : BOOLEAN,
                artwork_count : Nat]

ArtworkRow == [category_id : CategoryIds, is_active : BOOLEAN]

(***************************************************************************)
(* Rows are well formed.  The count is a natural number because of the     *)
(* constraint categories_count_non_negative: a trigger that would take a   *)
(* counter below zero aborts the statement that fired it.                  *)
(***************************************************************************)
TypeOK ==
    /\ DOMAIN categories \subseteq CategoryIds
    /\ categories \in [DOMAIN categories -> CategoryRow]
    /\ DOMAIN artworks \subseteq ArtworkIds
    /\ artworks \in [DOMAIN artworks -> ArtworkRow]

Init ==
    /\ categories = [c \in {} |-> NULL]
    /\ artworks = [a \in {} |-> NULL]

(* The table with one row more, or with one row replaced. *)
WithRow(table, id, row) ==
    [x \in DOMAIN table \cup {id} |-> IF x = id THEN row ELSE table[x]]

Without(table, ids) == Restrict(table, DOMAIN table \ ids)

----------------------------------------------------------------------------
(* What queries see. *)

IsRoot(c) == categories[c].parent_id = NULL

Children(p) == {c \in DOMAIN categories : categories[c].parent_id = p}

ActiveIn(C) == {a \in DOMAIN artworks : artworks[a].is_active
                                        /\ artworks[a].category_id \in C}

(* The media a category answers for: its own and its subcategories'.       *)
Counted(c) == ActiveIn({c} \cup Children(c))

----------------------------------------------------------------------------
(* Triggers. *)

(* Wrong on purpose: any existing category will do. *)
RequireCategoryOnly(c) == c \in DOMAIN categories

(* BEFORE INSERT OR UPDATE OF category_id: the target is a subcategory.    *)
RequireSubcategory(c) ==
    /\ c \in DOMAIN categories
    /\ ~IsRoot(c)

(* The category itself and, in the same UPDATE, its parent. *)
AdjustArtworkCount(cats, target, delta) ==
    LET hit == {target} \cup
               (IF target \in DOMAIN cats THEN {cats[target].parent_id} ELSE {})
    IN  [c \in DOMAIN cats |->
            IF c \in hit
            THEN [cats[c] EXCEPT !.artwork_count = @ + delta]
            ELSE cats[c]]

(* Wrong on purpose: the schema without categories_count_non_negative.     *)
CountUnchecked(cats) == TRUE

CountNonNegative(cats) == \A c \in DOMAIN cats : cats[c].artwork_count >= 0

(* Wrong on purpose: counts the row again although it moved nowhere.       *)
SyncCountsTwice(remove_from, add_to) ==
    LET removed == IF remove_from # NULL /\ remove_from # add_to
                   THEN AdjustArtworkCount(categories, remove_from, -1)
                   ELSE categories
        added   == IF add_to # NULL
                   THEN AdjustArtworkCount(removed, add_to, 1)
                   ELSE removed
    IN  /\ CountNonNegative(removed)
        /\ categories' = added

(* AFTER trigger on artworks.  remove_from is the category of the old row  *)
(* if that was active, add_to the category of the new row if that is.      *)
SyncCounts(remove_from, add_to) ==
    LET removed == IF remove_from # NULL /\ remove_from # add_to
                   THEN AdjustArtworkCount(categories, remove_from, -1)
                   ELSE categories
        added   == IF add_to # NULL /\ add_to # remove_from
                   THEN AdjustArtworkCount(removed, add_to, 1)
                   ELSE removed
    IN  /\ CountNonNegative(removed)
        /\ categories' = added

CountedAs(row) == IF row.is_active THEN row.category_id ELSE NULL

----------------------------------------------------------------------------
(* The admin API. *)

(* POST /admin/categories: the handler's own check, then the row's FK, its *)
(* CHECKs and its two unique constraints.                                  *)
CreateCategory(c, parent, kind, slug, active) ==
    /\ c \notin DOMAIN categories
    /\ (parent = NULL) <=> (kind = NULL)
    /\ parent \in DOMAIN categories \cup {NULL}
    /\ \A d \in DOMAIN categories : categories[d].slug # slug
    /\ parent # NULL => \A d \in Children(parent) : categories[d].kind # kind
    /\ categories' = WithRow(categories, c,
                             [parent_id |-> parent, kind |-> kind, slug |-> slug,
                              is_active |-> active, artwork_count |-> 0])
    /\ UNCHANGED artworks

(* PATCH /admin/categories/{id}: is_active is COALESCEd, so it is set to   *)
(* either value or left alone; the columns nothing else reads are left out.*)
UpdateCategory(c, active) ==
    /\ c \in DOMAIN categories
    /\ categories' = [categories EXCEPT ![c].is_active = active]
    /\ UNCHANGED artworks

(* DELETE /admin/categories/{id}: a soft delete, of an active row only.    *)
DeleteCategory(c) ==
    /\ c \in DOMAIN categories
    /\ categories[c].is_active
    /\ categories' = [categories EXCEPT ![c].is_active = FALSE]
    /\ UNCHANGED artworks

(* DELETE /admin/artworks/{id}: a soft delete, of an active row only.      *)
SoftDeleteArtwork(a) ==
    /\ a \in DOMAIN artworks
    /\ artworks[a].is_active
    /\ artworks' = [artworks EXCEPT ![a].is_active = FALSE]
    /\ SyncCounts(CountedAs(artworks[a]), NULL)

(* Wrong on purpose: rolled is forgotten, so roots count their own media.  *)
RecountedUnrolled ==
    [c \in DOMAIN categories |->
        [categories[c] EXCEPT !.artwork_count = Cardinality(ActiveIn({c}))]]

(* Rebuilds every counter: a subcategory from its own media, a root from   *)
(* that of its subcategories.                                              *)
RecountedTable ==
    [c \in DOMAIN categories |->
        [categories[c] EXCEPT !.artwork_count =
            Cardinality(ActiveIn(IF IsRoot(c) THEN Children(c) ELSE {c}))]]

(* POST /admin/maintenance/recount. *)
Recount ==
    /\ categories' = RecountedTable
    /\ UNCHANGED artworks

----------------------------------------------------------------------------
(* Plain DML on artworks, triggers and all. *)

(* INSERT: POST /admin/artworks and the seed script leave is_active TRUE.  *)
InsertArtwork(a, c, active) ==
    LET row == [category_id |-> c, is_active |-> active] IN
    /\ a \notin DOMAIN artworks
    /\ RequireSubcategory(c)
    /\ artworks' = WithRow(artworks, a, row)
    /\ SyncCounts(NULL, CountedAs(row))

(* UPDATE of category_id and is_active.  A statement that names only       *)
(* is_active does not fire the first trigger.                              *)
UpdateArtwork(a, c, active) ==
    LET row == [category_id |-> c, is_active |-> active] IN
    /\ a \in DOMAIN artworks
    /\ c # artworks[a].category_id => RequireSubcategory(c)
    /\ artworks' = WithRow(artworks, a, row)
    /\ SyncCounts(CountedAs(artworks[a]), CountedAs(row))

(* DELETE of the row itself. *)
EraseArtwork(a) ==
    /\ a \in DOMAIN artworks
    /\ artworks' = Without(artworks, {a})
    /\ SyncCounts(CountedAs(artworks[a]), NULL)

Next ==
    \/ \E c \in CategoryIds, p \in CategoryIds \cup {NULL},
          k \in Kinds \cup {NULL}, s \in Slugs, b \in BOOLEAN :
            CreateCategory(c, p, k, s, b)
    \/ \E c \in CategoryIds, b \in BOOLEAN : UpdateCategory(c, b)
    \/ \E c \in CategoryIds : DeleteCategory(c)
    \/ \E a \in ArtworkIds : SoftDeleteArtwork(a)
    \/ Recount
    \/ \E a \in ArtworkIds, c \in CategoryIds, b \in BOOLEAN : InsertArtwork(a, c, b)
    \/ \E a \in ArtworkIds, c \in CategoryIds, b \in BOOLEAN : UpdateArtwork(a, c, b)
    \/ \E a \in ArtworkIds : EraseArtwork(a)

Spec == Init /\ [][Next]_vars

----------------------------------------------------------------------------
(* A psql session on categories. *)

(* What ON DELETE CASCADE takes along with C, at any depth. *)
Subtree(C) ==
    LET grow[n \in Nat] ==
            IF n = 0 THEN C
            ELSE grow[n - 1] \cup UNION {Children(c) : c \in grow[n - 1]}
    IN  grow[Cardinality(DOMAIN categories)]

(* DELETE FROM categories.  The cascade deletes the subcategories and the  *)
(* media; when artworks_sync_counts fires for a medium its category row is *)
(* gone, so adjust_artwork_count finds neither it nor its parent.          *)
EraseCategory(c) ==
    LET gone == Subtree({c}) IN
    /\ c \in DOMAIN categories
    /\ categories' = Without(categories, gone)
    /\ artworks' = Without(artworks, {a \in DOMAIN artworks :
                                        artworks[a].category_id \in gone})

EraseNext == \E c \in CategoryIds : EraseCategory(c)

----------------------------------------------------------------------------
(* Properties. *)

(* The tree is one level deep (README.md:32, 001_init.sql:26-27).          *)
OneLevelTree ==
    \A c \in DOMAIN categories : ~IsRoot(c) => IsRoot(categories[c].parent_id)

(* Media attaches only to a subcategory, never to a root, whatever         *)
(* sequence of inserts and moves the trigger lets through                  *)
(* (002_triggers.sql:5, artworks_require_subcategory).                     *)
MediaOnSubcategories ==
    \A a \in DOMAIN artworks :
        /\ artworks[a].category_id \in DOMAIN categories
        /\ ~IsRoot(artworks[a].category_id)

(* The counter of a category is the number of active media in it and its   *)
(* subcategories.  002_triggers.sql:6-7 promises this of all of them; it   *)
(* is stated of the categories of a one-level tree, roots and              *)
(* subcategories without subcategories, on which triggers and recount      *)
(* agree whatever else the tree holds (002_triggers.sql:31-100).           *)
CountsExact ==
    \A c \in DOMAIN categories :
        IsRoot(c) \/ Children(c) = {} =>
            categories[c].artwork_count = Cardinality(Counted(c))

(* Not even deleting categories in psql makes a counter fall short: what   *)
(* the cascade leaves is an excess, so no later delete of a medium fails   *)
(* on categories_count_non_negative (001_init.sql:32, 002_triggers.sql:37).*)
NeverUndercounted ==
    \A c \in DOMAIN categories :
        IsRoot(c) \/ Children(c) = {} =>
            categories[c].artwork_count >= Cardinality(Counted(c))
=============================================================================
