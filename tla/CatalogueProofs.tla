-------------------------- MODULE CatalogueProofs --------------------------
(***************************************************************************)
(* Proofs about Catalogue for any number of categories, artworks and slugs.*)
(*                                                                         *)
(* The invariants that matter are not inductive one by one.  A counter is  *)
(* right after CreateCategory only because no medium refers to the new id  *)
(* yet, which is the foreign key; and right after Recount only because no  *)
(* medium hangs on a root, which is the other trigger's job.  IInv puts    *)
(* the three together with the types and the finiteness of the table.      *)
(***************************************************************************)
EXTENDS Catalogue, FiniteSetTheorems, TLAPS

(* Parents exist: the foreign key on parent_id. *)
ParentsExist ==
    \A c \in DOMAIN categories :
        categories[c].parent_id # NULL => categories[c].parent_id \in DOMAIN categories

IInv ==
    /\ TypeOK
    /\ IsFiniteSet(DOMAIN artworks)
    /\ ParentsExist
    /\ MediaOnSubcategories
    /\ CountsExact

(* c together with its subcategories: where the media it answers for are.  *)
Group(c) == {c} \cup Children(c)

(* The four fields that no trigger ever touches. *)
SameShape(cats, cats2) ==
    /\ DOMAIN cats2 = DOMAIN cats
    /\ \A c \in DOMAIN cats : /\ cats2[c].parent_id = cats[c].parent_id
                              /\ cats2[c].kind = cats[c].kind
                              /\ cats2[c].slug = cats[c].slug
                              /\ cats2[c].is_active = cats[c].is_active

(* A categories table before its counters are checked. *)
IntRow == [parent_id     : CategoryIds \cup {NULL},
           kind          : Kinds \cup {NULL},
           slug          : Slugs,
           is_active     : BOOLEAN,
           artwork_count : Int]

IntTable(cats) ==
    /\ DOMAIN cats \subseteq CategoryIds
    /\ cats \in [DOMAIN cats -> IntRow]

(* What a category of group G counts of a row that counts for category x.  *)
Share(x, G) == IF x \in G THEN 1 ELSE 0

----------------------------------------------------------------------------

(* adjust_artwork_count moves exactly the counters of the categories whose *)
(* group has the target, each once, and nothing else.                      *)
LEMMA AdjustEffect ==
    ASSUME NEW cats, IntTable(cats),
           NEW target \in DOMAIN cats, NEW delta \in Int
    PROVE  LET new == AdjustArtworkCount(cats, target, delta) IN
           /\ IntTable(new)
           /\ SameShape(cats, new)
           /\ \A c \in DOMAIN cats :
                new[c].artwork_count =
                    IF target \in {c} \cup {d \in DOMAIN cats : cats[d].parent_id = c}
                    THEN cats[c].artwork_count + delta
                    ELSE cats[c].artwork_count
<1> DEFINE hit == {target} \cup {cats[target].parent_id}
           new == [c \in DOMAIN cats |->
                    IF c \in hit THEN [cats[c] EXCEPT !.artwork_count = @ + delta]
                    ELSE cats[c]]
<1>1. AdjustArtworkCount(cats, target, delta) = new
  BY DEF AdjustArtworkCount
<1>2. ASSUME NEW c \in DOMAIN cats
      PROVE  /\ new[c] \in IntRow
             /\ new[c].parent_id = cats[c].parent_id
             /\ new[c].kind = cats[c].kind
             /\ new[c].slug = cats[c].slug
             /\ new[c].is_active = cats[c].is_active
             /\ new[c].artwork_count = IF c \in hit THEN cats[c].artwork_count + delta
                                       ELSE cats[c].artwork_count
  <2>1. cats[c] \in IntRow
    BY DEF IntTable
  <2>2. CASE c \in hit
    BY <2>1, <2>2 DEF IntRow
  <2>3. CASE c \notin hit
    BY <2>1, <2>3 DEF IntRow
  <2> QED BY <2>2, <2>3
<1>3. \A c \in DOMAIN cats :
        c \in hit <=> target \in {c} \cup {d \in DOMAIN cats : cats[d].parent_id = c}
  OBVIOUS
<1>4. IntTable(new)
  BY <1>2 DEF IntTable
<1>5. SameShape(cats, new)
  BY <1>2 DEF SameShape
<1>6. \A c \in DOMAIN cats :
        new[c].artwork_count =
            IF target \in {c} \cup {d \in DOMAIN cats : cats[d].parent_id = c}
            THEN cats[c].artwork_count + delta
            ELSE cats[c].artwork_count
  BY <1>2, <1>3
<1> QED BY <1>1, <1>4, <1>5, <1>6

(* artworks_sync_counts takes one off every group that has the old         *)
(* category and adds one to every group that has the new, and the          *)
(* constraint keeps the counters natural numbers.                          *)
LEMMA SyncEffect ==
    ASSUME TypeOK,
           NEW r \in DOMAIN categories \cup {NULL},
           NEW t \in DOMAIN categories \cup {NULL},
           SyncCounts(r, t)
    PROVE  /\ DOMAIN categories' \subseteq CategoryIds
           /\ categories' \in [DOMAIN categories' -> CategoryRow]
           /\ SameShape(categories, categories')
           /\ \A c \in DOMAIN categories :
                categories'[c].artwork_count =
                    categories[c].artwork_count - Share(r, Group(c)) + Share(t, Group(c))
<1> DEFINE removed == IF r # NULL /\ r # t THEN AdjustArtworkCount(categories, r, -1)
                      ELSE categories
           added == IF t # NULL /\ t # r THEN AdjustArtworkCount(removed, t, 1)
                    ELSE removed
<1>0. /\ IntTable(categories)
      /\ \A c \in DOMAIN categories : Group(c) \subseteq CategoryIds
      /\ \A c \in DOMAIN categories : categories[c].artwork_count \in Int
      /\ NULL \notin CategoryIds
  BY NullIsNoValue DEF TypeOK, CategoryRow, IntTable, IntRow, Group, Children
<1>1. /\ IntTable(removed)
      /\ SameShape(categories, removed)
      /\ \A c \in DOMAIN categories :
            removed[c].artwork_count =
                categories[c].artwork_count - (IF r # t THEN Share(r, Group(c)) ELSE 0)
  <2>1. CASE r # NULL /\ r # t
    <3>1. r \in DOMAIN categories /\ removed = AdjustArtworkCount(categories, r, -1)
      BY <2>1
    <3>2. /\ IntTable(removed)
          /\ SameShape(categories, removed)
          /\ \A c \in DOMAIN categories :
                removed[c].artwork_count =
                    IF r \in Group(c) THEN categories[c].artwork_count + (-1)
                    ELSE categories[c].artwork_count
      BY <1>0, <3>1, AdjustEffect DEF Group, Children
    <3> HIDE DEF removed
    <3> QED BY <1>0, <2>1, <3>2 DEF Share
  <2>2. CASE ~(r # NULL /\ r # t)
    <3>1. removed = categories
      BY <2>2
    <3> HIDE DEF removed
    <3> QED BY <1>0, <2>2, <3>1 DEF Share, SameShape
  <2> QED BY <2>1, <2>2
<1>2. CountNonNegative(removed) /\ categories' = added
  BY DEF SyncCounts
<1>3. \A c \in DOMAIN categories :
        {c} \cup {d \in DOMAIN removed : removed[d].parent_id = c} = Group(c)
  <2> HIDE DEF removed
  <2> QED BY <1>1 DEF SameShape, Group, Children
<1>4. \A c \in DOMAIN categories : removed[c].artwork_count \in Nat
  <2> HIDE DEF removed
  <2>1. ASSUME NEW c \in DOMAIN categories PROVE removed[c].artwork_count \in Int
    BY <1>1 DEF SameShape, IntTable, IntRow
  <2> QED BY <1>1, <1>2, <2>1 DEF SameShape, CountNonNegative
<1>5. /\ IntTable(added)
      /\ SameShape(categories, added)
      /\ \A c \in DOMAIN categories :
            /\ added[c].artwork_count \in Nat
            /\ added[c].artwork_count =
                    categories[c].artwork_count - Share(r, Group(c)) + Share(t, Group(c))
  <2> HIDE DEF removed
  <2>1. CASE t # NULL /\ t # r
    <3>1. t \in DOMAIN removed /\ added = AdjustArtworkCount(removed, t, 1)
      BY <2>1, <1>1 DEF SameShape
    <3>2. /\ IntTable(added)
          /\ SameShape(removed, added)
          /\ \A c \in DOMAIN removed :
                added[c].artwork_count =
                    IF t \in {c} \cup {d \in DOMAIN removed : removed[d].parent_id = c}
                    THEN removed[c].artwork_count + 1
                    ELSE removed[c].artwork_count
      BY <1>1, <3>1, AdjustEffect
    <3> HIDE DEF added
    <3>3. SameShape(categories, added)
      BY <1>1, <3>2 DEF SameShape
    <3>4. ASSUME NEW c \in DOMAIN categories
          PROVE  added[c].artwork_count = IF t \in Group(c) THEN removed[c].artwork_count + 1
                                          ELSE removed[c].artwork_count
      BY <1>1, <1>3, <3>2 DEF SameShape
    <3> QED BY <1>0, <1>1, <1>4, <2>1, <3>2, <3>3, <3>4 DEF Share
  <2>2. CASE ~(t # NULL /\ t # r)
    <3>1. added = removed
      BY <2>2
    <3>2. \A c \in DOMAIN categories : removed[c].artwork_count =
                categories[c].artwork_count - Share(r, Group(c)) + Share(t, Group(c))
      <4>1. CASE t = r
        BY <1>0, <1>1, <4>1 DEF Share
      <4>2. CASE t = NULL /\ t # r
        BY <1>0, <1>1, <4>2 DEF Share
      <4> QED BY <2>2, <4>1, <4>2
    <3> HIDE DEF added
    <3> QED BY <1>1, <1>4, <3>1, <3>2
  <2> QED BY <2>1, <2>2
<1> HIDE DEF added
<1>6. \A c \in DOMAIN added : added[c] \in CategoryRow
  BY <1>5 DEF IntTable, IntRow, CategoryRow, SameShape
<1> QED BY <1>2, <1>5, <1>6 DEF IntTable

----------------------------------------------------------------------------

(* The active media of group G in an artworks table, and the category that *)
(* row a of it counts for.                                                 *)
ActiveRows(table, G) == {b \in DOMAIN table : table[b].is_active /\ table[b].category_id \in G}

CountsFor(table, a) == IF a \in DOMAIN table THEN CountedAs(table[a]) ELSE NULL

(* Nothing but row a differs. *)
SameElsewhere(old, new, a) ==
    /\ DOMAIN old \ {a} = DOMAIN new \ {a}
    /\ \A b \in DOMAIN old \ {a} : new[b] = old[b]

(* One artworks row a changes, appears or goes.  Every group loses what it *)
(* counted of the old row and gains what it counts of the new.             *)
LEMMA MediaEffect ==
    ASSUME NEW old, NEW new, NEW a, NEW G, NULL \notin G,
           IsFiniteSet(DOMAIN old),
           SameElsewhere(old, new, a)
    PROVE  /\ Cardinality(ActiveRows(old, G)) \in Nat
           /\ Cardinality(ActiveRows(new, G)) =
                Cardinality(ActiveRows(old, G)) - Share(CountsFor(old, a), G)
                                                + Share(CountsFor(new, a), G)
<1> DEFINE others == {b \in DOMAIN old \ {a} : old[b].is_active /\ old[b].category_id \in G}
<1>1. IsFiniteSet(others) /\ a \notin others
  BY FS_Subset
<1>2. /\ ActiveRows(old, G) = IF CountsFor(old, a) \in G THEN others \cup {a} ELSE others
      /\ ActiveRows(new, G) = IF CountsFor(new, a) \in G THEN others \cup {a} ELSE others
  BY DEF ActiveRows, CountsFor, CountedAs, SameElsewhere
<1>3. Cardinality(others) \in Nat /\ Cardinality(others \cup {a}) = Cardinality(others) + 1
  BY <1>1, FS_CardinalityType, FS_AddElement
<1> HIDE DEF others
<1> QED BY <1>2, <1>3 DEF Share

(* What every statement relies on, the counters left aside. *)
Tables ==
    /\ TypeOK
    /\ IsFiniteSet(DOMAIN artworks)
    /\ MediaOnSubcategories

(* By how much the counter of c is off. *)
Drift(c) == categories[c].artwork_count - Cardinality(Counted(c))

LEMMA CountsAreIntegers ==
    ASSUME TypeOK, IsFiniteSet(DOMAIN artworks)
    PROVE  \A c \in DOMAIN categories : /\ categories[c].artwork_count \in Nat
                                        /\ Cardinality(Counted(c)) \in Nat
<1> SUFFICES ASSUME NEW c \in DOMAIN categories
             PROVE  categories[c].artwork_count \in Nat /\ Cardinality(Counted(c)) \in Nat
  OBVIOUS
<1>1. IsFiniteSet(Counted(c))
  BY FS_Subset DEF Counted, ActiveIn
<1> QED BY <1>1, FS_CardinalityType DEF TypeOK, CategoryRow

(* A statement on one artworks row: the triggers move every counter along  *)
(* with what it counts, so one that was off stays off by as much.          *)
LEMMA RowStep ==
    ASSUME TypeOK, IsFiniteSet(DOMAIN artworks),
           NEW a,
           NEW r \in DOMAIN categories \cup {NULL},
           NEW t \in DOMAIN categories \cup {NULL},
           SyncCounts(r, t),
           r = CountsFor(artworks, a),
           t = CountsFor(artworks', a),
           SameElsewhere(artworks, artworks', a)
    PROVE  /\ SameShape(categories, categories')
           /\ \A c \in DOMAIN categories : Children(c)' = Children(c) /\ Drift(c)' = Drift(c)
<1>1. SameShape(categories, categories')
  BY SyncEffect
<1>2. \A c \in DOMAIN categories : Children(c)' = Children(c)
  BY <1>1 DEF SameShape, Children
<1>3. ASSUME NEW c \in DOMAIN categories
      PROVE  Drift(c)' = Drift(c)
  <2> PICK G : G = Group(c)
    OBVIOUS
  <2>1. NULL \notin G
    BY NullIsNoValue DEF TypeOK, Group, Children
  <2>2. Counted(c) = ActiveRows(artworks, G)
    BY DEF Counted, Group, ActiveIn, ActiveRows
  <2>3. Counted(c)' = ActiveRows(artworks', G)
    BY <1>2 DEF Counted, ActiveIn, Group, ActiveRows
  <2>4. /\ Cardinality(ActiveRows(artworks, G)) \in Nat
        /\ Cardinality(ActiveRows(artworks', G))
            = Cardinality(ActiveRows(artworks, G)) - Share(r, G) + Share(t, G)
    BY <2>1, MediaEffect
  <2>5. categories'[c].artwork_count = categories[c].artwork_count - Share(r, G) + Share(t, G)
    BY SyncEffect
  <2>6. categories[c].artwork_count \in Nat
    BY CountsAreIntegers
  <2>7. Share(r, G) \in {0, 1} /\ Share(t, G) \in {0, 1}
    BY DEF Share
  <2> QED BY <2>2, <2>3, <2>4, <2>5, <2>6, <2>7 DEF Drift
<1> QED BY <1>1, <1>2, <1>3

----------------------------------------------------------------------------
(* One lemma per kind of step. *)

(* A statement that leaves the artworks alone and every category's parent  *)
(* and count as they were cannot disturb the counters.                     *)
LEMMA ActiveFlagStep ==
    ASSUME IInv, NEW c \in DOMAIN categories, NEW b \in BOOLEAN,
           categories' = [categories EXCEPT ![c].is_active = b],
           UNCHANGED artworks
    PROVE  IInv'
<1>1. /\ DOMAIN categories' = DOMAIN categories
      /\ \A d \in DOMAIN categories :
            /\ categories'[d] \in CategoryRow
            /\ categories'[d].parent_id = categories[d].parent_id
            /\ categories'[d].artwork_count = categories[d].artwork_count
  BY DEF IInv, TypeOK, CategoryRow
<1>2. TypeOK' /\ IsFiniteSet(DOMAIN artworks)' /\ ParentsExist' /\ MediaOnSubcategories'
  BY <1>1 DEF IInv, TypeOK, ParentsExist, MediaOnSubcategories, IsRoot
<1>3. \A d \in DOMAIN categories : /\ IsRoot(d)' <=> IsRoot(d)
                                   /\ Children(d)' = Children(d)
                                   /\ Counted(d)' = Counted(d)
  BY <1>1 DEF IsRoot, Children, Counted, ActiveIn
<1>4. CountsExact'
  BY <1>1, <1>3 DEF IInv, CountsExact
<1> QED BY <1>2, <1>4 DEF IInv

(* A new category answers for nothing, because no row can refer to it yet. *)
LEMMA CreateCategoryStep ==
    ASSUME IInv,
           NEW c \in CategoryIds, NEW p \in CategoryIds \cup {NULL},
           NEW k \in Kinds \cup {NULL}, NEW s \in Slugs, NEW b \in BOOLEAN,
           CreateCategory(c, p, k, s, b)
    PROVE  IInv'
<1> DEFINE row == [parent_id |-> p, kind |-> k, slug |-> s,
                   is_active |-> b, artwork_count |-> 0]
<1>1. /\ c \notin DOMAIN categories
      /\ p \in DOMAIN categories \cup {NULL}
      /\ artworks' = artworks
      /\ DOMAIN categories' = DOMAIN categories \cup {c}
      /\ categories' = [d \in DOMAIN categories \cup {c} |->
                            IF d = c THEN row ELSE categories[d]]
  BY DEF CreateCategory, WithRow
<1>2. row \in CategoryRow
  BY DEF CategoryRow
<1>3. /\ categories'[c] = row
      /\ \A d \in DOMAIN categories : categories'[d] = categories[d] /\ d # c
  BY <1>1
<1>4. TypeOK'
  BY <1>1, <1>2 DEF IInv, TypeOK
<1>5. IsFiniteSet(DOMAIN artworks)' /\ ParentsExist' /\ MediaOnSubcategories'
  BY <1>1, <1>3 DEF IInv, ParentsExist, MediaOnSubcategories, IsRoot
<1>6. ASSUME NEW d \in DOMAIN categories
      PROVE  /\ IsRoot(d)' <=> IsRoot(d)
             /\ Children(d) \subseteq Children(d)'
             /\ Counted(d)' = Counted(d)
  <2>1. IsRoot(d)' <=> IsRoot(d)
    BY <1>3 DEF IsRoot
  <2>2. Children(d) \subseteq Children(d)' /\ Children(d)' \subseteq Children(d) \cup {c}
    BY <1>1, <1>3 DEF Children
  <2>3. \A a \in DOMAIN artworks : artworks[a].category_id # c
    BY <1>1 DEF IInv, MediaOnSubcategories
  <2>4. Counted(d)' = Counted(d)
    BY <1>1, <2>2, <2>3 DEF Counted, ActiveIn
  <2> QED BY <2>1, <2>2, <2>4
<1>7. Counted(c)' = {}
  <2>1. Children(c)' = {}
    BY <1>1, <1>3, NullIsNoValue DEF Children, IInv, ParentsExist
  <2>2. \A a \in DOMAIN artworks : artworks[a].category_id # c
    BY <1>1 DEF IInv, MediaOnSubcategories
  <2> QED BY <1>1, <2>1, <2>2 DEF Counted, ActiveIn
<1>8. CountsExact'
  <2>1. ASSUME NEW d \in DOMAIN categories, IsRoot(d)' \/ Children(d)' = {}
        PROVE  categories'[d].artwork_count = Cardinality(Counted(d)')
    BY <1>3, <1>6, <2>1 DEF IInv, CountsExact
  <2>2. categories'[c].artwork_count = Cardinality(Counted(c)')
    BY <1>3, <1>7, FS_EmptySet
  <2> QED BY <1>1, <2>1, <2>2 DEF CountsExact
<1> QED BY <1>4, <1>5, <1>8 DEF IInv

(* Recount reads the media of a root off its subcategories only, and of a  *)
(* subcategory off itself only: the same media, because roots hold none.   *)
LEMMA RecountEffect ==
    ASSUME Tables, Recount
    PROVE  /\ Tables'
           /\ SameShape(categories, categories')
           /\ \A c \in DOMAIN categories :
                /\ Children(c)' = Children(c)
                /\ IsRoot(c) \/ Children(c) = {} =>
                        categories'[c].artwork_count = Cardinality(Counted(c)')
<1> DEFINE own(c) == IF IsRoot(c) THEN Children(c) ELSE {c}
<1>1. /\ artworks' = artworks
      /\ DOMAIN categories' = DOMAIN categories
      /\ categories' = [c \in DOMAIN categories |->
            [categories[c] EXCEPT !.artwork_count = Cardinality(ActiveIn(own(c)))]]
  BY DEF Recount, RecountedTable
<1>2. ASSUME NEW c \in DOMAIN categories PROVE Cardinality(ActiveIn(own(c))) \in Nat
  <2> HIDE DEF own
  <2>1. IsFiniteSet(ActiveIn(own(c)))
    BY FS_Subset DEF ActiveIn, Tables
  <2> QED BY <2>1, FS_CardinalityType
<1> HIDE DEF own
<1>3. ASSUME NEW c \in DOMAIN categories
      PROVE  /\ categories'[c] \in CategoryRow
             /\ categories'[c].parent_id = categories[c].parent_id
             /\ categories'[c].kind = categories[c].kind
             /\ categories'[c].slug = categories[c].slug
             /\ categories'[c].is_active = categories[c].is_active
             /\ categories'[c].artwork_count = Cardinality(ActiveIn(own(c)))
  <2>1. /\ categories[c] \in CategoryRow
        /\ categories'[c] = [categories[c] EXCEPT !.artwork_count =
                                Cardinality(ActiveIn(own(c)))]
    BY <1>1 DEF Tables, TypeOK
  <2> QED BY <1>2, <2>1 DEF CategoryRow
<1>4. Tables' /\ SameShape(categories, categories')
  <2>1. SameShape(categories, categories')
    BY <1>1, <1>3 DEF SameShape
  <2>2. TypeOK'
    BY <1>1, <1>3 DEF Tables, TypeOK
  <2>3. MediaOnSubcategories'
    BY <1>1, <1>3 DEF Tables, MediaOnSubcategories, IsRoot
  <2> QED BY <1>1, <2>1, <2>2, <2>3 DEF Tables
<1>5. ASSUME NEW c \in DOMAIN categories
      PROVE  /\ IsRoot(c)' <=> IsRoot(c)
             /\ Children(c)' = Children(c)
             /\ Counted(c)' = Counted(c)
  <2>1. Children(c)' = Children(c)
    BY <1>1, <1>3 DEF Children
  <2> QED BY <1>1, <1>3, <2>1 DEF IsRoot, Counted, ActiveIn
<1>6. ASSUME NEW c \in DOMAIN categories, IsRoot(c) \/ Children(c) = {}
      PROVE  ActiveIn(own(c)) = Counted(c)
  <2>1. CASE IsRoot(c)
    BY <2>1 DEF own, ActiveIn, Counted, Tables, MediaOnSubcategories
  <2>2. CASE ~IsRoot(c)
    BY <1>6, <2>2 DEF own, ActiveIn, Counted
  <2> QED BY <2>1, <2>2
<1> QED BY <1>3, <1>4, <1>5, <1>6

LEMMA RecountStep ==
    ASSUME IInv, Recount
    PROVE  IInv'
<1>1. Tables' /\ SameShape(categories, categories')
      /\ \A c \in DOMAIN categories :
            /\ Children(c)' = Children(c)
            /\ IsRoot(c) \/ Children(c) = {} =>
                    categories'[c].artwork_count = Cardinality(Counted(c)')
  BY RecountEffect DEF IInv, Tables
<1> QED BY <1>1 DEF IInv, Tables, SameShape, ParentsExist, CountsExact, IsRoot

(* An artworks row is written: a new one, or another value of an old one.  *)
LEMMA WriteRowEffect ==
    ASSUME Tables,
           NEW a \in ArtworkIds, NEW row \in ArtworkRow,
           RequireSubcategory(row.category_id),
           artworks' = WithRow(artworks, a, row),
           SyncCounts(CountsFor(artworks, a), CountedAs(row))
    PROVE  /\ Tables'
           /\ SameShape(categories, categories')
           /\ \A c \in DOMAIN categories : Children(c)' = Children(c) /\ Drift(c)' = Drift(c)
<1>1. /\ DOMAIN artworks' = DOMAIN artworks \cup {a}
      /\ artworks'[a] = row
      /\ \A b \in DOMAIN artworks \ {a} : artworks'[b] = artworks[b]
  BY DEF WithRow
<1>2. /\ SameElsewhere(artworks, artworks', a)
      /\ CountedAs(row) = CountsFor(artworks', a)
  BY <1>1 DEF SameElsewhere, CountsFor
<1>3. /\ CountsFor(artworks, a) \in DOMAIN categories \cup {NULL}
      /\ CountedAs(row) \in DOMAIN categories \cup {NULL}
  BY DEF Tables, MediaOnSubcategories, CountsFor, CountedAs, RequireSubcategory
<1>4. TypeOK /\ IsFiniteSet(DOMAIN artworks)
  BY DEF Tables
<1>5. /\ SameShape(categories, categories')
      /\ \A c \in DOMAIN categories : Children(c)' = Children(c) /\ Drift(c)' = Drift(c)
  BY <1>2, <1>3, <1>4, RowStep
<1>6. /\ DOMAIN categories' \subseteq CategoryIds
      /\ categories' \in [DOMAIN categories' -> CategoryRow]
  BY <1>3, <1>4, SyncEffect
<1>7. artworks' \in [DOMAIN artworks' -> ArtworkRow] /\ DOMAIN artworks' \subseteq ArtworkIds
  BY <1>4 DEF TypeOK, WithRow
<1>8. IsFiniteSet(DOMAIN artworks)'
  BY <1>1, <1>4, FS_AddElement
<1>9. MediaOnSubcategories'
  BY <1>1, <1>5 DEF Tables, MediaOnSubcategories, SameShape, IsRoot, RequireSubcategory
<1> QED BY <1>5, <1>6, <1>7, <1>8, <1>9 DEF Tables, TypeOK

(* Where no counter that must be exact has moved off, all of them are.     *)
LEMMA DriftKeepsExact ==
    ASSUME IInv, TypeOK', IsFiniteSet(DOMAIN artworks)',
           SameShape(categories, categories'),
           \A c \in DOMAIN categories : Children(c)' = Children(c) /\ Drift(c)' = Drift(c)
    PROVE  CountsExact' /\ ParentsExist'
<1>1. ASSUME NEW c \in DOMAIN categories, IsRoot(c)' \/ Children(c)' = {}
      PROVE  categories'[c].artwork_count = Cardinality(Counted(c)')
  <2>1. categories[c].artwork_count = Cardinality(Counted(c))
    BY <1>1 DEF IInv, CountsExact, SameShape, IsRoot
  <2>2. Drift(c) = 0
    BY <2>1, CountsAreIntegers DEF Drift, IInv
  <2>3. categories'[c].artwork_count \in Nat
    BY DEF SameShape, TypeOK, CategoryRow
  <2>4. IsFiniteSet(Counted(c)')
    BY FS_Subset DEF Counted, ActiveIn
  <2>5. Cardinality(Counted(c)') \in Nat
    BY <2>4, FS_CardinalityType
  <2> QED BY <2>2, <2>3, <2>5 DEF Drift
<1> QED BY <1>1 DEF IInv, CountsExact, ParentsExist, SameShape

LEMMA WriteRowStep ==
    ASSUME IInv,
           NEW a \in ArtworkIds, NEW row \in ArtworkRow,
           RequireSubcategory(row.category_id),
           artworks' = WithRow(artworks, a, row),
           SyncCounts(CountsFor(artworks, a), CountedAs(row))
    PROVE  IInv'
<1>1. /\ Tables'
      /\ SameShape(categories, categories')
      /\ \A c \in DOMAIN categories : Children(c)' = Children(c) /\ Drift(c)' = Drift(c)
  BY WriteRowEffect DEF IInv, Tables
<1> QED BY <1>1, DriftKeepsExact DEF IInv, Tables

(* A soft delete is one such write. *)
LEMMA SoftDeleteWrites ==
    ASSUME Tables, NEW a \in ArtworkIds, SoftDeleteArtwork(a)
    PROVE  \E row \in ArtworkRow :
            /\ RequireSubcategory(row.category_id)
            /\ artworks' = WithRow(artworks, a, row)
            /\ SyncCounts(CountsFor(artworks, a), CountedAs(row))
<1> DEFINE row == [artworks[a] EXCEPT !.is_active = FALSE]
<1>1. a \in DOMAIN artworks /\ artworks[a] \in ArtworkRow
  BY DEF SoftDeleteArtwork, Tables, TypeOK
<1>2. row \in ArtworkRow /\ row.category_id = artworks[a].category_id /\ ~row.is_active
  BY <1>1 DEF ArtworkRow
<1>3. RequireSubcategory(row.category_id)
  BY <1>1, <1>2 DEF Tables, MediaOnSubcategories, RequireSubcategory
<1>4. artworks' = [artworks EXCEPT ![a] = row]
  BY DEF SoftDeleteArtwork
<1> HIDE DEF row
<1>5. artworks' = WithRow(artworks, a, row)
  <2>1. DOMAIN artworks \cup {a} = DOMAIN artworks
    BY <1>1
  <2>2. artworks = [b \in DOMAIN artworks |-> artworks[b]]
    BY DEF Tables, TypeOK
  <2> QED BY <1>1, <1>4, <2>1, <2>2 DEF WithRow
<1>6. SyncCounts(CountsFor(artworks, a), CountedAs(row))
  BY <1>1, <1>2 DEF SoftDeleteArtwork, CountsFor, CountedAs
<1> QED BY <1>2, <1>3, <1>5, <1>6

(* An artworks row is deleted. *)
LEMMA EraseRowStep ==
    ASSUME IInv, NEW a \in ArtworkIds, EraseArtwork(a)
    PROVE  IInv'
<1>1. /\ a \in DOMAIN artworks
      /\ artworks' = [b \in DOMAIN artworks \ {a} |-> artworks[b]]
      /\ SyncCounts(CountedAs(artworks[a]), NULL)
  BY DEF EraseArtwork, Without, Restrict
<1>2. /\ SameElsewhere(artworks, artworks', a)
      /\ NULL = CountsFor(artworks', a)
      /\ CountedAs(artworks[a]) = CountsFor(artworks, a)
  BY <1>1 DEF SameElsewhere, CountsFor
<1>3. CountedAs(artworks[a]) \in DOMAIN categories \cup {NULL}
  BY <1>1 DEF IInv, MediaOnSubcategories, CountedAs
<1>4. TypeOK /\ IsFiniteSet(DOMAIN artworks)
  BY DEF IInv
<1>5. /\ SameShape(categories, categories')
      /\ \A c \in DOMAIN categories : Children(c)' = Children(c) /\ Drift(c)' = Drift(c)
  BY <1>1, <1>2, <1>3, <1>4, RowStep
<1>6. /\ DOMAIN categories' \subseteq CategoryIds
      /\ categories' \in [DOMAIN categories' -> CategoryRow]
  BY <1>1, <1>3, <1>4, SyncEffect
<1>7. artworks' \in [DOMAIN artworks' -> ArtworkRow] /\ DOMAIN artworks' \subseteq ArtworkIds
  BY <1>1, <1>4 DEF TypeOK
<1>8. IsFiniteSet(DOMAIN artworks)'
  BY <1>1, <1>4, FS_Subset
<1>9. ParentsExist' /\ CountsExact'
  BY <1>5, <1>6, <1>7, <1>8, DriftKeepsExact DEF TypeOK
<1>10. MediaOnSubcategories'
  BY <1>1, <1>5 DEF IInv, MediaOnSubcategories, SameShape, IsRoot
<1> QED BY <1>5, <1>6, <1>7, <1>8, <1>9, <1>10 DEF IInv, TypeOK

----------------------------------------------------------------------------

LEMMA InitIInv == Init => IInv
<1> SUFFICES ASSUME Init PROVE IInv
  OBVIOUS
<1>1. DOMAIN categories = {} /\ DOMAIN artworks = {}
  BY DEF Init
<1>2. IsFiniteSet(DOMAIN artworks)
  BY <1>1, FS_EmptySet
<1> QED BY <1>1, <1>2 DEF Init, IInv, TypeOK, ParentsExist, MediaOnSubcategories, CountsExact

LEMMA StepIInv == IInv /\ [Next]_vars => IInv'
<1> SUFFICES ASSUME IInv, [Next]_vars PROVE IInv'
  OBVIOUS
<1>1. ASSUME NEW c \in CategoryIds, NEW p \in CategoryIds \cup {NULL},
             NEW k \in Kinds \cup {NULL}, NEW s \in Slugs, NEW b \in BOOLEAN,
             CreateCategory(c, p, k, s, b)
      PROVE  IInv'
  BY <1>1, CreateCategoryStep
<1>2. ASSUME NEW c \in CategoryIds, NEW b \in BOOLEAN, UpdateCategory(c, b)
      PROVE  IInv'
  BY <1>2, ActiveFlagStep DEF UpdateCategory
<1>3. ASSUME NEW c \in CategoryIds, DeleteCategory(c)
      PROVE  IInv'
  BY <1>3, ActiveFlagStep DEF DeleteCategory
<1>4. ASSUME NEW a \in ArtworkIds, SoftDeleteArtwork(a)
      PROVE  IInv'
  BY <1>4, SoftDeleteWrites, WriteRowStep DEF IInv, Tables
<1>5. ASSUME Recount PROVE IInv'
  BY <1>5, RecountStep
<1>6. ASSUME NEW a \in ArtworkIds, NEW c \in CategoryIds, NEW b \in BOOLEAN,
             InsertArtwork(a, c, b)
      PROVE  IInv'
  <2> DEFINE row == [category_id |-> c, is_active |-> b]
  <2>1. row \in ArtworkRow /\ row.category_id = c
    BY DEF ArtworkRow
  <2>2. /\ RequireSubcategory(c)
        /\ artworks' = WithRow(artworks, a, row)
        /\ SyncCounts(CountsFor(artworks, a), CountedAs(row))
    BY <1>6 DEF InsertArtwork, CountsFor
  <2> HIDE DEF row
  <2> QED BY <2>1, <2>2, WriteRowStep
<1>7. ASSUME NEW a \in ArtworkIds, NEW c \in CategoryIds, NEW b \in BOOLEAN,
             UpdateArtwork(a, c, b)
      PROVE  IInv'
  <2> DEFINE row == [category_id |-> c, is_active |-> b]
  <2>1. row \in ArtworkRow /\ row.category_id = c
    BY DEF ArtworkRow
  <2>2. /\ a \in DOMAIN artworks
        /\ c # artworks[a].category_id => RequireSubcategory(c)
        /\ artworks' = WithRow(artworks, a, row)
        /\ SyncCounts(CountsFor(artworks, a), CountedAs(row))
    BY <1>7 DEF UpdateArtwork, CountsFor
  <2>3. RequireSubcategory(c)
    BY <2>2 DEF IInv, MediaOnSubcategories, RequireSubcategory
  <2> HIDE DEF row
  <2> QED BY <2>1, <2>2, <2>3, WriteRowStep
<1>8. ASSUME NEW a \in ArtworkIds, EraseArtwork(a)
      PROVE  IInv'
  BY <1>8, EraseRowStep
<1>9. ASSUME UNCHANGED vars PROVE IInv'
  <2>1. categories' = categories /\ artworks' = artworks
    BY <1>9 DEF vars
  <2> QED BY <2>1 DEF IInv, TypeOK, ParentsExist, MediaOnSubcategories, CountsExact,
                      IsRoot, Children, Counted, ActiveIn
<1> QED BY <1>1, <1>2, <1>3, <1>4, <1>5, <1>6, <1>7, <1>8, <1>9 DEF Next

(* In every reachable state the rows are well formed: no statement of the  *)
(* admin API, and no DML on artworks, leaves a counter negative.           *)
THEOREM TypeCorrect == Spec => []TypeOK
<1>1. IInv => TypeOK
  BY DEF IInv
<1> QED BY InitIInv, StepIInv, <1>1, PTL DEF Spec

(* Whatever mix of uploads, moves, deletes and category edits runs, every  *)
(* medium hangs on an existing subcategory (002_triggers.sql:5).           *)
THEOREM MediaStayOnSubcategories == Spec => []MediaOnSubcategories
<1>1. IInv => MediaOnSubcategories
  BY DEF IInv
<1> QED BY InitIInv, StepIInv, <1>1, PTL DEF Spec

(* The counters never drift on a one-level tree: triggers and recount      *)
(* together keep each of them equal to the number of active media, for any *)
(* number of categories and media (002_triggers.sql:6-7).                  *)
THEOREM CountersStayExact == Spec => []CountsExact
<1>1. IInv => CountsExact
  BY DEF IInv
<1> QED BY InitIInv, StepIInv, <1>1, PTL DEF Spec
=============================================================================
