----------------------------- MODULE ReadProofs -----------------------------
(***************************************************************************)
(* Proofs about what clients read: bundles (Bundle) and page walks         *)
(* (Listing), for any catalogue, any feed and any limits.                  *)
(*                                                                         *)
(* NothingCutSilently compares two reads that others write between.  BInv  *)
(* carries what the first one knew until the second: the media that were   *)
(* there when a counter was read are no more than the counter said, and    *)
(* whatever has come since is in arrived.                                  *)
(*                                                                         *)
(* A walk asks for places in a feed whose media change places.  LInv       *)
(* counts what has crossed the end of the pages read so far: what it has   *)
(* seen and will be given again is paid for by additions, what it has not  *)
(* seen and will not be given by removals, and a page turned is the same   *)
(* media on the other side of that end.                                    *)
(***************************************************************************)
EXTENDS Bundle, Listing, CatalogueProofs, SequenceTheorems

Accounted ==
    \A n \in DOMAIN nodes :
        /\ nodes[n] \in Nat
        /\ Cardinality(ActiveIn({n}) \ arrived) <= nodes[n]

BInv ==
    /\ IInv
    /\ build \in [pc : {"idle", "node", "children", "done"}, category : CategoryIds \cup {NULL}]
    /\ DOMAIN nodes \subseteq DOMAIN categories
    /\ IsFiniteSet(arrived)
    /\ build.pc \in {"node", "children"} /\ OneLevelTree => Accounted
    /\ NothingCutSilently

----------------------------------------------------------------------------
(* Cardinalities. *)

LEMMA AsManyInjects ==
    ASSUME NEW S, NEW T, IsFiniteSet(S), IsFiniteSet(T), Cardinality(S) <= Cardinality(T)
    PROVE  \E f \in [S -> T] : IsInjective(f)
<1> DEFINE m == Cardinality(S)
           n == Cardinality(T)
<1>1. m \in Nat /\ n \in Nat /\ m <= n
  BY FS_CardinalityType
<1>2. PICK p \in Bijection(1 .. m, S) : TRUE
  BY FS_CardinalityType DEF ExistsBijection
<1>3. PICK q \in Bijection(1 .. n, T) : TRUE
  BY FS_CardinalityType DEF ExistsBijection
<1> HIDE DEF m, n
<1> DEFINE at(x) == CHOOSE i \in 1 .. m : p[i] = x
           f == [x \in S |-> q[at(x)]]
<1>4. ASSUME NEW x \in S PROVE at(x) \in 1 .. m /\ p[at(x)] = x
  BY <1>2 DEF Bijection, Surjection
<1> HIDE DEF at
<1>5. \A x \in S : at(x) \in 1 .. n
  BY <1>1, <1>4
<1>6. f \in [S -> T]
  BY <1>3, <1>5 DEF Bijection, Injection
<1>7. ASSUME NEW x \in S, NEW y \in S, f[x] = f[y] PROVE x = y
  <2>1. at(x) = at(y)
    BY <1>3, <1>5, <1>7 DEF Bijection, Injection, IsInjective
  <2> QED BY <1>4, <2>1
<1>8. IsInjective(f)
  BY <1>7 DEF IsInjective
<1> QED BY <1>6, <1>8

(* If no part of S, by the values of part, has more members than the same  *)
(* part of T, then neither has S.                                          *)
LEMMA PartByPart ==
    ASSUME NEW S, NEW T, NEW part, IsFiniteSet(S), IsFiniteSet(T),
           \A x \in S : Cardinality({y \in S : part[y] = part[x]})
                            <= Cardinality({y \in T : part[y] = part[x]})
    PROVE  Cardinality(S) <= Cardinality(T)
<1> DEFINE ofS(v) == {y \in S : part[y] = v}
           ofT(v) == {y \in T : part[y] = v}
           inj(v) == CHOOSE f \in [ofS(v) -> ofT(v)] : IsInjective(f)
           g == [x \in S |-> inj(part[x])[x]]
<1>1. ASSUME NEW x \in S
      PROVE  inj(part[x]) \in [ofS(part[x]) -> ofT(part[x])] /\ IsInjective(inj(part[x]))
  <2>1. IsFiniteSet(ofS(part[x])) /\ IsFiniteSet(ofT(part[x]))
    BY FS_Subset
  <2>2. Cardinality(ofS(part[x])) <= Cardinality(ofT(part[x]))
    OBVIOUS
  <2>3. \E f \in [ofS(part[x]) -> ofT(part[x])] : IsInjective(f)
    BY <2>1, <2>2, AsManyInjects
  <2> QED BY <2>3
<1> HIDE DEF inj
<1>2. \A x \in S : g[x] \in T /\ part[g[x]] = part[x]
  BY <1>1
<1>3. ASSUME NEW x \in S, NEW y \in S, g[x] = g[y] PROVE x = y
  <2>1. part[x] = part[y]
    BY <1>2, <1>3
  <2> QED BY <1>1, <1>3, <2>1 DEF IsInjective
<1>4. g \in Injection(S, T)
  BY <1>2, <1>3 DEF Injection, IsInjective
<1> HIDE DEF g
<1> QED BY <1>4, FS_Injection

----------------------------------------------------------------------------
(* Bundles. *)

ParentsKept ==
    \A c \in DOMAIN categories :
        c \in DOMAIN categories' /\ categories'[c].parent_id = categories[c].parent_id

(* No statement of the catalogue takes a category away or moves it.        *)
LEMMA ParentsStay ==
    ASSUME IInv, [Next]_vars
    PROVE  ParentsKept
<1>0. /\ TypeOK /\ NULL \notin CategoryIds
      /\ \A a \in DOMAIN artworks : CountedAs(artworks[a]) \in DOMAIN categories \cup {NULL}
      /\ \A r, t \in DOMAIN categories \cup {NULL} : SyncCounts(r, t) => ParentsKept
  <2>1. \A r, t \in DOMAIN categories \cup {NULL} : SyncCounts(r, t) => ParentsKept
    BY SyncEffect DEF IInv, SameShape, ParentsKept
  <2> QED BY <2>1, NullIsNoValue DEF IInv, MediaOnSubcategories, CountedAs
<1>1. ASSUME NEW c \in CategoryIds, NEW p \in CategoryIds \cup {NULL},
             NEW k \in Kinds \cup {NULL}, NEW s \in Slugs, NEW b \in BOOLEAN,
             CreateCategory(c, p, k, s, b)
      PROVE  ParentsKept
  BY <1>1 DEF CreateCategory, WithRow, ParentsKept
<1>2. ASSUME NEW c \in CategoryIds, NEW b \in BOOLEAN, UpdateCategory(c, b) \/ DeleteCategory(c)
      PROVE  ParentsKept
  BY <1>0, <1>2 DEF DeleteCategory, UpdateCategory, ParentsKept, TypeOK, CategoryRow
<1>3. ASSUME NEW a \in ArtworkIds, SoftDeleteArtwork(a) \/ EraseArtwork(a)
      PROVE  ParentsKept
  BY <1>0, <1>3 DEF SoftDeleteArtwork, EraseArtwork
<1>4. ASSUME Recount PROVE ParentsKept
  BY <1>4, RecountEffect DEF IInv, Tables, SameShape, ParentsKept
<1>5. ASSUME NEW a \in ArtworkIds, NEW c \in CategoryIds, NEW b \in BOOLEAN,
             InsertArtwork(a, c, b)
      PROVE  ParentsKept
  BY <1>0, <1>5 DEF InsertArtwork, CountedAs, RequireSubcategory
<1>6. ASSUME NEW a \in ArtworkIds, NEW c \in CategoryIds, NEW b \in BOOLEAN,
             UpdateArtwork(a, c, b)
      PROVE  ParentsKept
  <2>1. c \in DOMAIN categories
    BY <1>6 DEF UpdateArtwork, RequireSubcategory, IInv, MediaOnSubcategories
  <2> QED BY <1>0, <1>6, <2>1 DEF UpdateArtwork, CountedAs
<1>7. ASSUME UNCHANGED vars PROVE ParentsKept
  BY <1>7 DEF vars, ParentsKept
<1> QED BY <1>1, <1>2, <1>3, <1>4, <1>5, <1>6, <1>7 DEF Next

(* So a tree that is one level deep always was. *)
LEMMA NeverFlattened ==
    ASSUME IInv, [Next]_vars, OneLevelTree'
    PROVE  OneLevelTree
  BY ParentsStay DEF ParentsKept, OneLevelTree, IsRoot, IInv, ParentsExist

(* The counter of a category of a one-level tree covers its own media.     *)
LEMMA OwnMediaCounted ==
    ASSUME IInv, OneLevelTree, NEW c \in DOMAIN categories
    PROVE  /\ categories[c].artwork_count \in Nat
           /\ \A S : Cardinality(ActiveIn({c}) \ S) <= categories[c].artwork_count
<1>1. categories[c].artwork_count \in Nat /\ IsFiniteSet(DOMAIN artworks)
  BY DEF IInv, TypeOK, CategoryRow
<1>2. \A S : IsFiniteSet(ActiveIn({c}) \ S)
  BY <1>1, FS_Subset DEF ActiveIn
<1>3. CASE IsRoot(c)
  <2>1. ActiveIn({c}) = {}
    BY <1>3 DEF IInv, MediaOnSubcategories, ActiveIn
  <2> QED BY <1>1, <2>1, FS_EmptySet
<1>4. CASE ~IsRoot(c)
  <2>1. Children(c) = {}
    BY <1>4, NullIsNoValue DEF OneLevelTree, Children, IsRoot, IInv, TypeOK
  <2>2. categories[c].artwork_count = Cardinality(ActiveIn({c}))
    BY <2>1 DEF IInv, CountsExact, Counted
  <2>3. \A S : Cardinality(ActiveIn({c}) \ S) <= Cardinality(ActiveIn({c}))
    <3>1. IsFiniteSet(ActiveIn({c}))
      BY <1>1, FS_Subset DEF ActiveIn
    <3> QED BY <3>1, FS_Subset
  <2> QED BY <1>1, <2>2, <2>3
<1> QED BY <1>3, <1>4

(* What the cap leaves out of a category whose counter did not exceed it   *)
(* has come since the counter was read.                                    *)
LEMMA CutOfOne ==
    ASSUME IInv, Accounted, IsFiniteSet(arrived), ~Truncated,
           NEW media, Capped(media), NEW n \in DOMAIN nodes
    PROVE  Cardinality(ActiveIn({n}) \ media) <= Cardinality(arrived \cap ActiveIn({n}))
<1> DEFINE all == ActiveIn({n})
<1>1. IsFiniteSet(all)
  BY FS_Subset DEF IInv, ActiveIn
<1>2. nodes[n] \in Nat /\ nodes[n] <= Limit /\ Cardinality(all \ arrived) <= nodes[n]
  BY LimitIsPositive DEF Accounted, Truncated
<1>3. Cardinality(media \cap all) = IF Cardinality(all) < Limit THEN Cardinality(all) ELSE Limit
  BY DEF Capped
<1> HIDE DEF all
<1>4. /\ Cardinality(all \ media) = Cardinality(all) - Cardinality(all \cap media)
      /\ Cardinality(all \ arrived) = Cardinality(all) - Cardinality(all \cap arrived)
  BY <1>1, FS_Difference
<1>5. all \cap media = media \cap all /\ all \cap arrived = arrived \cap all
  OBVIOUS
<1>6. Cardinality(all) \in Nat /\ Cardinality(arrived \cap all) \in Nat
  BY <1>1, FS_CardinalityType, FS_Intersection
<1>7. Cardinality(all \ media) <= Cardinality(arrived \cap all)
  BY <1>2, <1>3, <1>4, <1>5, <1>6, LimitIsPositive
<1> QED BY <1>7 DEF all

LEMMA CutCovered ==
    ASSUME IInv, Accounted, IsFiniteSet(arrived), ~Truncated, NEW media, Capped(media)
    PROVE  Cardinality(ActiveIn(DOMAIN nodes) \ media) <= Cardinality(arrived)
<1> DEFINE cut == ActiveIn(DOMAIN nodes) \ media
           new == arrived \cap ActiveIn(DOMAIN nodes)
           part == [a \in DOMAIN artworks |-> artworks[a].category_id]
<1>1. IsFiniteSet(cut) /\ IsFiniteSet(new)
  BY FS_Subset, FS_Intersection DEF IInv, ActiveIn
<1>2. ASSUME NEW x \in cut
      PROVE  Cardinality({y \in cut : part[y] = part[x]})
                <= Cardinality({y \in new : part[y] = part[x]})
  <2> DEFINE n == artworks[x].category_id
  <2>1. n \in DOMAIN nodes
    BY DEF ActiveIn
  <2>2. /\ {y \in cut : part[y] = part[x]} = ActiveIn({n}) \ media
        /\ {y \in new : part[y] = part[x]} = arrived \cap ActiveIn({n})
    BY <2>1 DEF ActiveIn
  <2> HIDE DEF n, cut, new, part
  <2> QED BY <2>1, <2>2, CutOfOne
<1> HIDE DEF part
<1>3. Cardinality(cut) <= Cardinality(new)
  <2> HIDE DEF cut, new
  <2> QED BY <1>1, <1>2, PartByPart
<1>4. Cardinality(new) <= Cardinality(arrived) /\ Cardinality(arrived) \in Nat
  BY FS_Subset, FS_CardinalityType
<1>5. Cardinality(cut) \in Nat /\ Cardinality(new) \in Nat
  BY <1>1, FS_CardinalityType
<1> QED BY <1>3, <1>4, <1>5

----------------------------------------------------------------------------
LEMMA InitBInv == BundleInit => BInv
<1> SUFFICES ASSUME BundleInit PROVE BInv
  OBVIOUS
<1>1. IInv
  BY InitIInv DEF BundleInit
<1> QED BY <1>1, FS_EmptySet DEF BundleInit, BInv, NothingCutSilently

LEMMA StepBInv == BInv /\ [BundleNext]_bundleVars => BInv'
<1> SUFFICES ASSUME BInv, [BundleNext]_bundleVars PROVE BInv'
  OBVIOUS
<1>0. /\ IInv /\ IsFiniteSet(arrived) /\ DOMAIN nodes \subseteq DOMAIN categories
      /\ DOMAIN categories \subseteq CategoryIds
  BY DEF BInv, IInv, TypeOK
<1>1. ASSUME NEW c \in CategoryIds, ReadNode(c)
      PROVE  BInv'
  <2>1. /\ c \in DOMAIN categories
        /\ build' = [pc |-> "node", category |-> c]
        /\ nodes' = [d \in {c} |-> categories[d].artwork_count]
        /\ arrived' = {}
        /\ UNCHANGED vars
    BY <1>1 DEF ReadNode, CountsOf
  <2>2. IInv'
    BY <1>0, <2>1, StepIInv
  <2>3. OneLevelTree' => OneLevelTree
    BY <1>0, <2>1, NeverFlattened
  <2>4. ASSUME OneLevelTree PROVE Accounted'
    BY <1>0, <2>1, <2>4, OwnMediaCounted DEF Accounted, vars, ActiveIn
  <2> QED BY <2>1, <2>2, <2>3, <2>4, FS_EmptySet DEF BInv, vars, NothingCutSilently
<1>2. ASSUME ReadChildren
      PROVE  BInv'
  <2> DEFINE children == {c \in Children(build.category) : categories[c].is_active}
  <2>1. /\ build.pc = "node"
        /\ build' = [build EXCEPT !.pc = "children"]
        /\ nodes' = [c \in DOMAIN nodes \cup children |->
                        IF c \in children THEN categories[c].artwork_count ELSE nodes[c]]
        /\ UNCHANGED <<vars, bundle, arrived>>
    BY <1>2 DEF ReadChildren
  <2>2. children \subseteq DOMAIN categories
    BY DEF Children
  <2> HIDE DEF children
  <2>3. IInv'
    BY <1>0, <2>1, StepIInv
  <2>4. OneLevelTree' => OneLevelTree
    BY <1>0, <2>1, NeverFlattened
  <2>5. ASSUME OneLevelTree PROVE Accounted'
    <3>1. Accounted
      BY <2>1, <2>5 DEF BInv
    <3>2. \A c \in children : /\ categories[c].artwork_count \in Nat
                              /\ Cardinality(ActiveIn({c}) \ arrived)
                                    <= categories[c].artwork_count
      BY <1>0, <2>2, <2>5, OwnMediaCounted
    <3> QED BY <2>1, <3>1, <3>2 DEF Accounted, vars, ActiveIn
  <2>6. /\ build'.pc = "children"
        /\ build' \in [pc : {"idle", "node", "children", "done"},
                       category : CategoryIds \cup {NULL}]
    BY <2>1 DEF BInv
  <2> QED BY <1>0, <2>1, <2>2, <2>3, <2>4, <2>5, <2>6 DEF BInv, vars, NothingCutSilently
<1>3. ASSUME ReadMedia
      PROVE  BInv'
  <2>1. PICK media \in SUBSET ActiveIn(DOMAIN nodes) :
            /\ Capped(media)
            /\ bundle' = Bundle(media, ActiveIn(DOMAIN nodes) \ media, Truncated)
    BY <1>3 DEF ReadMedia
  <2>2. /\ build.pc = "children"
        /\ build' = [pc |-> "done", category |-> NULL]
        /\ DOMAIN nodes' = {}
        /\ UNCHANGED <<vars, arrived>>
    BY <1>3 DEF ReadMedia, CountsOf
  <2>3. IInv'
    BY <1>0, <2>2, StepIInv
  <2>4. OneLevelTree' => OneLevelTree
    BY <1>0, <2>2, NeverFlattened
  <2>5. ASSUME OneLevelTree, ~Truncated
        PROVE  Cardinality(ActiveIn(DOMAIN nodes) \ media) <= Cardinality(arrived)
    BY <1>0, <2>1, <2>2, <2>5, CutCovered DEF BInv
  <2>6. NothingCutSilently'
    BY <2>1, <2>2, <2>4, <2>5 DEF NothingCutSilently, Bundle
  <2> QED BY <1>0, <2>2, <2>3, <2>6 DEF BInv
<1>4. ASSUME Write
      PROVE  BInv'
  <2>1. Next /\ UNCHANGED <<build, nodes, bundle>>
    BY <1>4 DEF Write
  <2>2. IInv' /\ (OneLevelTree' => OneLevelTree) /\ DOMAIN nodes \subseteq DOMAIN categories'
    BY <1>0, <2>1, StepIInv, NeverFlattened, ParentsStay DEF ParentsKept
  <2>3. IsFiniteSet(arrived') /\ (build.pc \notin {"node", "children"} => arrived' = arrived)
    <3>1. IsFiniteSet(Arriving)
      BY <2>2, FS_Subset DEF Arriving, IInv
    <3> QED BY <1>0, <1>4, <3>1, FS_Union DEF Write
  <2>4. ASSUME build.pc \in {"node", "children"}, OneLevelTree
        PROVE  Accounted'
    <3>1. Accounted /\ arrived' = arrived \cup Arriving
      BY <1>4, <2>4 DEF BInv, Write
    <3>2. ASSUME NEW n \in DOMAIN nodes
          PROVE  Cardinality(ActiveIn({n})' \ arrived') <= nodes[n]
      <4>1. ActiveIn({n})' \ arrived' \subseteq ActiveIn({n}) \ arrived
        BY <3>1 DEF ActiveIn, Arriving
      <4>2. IsFiniteSet(ActiveIn({n}) \ arrived)
        BY <1>0, FS_Subset DEF IInv, ActiveIn
      <4>3. Cardinality(ActiveIn({n}) \ arrived) <= nodes[n] /\ nodes[n] \in Nat
        BY <3>1 DEF Accounted
      <4>4. /\ IsFiniteSet(ActiveIn({n})' \ arrived')
            /\ Cardinality(ActiveIn({n})' \ arrived') <= Cardinality(ActiveIn({n}) \ arrived)
        BY <4>1, <4>2, FS_Subset
      <4>5. /\ Cardinality(ActiveIn({n})' \ arrived') \in Nat
            /\ Cardinality(ActiveIn({n}) \ arrived) \in Nat
        BY <4>2, <4>4, FS_CardinalityType
      <4> QED BY <4>3, <4>4, <4>5
    <3> QED BY <2>1, <3>1, <3>2 DEF Accounted
  <2>5. NothingCutSilently'
    BY <2>1, <2>2, <2>3 DEF BInv, NothingCutSilently
  <2> QED BY <2>1, <2>2, <2>3, <2>4, <2>5 DEF BInv
<1>5. ASSUME UNCHANGED bundleVars
      PROVE  BInv'
  <2>1. UNCHANGED vars /\ UNCHANGED <<build, nodes, bundle, arrived>>
    BY <1>5 DEF bundleVars
  <2>2. IInv'
    BY <1>0, <2>1, StepIInv
  <2> QED BY <2>1, <2>2 DEF BInv, vars, Accounted, NothingCutSilently, OneLevelTree, IsRoot,
                            ActiveIn
<1> QED BY <1>1, <1>2, <1>3, <1>4, <1>5 DEF BundleNext

(* Whatever is written between its three reads, a bundle of a one-level    *)
(* tree that is not marked truncated lacks no more media than became       *)
(* active in the meantime, for any number of categories and any cap        *)
(* (categories.py:133-148).                                                *)
THEOREM NothingIsCutSilently == BundleSpec => []NothingCutSilently
<1>1. BInv => NothingCutSilently
  BY DEF BInv
<1> QED BY InitBInv, StepBInv, <1>1, PTL DEF BundleSpec

----------------------------------------------------------------------------
(* Page walks.  What is on a page and on those after it. *)
From(page) == {feed[i] : i \in {j \in DOMAIN feed : Offset(page) < j}}

Ahead == From(walk.page)

(* What it has seen and is about to be given again. *)
Again == IF walk.pc \in {"asking", "counting"} THEN Ahead \cap ToSet(seen) ELSE {}

(* What was there when it began and it is not going to be given. *)
Missed == ToSet(start) \ (ToSet(seen) \cup (IF walk.pc = "asking" THEN Ahead ELSE {}))

(* Only an addition moves media away from the pages seen already. *)
AgainIsPaidFor == Len(seen) + Cardinality(Again) <= Cardinality(ToSet(seen)) + added

(* Only a removal moves media towards them. *)
MissedIsPaidFor == walk.pc # "idle" => Cardinality(Missed) <= removed

(* Without either the walk goes through one feed, page by page, and never  *)
(* comes to a page past its end.                                           *)
SeenIsTheStart ==
    added = 0 /\ removed = 0 =>
        /\ feed = start
        /\ walk.pc # "counting"
        /\ walk.pc = "asking" => /\ Offset(walk.page) <= Len(feed)
                                 /\ walk.page = 1 \/ Offset(walk.page) < Len(feed)
                                 /\ seen = SubSeq(feed, 1, Offset(walk.page))
        /\ walk.pc = "done" => seen = start

LInv ==
    /\ ListingTypeOK
    /\ AgainIsPaidFor
    /\ MissedIsPaidFor
    /\ SeenIsTheStart

LEMMA MinOfTwo ==
    ASSUME NEW x \in Int, NEW y \in Int
    PROVE  Min({x, y}) = IF x <= y THEN x ELSE y
  BY DEF Min

LEMMA Offsets ==
    ASSUME NEW page \in Nat \ {0}
    PROVE  /\ PageSize \in Nat \ {0}
           /\ Offset(page) \in Nat
           /\ Offset(page) = 0 <=> page = 1
           /\ Offset(page + 1) = Offset(page) + PageSize
           /\ page * PageSize = Offset(page + 1)
<1>1. PageSize \in Nat \ {0}
  BY PageSettings DEF PageSize
<1> HIDE DEF PageSize
<1>2. PICK p \in Nat : page = p + 1
  <2>1. page - 1 \in Nat /\ page = (page - 1) + 1
    OBVIOUS
  <2> QED BY <2>1
<1>3. Offset(page) = p * PageSize /\ Offset(page + 1) = (p + 1) * PageSize
  BY <1>2 DEF Offset
<1>4. (p + 1) * PageSize = p * PageSize + PageSize
  BY <1>1
<1>5. p * PageSize \in Nat /\ (p * PageSize = 0 <=> p = 0)
  BY <1>1
<1> QED BY <1>1, <1>2, <1>3, <1>4, <1>5

(* A page is the stretch of the feed between two offsets. *)
LEMMA PageOfFeed ==
    ASSUME NEW page \in Nat \ {0}, feed \in Seq(Items)
    PROVE  /\ Rows(page) \in Seq(Items)
           /\ Len(Rows(page)) = IF Len(feed) <= Offset(page) THEN 0
                                ELSE IF Offset(page + 1) <= Len(feed) THEN PageSize
                                ELSE Len(feed) - Offset(page)
           /\ \A i \in 1 .. Len(Rows(page)) : Rows(page)[i] = feed[Offset(page) + i]
<1> DEFINE last == Min({Offset(page) + PageSize, Len(feed)})
<1>1. /\ Offset(page) \in Nat /\ PageSize \in Nat \ {0} /\ Len(feed) \in Nat
      /\ Offset(page + 1) = Offset(page) + PageSize
  <2> HIDE DEF last
  <2>1. Len(feed) \in Nat
    OBVIOUS
  <2> QED BY <2>1, Offsets
<1>2. last = IF Offset(page) + PageSize <= Len(feed) THEN Offset(page) + PageSize ELSE Len(feed)
  BY <1>1, MinOfTwo
<1> HIDE DEF last
<1>3. \A i \in Offset(page) + 1 .. last : feed[i] \in Items
  BY <1>1, <1>2
<1>4. /\ SubSeq(feed, Offset(page) + 1, last) \in Seq(Items)
      /\ Len(SubSeq(feed, Offset(page) + 1, last))
            = IF Offset(page) + 1 <= last THEN last - (Offset(page) + 1) + 1 ELSE 0
      /\ \A i \in 1 .. last - (Offset(page) + 1) + 1 :
            SubSeq(feed, Offset(page) + 1, last)[i] = feed[Offset(page) + 1 + i - 1]
  BY <1>1, <1>2, <1>3, SubSeqProperties
<1>5. Rows(page) = SubSeq(feed, Offset(page) + 1, last)
  BY DEF Rows, last
<1>6. Len(Rows(page)) = IF Len(feed) <= Offset(page) THEN 0
                        ELSE IF Offset(page + 1) <= Len(feed) THEN PageSize
                        ELSE Len(feed) - Offset(page)
  BY <1>1, <1>2, <1>4, <1>5
<1>7. ASSUME NEW i \in 1 .. Len(Rows(page))
      PROVE  Rows(page)[i] = feed[Offset(page) + i]
  <2>1. i \in 1 .. last - (Offset(page) + 1) + 1
    BY <1>1, <1>2, <1>6
  <2>2. Rows(page)[i] = feed[Offset(page) + 1 + i - 1]
    BY <1>4, <1>5, <2>1
  <2> QED BY <1>1, <2>2
<1> QED BY <1>4, <1>5, <1>6, <1>7

(* What InsertAt and RemoveAt do to single places. *)
LEMMA Inserted ==
    ASSUME NEW s \in Seq(Items), NEW at \in 1 .. Len(s) + 1, NEW item \in Items
    PROVE  /\ InsertAt(s, at, item) \in Seq(Items)
           /\ Len(InsertAt(s, at, item)) = Len(s) + 1
           /\ \A i \in 1 .. Len(s) + 1 :
                InsertAt(s, at, item)[i] = IF i < at THEN s[i]
                                           ELSE IF i = at THEN item ELSE s[i - 1]
<1> DEFINE front == SubSeq(s, 1, at - 1)
           back == SubSeq(s, at, Len(s))
<1>1. /\ front \in Seq(Items) /\ Len(front) = at - 1
      /\ \A i \in 1 .. at - 1 : front[i] = s[i]
  BY SubSeqProperties
<1>2. /\ back \in Seq(Items) /\ Len(back) = Len(s) - at + 1
      /\ \A i \in 1 .. Len(s) - at + 1 : back[i] = s[at + i - 1]
  BY SubSeqProperties
<1> HIDE DEF front, back
<1>3. <<item>> \in Seq(Items) /\ Len(<<item>>) = 1 /\ <<item>>[1] = item
  OBVIOUS
<1>4. /\ front \o <<item>> \in Seq(Items)
      /\ Len(front \o <<item>>) = at
      /\ \A i \in 1 .. at : (front \o <<item>>)[i] = IF i < at THEN s[i] ELSE item
  BY <1>1, <1>3, ConcatProperties
<1>5. InsertAt(s, at, item) = (front \o <<item>>) \o back
  BY DEF InsertAt, front, back
<1> DEFINE most == front \o <<item>>
<1> HIDE DEF most
<1>6. /\ most \in Seq(Items) /\ Len(most) = at
      /\ \A i \in 1 .. at : most[i] = IF i < at THEN s[i] ELSE item
  BY <1>4 DEF most
<1>7. at + (Len(s) - at + 1) = Len(s) + 1
  OBVIOUS
<1>8. /\ most \o back \in Seq(Items)
      /\ Len(most \o back) = Len(s) + 1
      /\ \A i \in 1 .. Len(s) + 1 :
            (most \o back)[i] = IF i <= at THEN most[i] ELSE back[i - at]
  <2>1. /\ most \o back \in Seq(Items)
        /\ Len(most \o back) = Len(most) + Len(back)
        /\ \A i \in 1 .. Len(most) + Len(back) :
              (most \o back)[i] = IF i <= Len(most) THEN most[i] ELSE back[i - Len(most)]
    BY <1>2, <1>6, ConcatProperties
  <2>2. Len(most) = at /\ Len(most) + Len(back) = Len(s) + 1
    BY <1>2, <1>6, <1>7
  <2> QED BY <2>1, <2>2
<1>9. ASSUME NEW i \in 1 .. Len(s) + 1
      PROVE  (most \o back)[i] = IF i < at THEN s[i] ELSE IF i = at THEN item ELSE s[i - 1]
  <2>1. CASE i <= at
    BY <1>6, <1>8, <2>1
  <2>2. CASE ~(i <= at)
    <3>1. i - at \in 1 .. Len(s) - at + 1 /\ at + (i - at) - 1 = i - 1
      BY <2>2
    <3> QED BY <1>2, <1>8, <2>2, <3>1
  <2> QED BY <2>1, <2>2
<1> QED BY <1>5, <1>8, <1>9 DEF most

LEMMA Removed ==
    ASSUME NEW s \in Seq(Items), NEW at \in 1 .. Len(s)
    PROVE  /\ RemoveAt(s, at) \in Seq(Items)
           /\ Len(RemoveAt(s, at)) = Len(s) - 1
           /\ \A i \in 1 .. Len(s) - 1 :
                RemoveAt(s, at)[i] = IF i < at THEN s[i] ELSE s[i + 1]
<1> DEFINE front == SubSeq(s, 1, at - 1)
           back == SubSeq(s, at + 1, Len(s))
<1>1. /\ front \in Seq(Items) /\ Len(front) = at - 1
      /\ \A i \in 1 .. at - 1 : front[i] = s[i]
  BY SubSeqProperties
<1>2. /\ back \in Seq(Items) /\ Len(back) = Len(s) - at
      /\ \A i \in 1 .. Len(s) - at : back[i] = s[at + i]
  BY SubSeqProperties
<1> HIDE DEF front, back
<1>3. RemoveAt(s, at) = front \o back
  BY DEF RemoveAt, front, back
<1>4. (at - 1) + (Len(s) - at) = Len(s) - 1
  OBVIOUS
<1>5. /\ front \o back \in Seq(Items)
      /\ Len(front \o back) = Len(s) - 1
      /\ \A i \in 1 .. Len(s) - 1 :
            (front \o back)[i] = IF i <= at - 1 THEN front[i] ELSE back[i - (at - 1)]
  <2>1. /\ front \o back \in Seq(Items)
        /\ Len(front \o back) = Len(front) + Len(back)
        /\ \A i \in 1 .. Len(front) + Len(back) :
              (front \o back)[i] = IF i <= Len(front) THEN front[i] ELSE back[i - Len(front)]
    BY <1>1, <1>2, ConcatProperties
  <2>2. Len(front) = at - 1 /\ Len(front) + Len(back) = Len(s) - 1
    BY <1>1, <1>2, <1>4
  <2> QED BY <2>1, <2>2
<1>6. ASSUME NEW i \in 1 .. Len(s) - 1
      PROVE  (front \o back)[i] = IF i < at THEN s[i] ELSE s[i + 1]
  <2>1. CASE i < at
    BY <1>1, <1>5, <2>1
  <2>2. CASE ~(i < at)
    <3>1. i - (at - 1) \in 1 .. Len(s) - at /\ at + (i - (at - 1)) = i + 1
      BY <2>2
    <3> QED BY <1>2, <1>5, <2>2, <3>1
  <2> QED BY <2>1, <2>2
<1> QED BY <1>3, <1>5, <1>6

LEMMA Joined ==
    ASSUME NEW s \in Seq(Items), NEW t \in Seq(Items)
    PROVE  /\ s \o t \in Seq(Items)
           /\ ToSet(s \o t) = ToSet(s) \cup ToSet(t)
           /\ IsInjective(s) /\ IsInjective(t) /\ ToSet(s) \cap ToSet(t) = {}
                => IsInjective(s \o t)
<1>1. /\ s \o t \in Seq(Items)
      /\ Len(s) \in Nat /\ Len(t) \in Nat
      /\ DOMAIN s = 1 .. Len(s) /\ DOMAIN t = 1 .. Len(t)
      /\ DOMAIN (s \o t) = 1 .. Len(s) + Len(t)
      /\ \A i \in 1 .. Len(s) + Len(t) :
            (s \o t)[i] = IF i <= Len(s) THEN s[i] ELSE t[i - Len(s)]
  BY ConcatProperties
<1> DEFINE u == s \o t
<1>2. \A i \in DOMAIN u : \/ i \in DOMAIN s /\ u[i] = s[i]
                          \/ i - Len(s) \in DOMAIN t /\ u[i] = t[i - Len(s)]
  BY <1>1
<1>3. /\ \A i \in DOMAIN s : i \in DOMAIN u /\ u[i] = s[i]
      /\ \A i \in DOMAIN t : i + Len(s) \in DOMAIN u /\ u[i + Len(s)] = t[i]
  BY <1>1
<1>4. \A i, j \in DOMAIN u : i \in Int /\ j \in Int /\ (i - Len(s) = j - Len(s) => i = j)
  BY <1>1
<1> HIDE DEF u
<1>5. ToSet(u) = ToSet(s) \cup ToSet(t)
  BY <1>2, <1>3 DEF ToSet
<1>6. ASSUME IsInjective(s), IsInjective(t), ToSet(s) \cap ToSet(t) = {},
             NEW i \in DOMAIN u, NEW j \in DOMAIN u, u[i] = u[j]
      PROVE  i = j
  <2>1. CASE i \in DOMAIN s /\ u[i] = s[i]
    <3>1. j \in DOMAIN s /\ u[j] = s[j]
      BY <1>2, <1>6, <2>1 DEF ToSet
    <3> QED BY <1>6, <2>1, <3>1 DEF IsInjective
  <2>2. CASE i - Len(s) \in DOMAIN t /\ u[i] = t[i - Len(s)]
    <3>1. j - Len(s) \in DOMAIN t /\ u[j] = t[j - Len(s)]
      BY <1>2, <1>6, <2>2 DEF ToSet
    <3> QED BY <1>4, <1>6, <2>2, <3>1 DEF IsInjective
  <2> QED BY <1>2, <2>1, <2>2
<1> QED BY <1>1, <1>5, <1>6 DEF IsInjective, u

(* A page divides what is on it from what comes after it.                  *)
LEMMA PageSplits ==
    ASSUME NEW page \in Nat \ {0}, feed \in Seq(Items), IsInjective(feed)
    PROVE  /\ From(page) = ToSet(Rows(page)) \cup From(page + 1)
           /\ ToSet(Rows(page)) \cap From(page + 1) = {}
           /\ IsInjective(Rows(page))
           /\ Len(feed) <= Offset(page) => From(page) = {}
           /\ Rows(page) = <<>> <=> Len(feed) <= Offset(page)
<1> DEFINE rows == Rows(page)
           o == Offset(page)
           o2 == Offset(page + 1)
           size == PageSize
<1>1. /\ o \in Nat /\ size \in Nat \ {0} /\ o2 = o + size
      /\ Len(feed) \in Nat /\ DOMAIN feed = 1 .. Len(feed)
  <2>1. Len(feed) \in Nat /\ DOMAIN feed = 1 .. Len(feed)
    OBVIOUS
  <2> QED BY <2>1, Offsets
<1>2. /\ rows \in Seq(Items)
      /\ Len(rows) = IF Len(feed) <= o THEN 0 ELSE IF o2 <= Len(feed) THEN size ELSE Len(feed) - o
      /\ \A i \in 1 .. Len(rows) : rows[i] = feed[o + i]
  BY PageOfFeed
<1>3. From(page) = {feed[i] : i \in {j \in DOMAIN feed : o < j}}
  BY DEF From
<1>4. From(page + 1) = {feed[i] : i \in {j \in DOMAIN feed : o2 < j}}
  BY DEF From
<1> HIDE DEF rows, o, o2, size
<1>5. DOMAIN rows = 1 .. Len(rows) /\ Len(rows) \in Nat
  BY <1>2
<1> DEFINE n == Len(rows)
           last == Len(feed)
<1>5a. /\ n \in Nat /\ last \in Nat
       /\ last <= o => n = 0
       /\ o < last /\ o2 <= last => n = size
       /\ o < last /\ last < o2 => n = last - o
  <2>1. n = IF last <= o THEN 0 ELSE IF o2 <= last THEN size ELSE last - o
    BY <1>2
  <2>2. n \in Nat /\ last \in Nat
    BY <1>1, <1>5
  <2> HIDE DEF n, last
  <2>3. CASE last <= o
    BY <1>1, <2>1, <2>2, <2>3
  <2>4. CASE ~(last <= o) /\ o2 <= last
    BY <1>1, <2>1, <2>2, <2>4
  <2>5. CASE ~(last <= o) /\ ~(o2 <= last)
    BY <1>1, <2>1, <2>2, <2>5
  <2> QED BY <2>3, <2>4, <2>5
<1>5b. DOMAIN feed = 1 .. last /\ DOMAIN rows = 1 .. n
  BY <1>1, <1>5
<1> HIDE DEF n, last
<1>6. ASSUME NEW i \in DOMAIN rows
      PROVE  o + i \in DOMAIN feed /\ o < o + i /\ o + i <= o2 /\ rows[i] = feed[o + i]
  <2>1. i \in 1 .. n
    BY <1>5b
  <2>2. o + i \in 1 .. last /\ o < o + i /\ o + i <= o2
    BY <1>1, <1>5a, <2>1
  <2> QED BY <1>2, <1>5, <1>5b, <2>2
<1>7. ASSUME NEW i \in DOMAIN feed, o < i, ~(o2 < i)
      PROVE  i - o \in DOMAIN rows /\ rows[i - o] = feed[i]
  <2>0. i \in 1 .. last
    BY <1>5b
  <2>1. i - o \in 1 .. n
    BY <1>1, <1>7, <1>5a, <2>0
  <2>2. o + (i - o) = i
    BY <1>1
  <2> QED BY <1>2, <1>5, <1>5b, <2>1, <2>2
<1>8. From(page) = ToSet(rows) \cup From(page + 1)
  <2>1. ToSet(rows) \subseteq From(page)
    BY <1>3, <1>6 DEF ToSet
  <2>2. From(page + 1) \subseteq From(page)
    BY <1>1, <1>3, <1>4
  <2>3. From(page) \subseteq ToSet(rows) \cup From(page + 1)
    BY <1>3, <1>4, <1>7 DEF ToSet
  <2> QED BY <2>1, <2>2, <2>3
<1>9. ToSet(rows) \cap From(page + 1) = {}
  <2>1. ASSUME NEW i \in DOMAIN rows, NEW j \in DOMAIN feed, o2 < j PROVE rows[i] # feed[j]
    <3>1. o + i # j
      BY <1>1, <1>5, <1>6, <2>1
    <3> QED BY <1>6, <3>1 DEF IsInjective
  <2> QED BY <1>4, <2>1 DEF ToSet
<1>10. IsInjective(rows)
  <2>1. ASSUME NEW i \in DOMAIN rows, NEW j \in DOMAIN rows, rows[i] = rows[j] PROVE i = j
    <3>1. o + i = o + j
      BY <1>6, <2>1 DEF IsInjective
    <3> QED BY <1>1, <1>5, <3>1
  <2> QED BY <2>1 DEF IsInjective
<1>11. Len(feed) <= o => From(page) = {}
  BY <1>1, <1>3
<1>12. rows = <<>> <=> Len(feed) <= o
  <2>1. n = 0 <=> last <= o
    BY <1>1, <1>5a
  <2>2. rows = <<>> <=> Len(rows) = 0
    BY <1>2
  <2> QED BY <2>1, <2>2 DEF n, last
<1> QED BY <1>8, <1>9, <1>10, <1>11, <1>12 DEF rows, o

(* A feed is never longer than there are media. *)
LEMMA FeedFits ==
    ASSUME feed \in Seq(Items), IsInjective(feed)
    PROVE  Len(feed) \in Nat /\ Cardinality(Items) \in Nat /\ Len(feed) <= Cardinality(Items)
<1>1. Len(feed) \in Nat /\ feed \in [1 .. Len(feed) -> Items]
  OBVIOUS
<1>2. feed \in Injection(1 .. Len(feed), Items)
  BY <1>1 DEF Injection
<1>3. Cardinality(1 .. Len(feed)) <= Cardinality(Items)
  BY <1>2, FinitelyMany, FS_Injection
<1>4. Cardinality(1 .. Len(feed)) = Len(feed)
  BY <1>1, FS_Interval
<1> QED BY <1>1, <1>3, <1>4, FinitelyMany, FS_CardinalityType

(* Media are finite in number, and so is any set of them. *)
LEMMA MediaCounted ==
    ASSUME NEW S, S \subseteq Items
    PROVE  IsFiniteSet(S) /\ Cardinality(S) \in Nat
  BY FinitelyMany, FS_Subset, FS_CardinalityType

LEMMA OneMoreAtMost ==
    ASSUME NEW S, NEW T, S \subseteq Items, NEW x \in Items, T \subseteq S \cup {x}
    PROVE  Cardinality(T) <= Cardinality(S) + 1
<1>1. IsFiniteSet(S) /\ Cardinality(S) \in Nat /\ IsFiniteSet(S \cup {x})
  BY MediaCounted
<1>2. Cardinality(S \cup {x}) <= Cardinality(S) + 1
  <2>1. Cardinality(S \cup {x}) = Cardinality(S) \/ Cardinality(S \cup {x}) = Cardinality(S) + 1
    BY <1>1, FS_AddElement
  <2> QED BY <1>1, <2>1
<1>3. Cardinality(T) <= Cardinality(S \cup {x})
  BY <1>1, FS_Subset
<1>4. Cardinality(T) \in Nat /\ Cardinality(S \cup {x}) \in Nat
  BY MediaCounted
<1> QED BY <1>1, <1>2, <1>3, <1>4

LEMMA NoMoreThan ==
    ASSUME NEW S, NEW T, S \subseteq Items, T \subseteq S
    PROVE  Cardinality(T) <= Cardinality(S)
  BY MediaCounted, FS_Subset

LEMMA MediaOf ==
    ASSUME NEW s \in Seq(Items)
    PROVE  ToSet(s) \subseteq Items /\ Len(s) \in Nat
  BY DEF ToSet

(* Each medium once: as many media as places. *)
LEMMA AsManyAsPlaces ==
    ASSUME NEW s \in Seq(Items), IsInjective(s)
    PROVE  Cardinality(ToSet(s)) = Len(s)
<1>1. Len(s) \in Nat /\ DOMAIN s = 1 .. Len(s) /\ s \in [1 .. Len(s) -> ToSet(s)]
  BY DEF ToSet
<1>2. s \in Injection(1 .. Len(s), ToSet(s))
  BY <1>1 DEF Injection
<1>3. s \in Surjection(1 .. Len(s), ToSet(s))
  BY <1>1 DEF Surjection, ToSet
<1>4. s \in Bijection(1 .. Len(s), ToSet(s))
  BY <1>2, <1>3 DEF Bijection
<1>5. IsFiniteSet(1 .. Len(s)) /\ Cardinality(1 .. Len(s)) = Len(s)
  BY <1>1, FS_Interval
<1>6. ExistsBijection(1 .. Len(s), ToSet(s))
  BY <1>4 DEF ExistsBijection
<1> QED BY <1>5, <1>6, FS_Bijection

(* A page is turned: what it repeats counts as seen twice, no more and no  *)
(* less than when it lay ahead.                                            *)
LEMMA PageTurned ==
    ASSUME NEW S, NEW R, NEW F, S \subseteq Items, R \subseteq Items, F \subseteq Items,
           R \cap F = {}
    PROVE  Cardinality(S \cup R) + Cardinality((R \cup F) \cap S)
                = Cardinality(S) + Cardinality(R) + Cardinality(F \cap S)
<1>1. /\ IsFiniteSet(S) /\ IsFiniteSet(R) /\ IsFiniteSet(F)
      /\ IsFiniteSet(R \cap S) /\ IsFiniteSet(F \cap S)
  BY MediaCounted
<1>2. Cardinality(S \cup R) = Cardinality(S) + Cardinality(R) - Cardinality(R \cap S)
  <2>1. S \cap R = R \cap S
    OBVIOUS
  <2> QED BY <1>1, <2>1, FS_Union
<1>3. Cardinality((R \cup F) \cap S) = Cardinality(R \cap S) + Cardinality(F \cap S)
  <2> DEFINE A == R \cap S
             B == F \cap S
  <2>1. (R \cup F) \cap S = A \cup B /\ A \cap B = {}
    OBVIOUS
  <2>2. IsFiniteSet(A) /\ IsFiniteSet(B)
    BY <1>1
  <2> HIDE DEF A, B
  <2>3. Cardinality(A \cup B) = Cardinality(A) + Cardinality(B) - Cardinality(A \cap B)
    BY <2>2, FS_Union
  <2>4. Cardinality({}) = 0 /\ Cardinality(A) \in Nat /\ Cardinality(B) \in Nat
    BY <2>2, FS_EmptySet, FS_CardinalityType
  <2>5. Cardinality(A \cap B) = 0
    BY ONLY <2>1, <2>4
  <2>6. Cardinality(A \cup B) = Cardinality(A) + Cardinality(B)
    BY ONLY <2>3, <2>4, <2>5
  <2> QED BY ONLY <2>1, <2>6 DEF A, B
<1>4. /\ Cardinality(S) \in Nat /\ Cardinality(R) \in Nat
      /\ Cardinality(R \cap S) \in Nat /\ Cardinality(F \cap S) \in Nat
  BY <1>1, FS_CardinalityType
<1> QED BY <1>2, <1>3, <1>4

LEMMA AheadIsMedia ==
    ASSUME feed \in Seq(Items), NEW page
    PROVE  From(page) \subseteq Items
  BY DEF From

----------------------------------------------------------------------------
LEMMA InitLInv == ListingInit => LInv
<1> SUFFICES ASSUME ListingInit PROVE LInv
  OBVIOUS
<1>1. <<>> \in Seq(Items) /\ IsInjective(<<>>) /\ ToSet(<<>>) = {}
  BY DEF IsInjective, ToSet
<1>2. /\ walk.pc = "idle" /\ walk.page = 1 /\ feed = <<>> /\ seen = <<>> /\ start = <<>>
      /\ added = 0 /\ removed = 0 /\ 0 \in 0 .. MaxChanges
  BY PageSettings DEF ListingInit
<1>3. ListingTypeOK
  <2>1. walk \in [pc : {"idle", "asking", "counting", "done"}, page : Nat \ {0}]
    BY DEF ListingInit
  <2> QED BY <1>1, <1>2, <2>1 DEF ListingInit, ListingTypeOK
<1>4. AgainIsPaidFor
  <2>1. Again = {} /\ Cardinality({}) = 0 /\ Len(seen) = 0
    BY <1>2, FS_EmptySet DEF Again
  <2>2. Cardinality(Again) = 0 /\ Cardinality(ToSet(seen)) = 0
    BY <1>1, <1>2, <2>1
  <2> QED BY <1>2, <2>1, <2>2 DEF AgainIsPaidFor
<1>5. MissedIsPaidFor /\ SeenIsTheStart
  BY <1>1, <1>2 DEF MissedIsPaidFor, SeenIsTheStart
<1> QED BY <1>3, <1>4, <1>5 DEF LInv

LEMMA StartStep ==
    ASSUME LInv, StartWalk
    PROVE  LInv'
<1>1. /\ walk' = [pc |-> "asking", page |-> 1]
      /\ seen' = <<>> /\ start' = feed /\ feed' = feed /\ added' = 0 /\ removed' = 0
      /\ feed \in Seq(Items) /\ IsInjective(feed)
  BY DEF StartWalk, LInv, ListingTypeOK
<1>2. <<>> \in Seq(Items) /\ IsInjective(<<>>) /\ ToSet(<<>>) = {}
  BY DEF IsInjective, ToSet
<1>3. Offset(1) = 0
  BY Offsets
<1>4. Ahead' = ToSet(feed)
  BY <1>1, <1>3 DEF Ahead, From, ToSet, Offset, PageSize
<1>5. SubSeq(feed, 1, 0) = <<>> /\ 0 <= Len(feed)
  BY <1>1, SubSeqEmpty
<1>6. SeenIsTheStart'
  BY <1>1, <1>3, <1>5 DEF SeenIsTheStart, Offset, PageSize
<1>7. AgainIsPaidFor' /\ MissedIsPaidFor'
  <2>1. walk'.pc = "asking" /\ ToSet(seen') = {} /\ Len(seen') = 0
    BY <1>1, <1>2
  <2>2. Again' = {} /\ Missed' = {}
    BY <1>1, <1>4, <2>1 DEF Again, Missed
  <2>3. Cardinality({}) = 0
    BY FS_EmptySet
  <2>4. Cardinality(Again') = 0 /\ Cardinality(Missed') = 0 /\ Cardinality(ToSet(seen')) = 0
    BY <2>1, <2>2, <2>3
  <2>5. Len(seen') + Cardinality(Again') <= Cardinality(ToSet(seen')) + added'
    BY <1>1, <2>1, <2>4
  <2>6. Cardinality(Missed') <= removed'
    BY <1>1, <2>4
  <2> QED BY <2>5, <2>6 DEF AgainIsPaidFor, MissedIsPaidFor
<1>8. ListingTypeOK'
  <2>1. /\ walk' \in [pc : {"idle", "asking", "counting", "done"}, page : Nat \ {0}]
        /\ walk'.page = 1
    BY <1>1
  <2>2. 0 \in 0 .. MaxChanges
    BY PageSettings
  <2> QED BY <1>1, <1>2, <2>1, <2>2 DEF ListingTypeOK
<1> QED BY <1>6, <1>7, <1>8 DEF LInv

(* The client's side of a step: where it goes next. *)
LEMMA NextPage ==
    ASSUME LInv, NEW data \in Seq(Items), Take(Response(walk.page, data, Len(feed))),
           UNCHANGED <<feed, start, added, removed>>
    PROVE  /\ seen' = seen \o data
           /\ ListingTypeOK'
           /\ \/ /\ walk' = [pc |-> "asking", page |-> walk.page + 1]
                 /\ Offset(walk.page + 1) < Len(feed)
              \/ /\ walk' = [pc |-> "done", page |-> walk.page]
                 /\ Len(feed) <= Offset(walk.page + 1)
<1>1. /\ walk \in [pc : {"idle", "asking", "counting", "done"}, page : Nat \ {0}]
      /\ walk.page \in Nat \ {0}
      /\ seen \in Seq(Items) /\ feed \in Seq(Items) /\ IsInjective(feed)
      /\ start \in Seq(Items) /\ added \in 0 .. MaxChanges /\ removed \in 0 .. MaxChanges
  BY DEF LInv, ListingTypeOK
<1>2. /\ seen' = seen \o data
      /\ walk' = IF walk.page * PageSize < Len(feed)
                 THEN [pc |-> "asking", page |-> walk.page + 1]
                 ELSE [pc |-> "done", page |-> walk.page]
  BY DEF Take, Response
<1>3. /\ walk.page * PageSize = Offset(walk.page + 1)
      /\ Offset(walk.page + 1) \in Nat
  <2>1. walk.page \in Nat \ {0} /\ walk.page + 1 \in Nat \ {0}
    BY <1>1
  <2>2. walk.page * PageSize = Offset(walk.page + 1)
    BY <2>1, Offsets
  <2>3. Offset(walk.page + 1) \in Nat
    BY <2>1, Offsets
  <2> QED BY <2>2, <2>3
<1>4. Len(feed) \in Nat /\ Cardinality(Items) \in Nat /\ Len(feed) <= Cardinality(Items)
  BY <1>1, FeedFits
<1>5. \/ /\ walk' = [pc |-> "asking", page |-> walk.page + 1]
         /\ Offset(walk.page + 1) < Len(feed)
      \/ /\ walk' = [pc |-> "done", page |-> walk.page]
         /\ Len(feed) <= Offset(walk.page + 1)
  BY <1>2, <1>3, <1>4
<1>6. seen' \in Seq(Items)
  BY <1>1, <1>2, ConcatProperties
<1>7. /\ walk' \in [pc : {"idle", "asking", "counting", "done"}, page : Nat \ {0}]
      /\ walk'.page = 1 \/ Offset(walk'.page) < Cardinality(Items)
  <2>1. CASE walk' = [pc |-> "asking", page |-> walk.page + 1]
             /\ Offset(walk.page + 1) < Len(feed)
    <3>1. walk'.page = walk.page + 1 /\ walk.page + 1 \in Nat \ {0}
      BY <1>1, <2>1
    <3>2. Offset(walk'.page) < Cardinality(Items)
      BY <1>3, <1>4, <2>1, <3>1
    <3> QED BY <2>1, <3>1, <3>2
  <2>2. CASE walk' = [pc |-> "done", page |-> walk.page]
    <3>1. walk'.page = walk.page
      BY <2>2
    <3> QED BY <1>1, <2>2, <3>1 DEF LInv, ListingTypeOK
  <2> QED BY <1>5, <2>1, <2>2
<1>8. ListingTypeOK'
  BY <1>1, <1>6, <1>7 DEF ListingTypeOK, Offset, PageSize
<1> QED BY <1>2, <1>5, <1>8

LEMMA FromAfter ==
    ASSUME feed' = feed, NEW page
    PROVE  From(page)' = From(page) /\ Offset(page)' = Offset(page)
  BY DEF From, Offset, PageSize

(* What has been seen, put together with the page that follows. *)
LEMMA SeenGrows ==
    ASSUME NEW page \in Nat \ {0}, feed \in Seq(Items), Offset(page) <= Len(feed)
    PROVE  /\ Offset(page + 1) < Len(feed) =>
                SubSeq(feed, 1, Offset(page)) \o Rows(page) = SubSeq(feed, 1, Offset(page + 1))
           /\ Len(feed) <= Offset(page + 1) =>
                SubSeq(feed, 1, Offset(page)) \o Rows(page) = feed
<1> DEFINE o == Offset(page)
           o2 == Offset(page + 1)
           last == Min({Offset(page) + PageSize, Len(feed)})
<1>1. /\ o \in Nat /\ PageSize \in Nat \ {0} /\ o2 = o + PageSize /\ Len(feed) \in Nat
  <2> HIDE DEF last
  <2>1. Len(feed) \in Nat
    OBVIOUS
  <2> QED BY <2>1, Offsets
<1>2. last = IF o2 <= Len(feed) THEN o2 ELSE Len(feed)
  BY <1>1, MinOfTwo
<1>3. Rows(page) = SubSeq(feed, o + 1, last)
  BY DEF Rows
<1> HIDE DEF o, o2, last
<1>4. o <= Len(feed) /\ o <= last /\ last <= Len(feed) /\ last \in Nat
  BY <1>1, <1>2 DEF o
<1>5. SubSeq(feed, 1, o) \o SubSeq(feed, o + 1, last) = SubSeq(feed, 1, last)
  <2>1. 1 \in 1 .. Len(feed) + 1 /\ o \in 1 - 1 .. Len(feed) /\ last \in o .. Len(feed)
    BY <1>1, <1>4
  <2> QED BY <2>1, ConcatAdjacentSubSeq
<1>6. o2 < Len(feed) => last = o2
  BY <1>1, <1>2
<1>7. Len(feed) <= o2 => last = Len(feed)
  BY <1>1, <1>2
<1>8. SubSeq(feed, 1, Len(feed)) = feed
  BY SubSeqFull
<1> QED BY <1>3, <1>5, <1>6, <1>7, <1>8 DEF o, o2

(* Steps that neither add nor remove, and lose nothing more. *)
LEMMA FewerMissed ==
    ASSUME LInv, walk.pc # "idle", Missed' \subseteq Missed, removed' = removed
    PROVE  MissedIsPaidFor'
<1>1. Missed \subseteq Items
  BY MediaOf DEF LInv, ListingTypeOK, Missed
<1>2. Cardinality(Missed') <= Cardinality(Missed)
  BY <1>1, NoMoreThan
<1>3. Cardinality(Missed) \in Nat /\ Cardinality(Missed') \in Nat /\ removed \in Nat
  BY <1>1, MediaCounted DEF LInv, ListingTypeOK
<1>4. Cardinality(Missed) <= removed
  BY DEF LInv, MissedIsPaidFor
<1>5. Cardinality(Missed') <= removed'
  BY <1>2, <1>3, <1>4
<1> QED BY <1>5 DEF MissedIsPaidFor

LEMMA FewerAgain ==
    ASSUME LInv, Again' \subseteq Again, seen' = seen, added' = added
    PROVE  AgainIsPaidFor'
<1>1. Again \subseteq Items /\ ToSet(seen) \subseteq Items /\ Len(seen) \in Nat /\ added \in Nat
  BY MediaOf DEF LInv, ListingTypeOK, Again
<1>2. Cardinality(Again') <= Cardinality(Again)
  BY <1>1, NoMoreThan
<1>3. /\ Cardinality(Again) \in Nat /\ Cardinality(Again') \in Nat
      /\ Cardinality(ToSet(seen)) \in Nat
  BY <1>1, MediaCounted
<1>4. Len(seen) + Cardinality(Again) <= Cardinality(ToSet(seen)) + added
  BY DEF LInv, AgainIsPaidFor
<1>5. Len(seen) + Cardinality(Again') <= Cardinality(ToSet(seen)) + added
  BY <1>1, <1>2, <1>3, <1>4
<1> QED BY <1>5 DEF AgainIsPaidFor

LEMMA RowsStep ==
    ASSUME LInv, FetchRows
    PROVE  LInv'
<1> DEFINE page == walk.page
           rows == Rows(page)
<1>0. /\ page \in Nat \ {0} /\ walk.pc = "asking"
      /\ walk \in [pc : {"idle", "asking", "counting", "done"}, page : Nat \ {0}]
      /\ seen \in Seq(Items) /\ feed \in Seq(Items) /\ IsInjective(feed)
      /\ feed' = feed /\ start' = start /\ added' = added /\ removed' = removed
  BY DEF FetchRows, LInv, ListingTypeOK
<1>1. /\ Ahead = ToSet(rows) \cup From(page + 1)
      /\ ToSet(rows) \cap From(page + 1) = {}
      /\ IsInjective(rows)
      /\ Len(feed) <= Offset(page) => Ahead = {}
      /\ rows = <<>> <=> Len(feed) <= Offset(page)
      /\ Len(feed) <= Offset(page + 1) => From(page + 1) = {}
  <2>1. page + 1 \in Nat \ {0}
    BY <1>0
  <2> QED BY <1>0, <2>1, PageSplits DEF Ahead
<1>2. CASE rows # <<>> \/ Offset(page) = 0
  <2>1. Take(Response(page, rows, Len(feed)))
    BY <1>2 DEF FetchRows
  <2>2. rows \in Seq(Items)
    BY <1>0, PageOfFeed
  <2> HIDE DEF rows
  <2>3. /\ seen' = seen \o rows
        /\ ListingTypeOK'
        /\ \/ /\ walk' = [pc |-> "asking", page |-> page + 1]
              /\ Offset(page + 1) < Len(feed)
           \/ /\ walk' = [pc |-> "done", page |-> page]
              /\ Len(feed) <= Offset(page + 1)
    BY <1>0, <2>1, <2>2, NextPage
  <2>4. ToSet(seen') = ToSet(seen) \cup ToSet(rows) /\ Len(seen') = Len(seen) + Len(rows)
    BY <1>0, <2>2, <2>3, Joined, ConcatProperties
  <2>5. walk'.pc = "asking" => Ahead' = From(page + 1)
    BY <1>0, <2>3, FromAfter DEF Ahead
  <2>6. /\ walk'.pc \in {"asking", "done"}
        /\ walk'.pc = "done" => From(page + 1) = {}
    BY <1>1, <2>3
  <2>7. AgainIsPaidFor'
    <3> DEFINE S == ToSet(seen)
               R == ToSet(rows)
               F == From(page + 1)
    <3>1. S \subseteq Items /\ R \subseteq Items /\ F \subseteq Items /\ R \cap F = {}
      BY <1>0, <1>1, <2>2, MediaOf, AheadIsMedia
    <3>2. Again = (R \cup F) \cap S
      BY <1>0, <1>1 DEF Again
    <3>3. Again' \subseteq F \cap S
      BY <1>1, <2>4, <2>5, <2>6 DEF Again
    <3>4. Cardinality(R) = Len(rows) /\ Len(rows) \in Nat /\ Len(seen) \in Nat
      BY <1>0, <1>1, <2>2, MediaOf, AsManyAsPlaces
    <3>5. ToSet(seen') = S \cup R
      BY <2>4
    <3>6. Len(seen) + Cardinality(Again) <= Cardinality(S) + added
      BY DEF LInv, AgainIsPaidFor
    <3>7. added \in Nat /\ added' = added
      BY <1>0 DEF LInv, ListingTypeOK
    <3> HIDE DEF S, R, F
    <3>8. Cardinality(S \cup R) + Cardinality(Again)
                = Cardinality(S) + Cardinality(R) + Cardinality(F \cap S)
      BY <3>1, <3>2, PageTurned
    <3>9. Cardinality(Again') <= Cardinality(F \cap S)
      BY <3>1, <3>3, NoMoreThan
    <3>10. /\ Cardinality(S) \in Nat /\ Cardinality(S \cup R) \in Nat /\ Cardinality(Again) \in Nat
           /\ Cardinality(F \cap S) \in Nat /\ Cardinality(Again') \in Nat
      BY <3>1, <3>2, <3>3, MediaCounted
    <3>11. Len(seen') + Cardinality(Again') <= Cardinality(S \cup R) + added
      BY <2>4, <3>4, <3>6, <3>7, <3>8, <3>9, <3>10
    <3> QED BY <3>5, <3>7, <3>11 DEF AgainIsPaidFor
  <2>8. MissedIsPaidFor'
    <3>1. Missed' \subseteq Missed
      BY <1>0, <1>1, <2>4, <2>5, <2>6 DEF Missed
    <3> QED BY <1>0, <3>1, FewerMissed
  <2>9. SeenIsTheStart'
    <3>1. ASSUME added = 0, removed = 0
          PROVE  /\ feed = start
                 /\ Offset(page) <= Len(feed)
                 /\ seen' = SubSeq(feed, 1, Offset(page)) \o rows
      BY <1>0, <2>3, <3>1 DEF LInv, SeenIsTheStart
    <3>2. ASSUME added = 0, removed = 0
          PROVE  /\ Offset(page + 1) < Len(feed) => seen' = SubSeq(feed, 1, Offset(page + 1))
                 /\ Len(feed) <= Offset(page + 1) => seen' = feed
      BY <1>0, <3>1, <3>2, SeenGrows DEF rows
    <3>3. \A p : Offset(p)' = Offset(p)
      BY DEF Offset, PageSize
    <3>4. CASE walk' = [pc |-> "asking", page |-> page + 1] /\ Offset(page + 1) < Len(feed)
      <4>1. Offset(page + 1) \in Nat /\ Len(feed) \in Nat
        <5>1. page + 1 \in Nat \ {0} /\ Len(feed) \in Nat
          BY <1>0
        <5> HIDE DEF page
        <5>2. Offset(page + 1) \in Nat
          BY <5>1, Offsets
        <5> QED BY <5>1, <5>2
      <4>2. walk'.pc = "asking" /\ walk'.page = page + 1 /\ Offset(page + 1) <= Len(feed)
        BY <3>4, <4>1
      <4> QED BY <1>0, <3>1, <3>2, <3>3, <3>4, <4>2 DEF SeenIsTheStart
    <3>5. CASE walk' = [pc |-> "done", page |-> page] /\ Len(feed) <= Offset(page + 1)
      BY <1>0, <3>1, <3>2, <3>5 DEF SeenIsTheStart
    <3> QED BY <2>3, <3>4, <3>5
  <2> QED BY <2>3, <2>7, <2>8, <2>9 DEF LInv
<1>3. CASE rows = <<>> /\ Offset(page) # 0
  <2>1. walk' = [walk EXCEPT !.pc = "counting"] /\ seen' = seen
    BY <1>3 DEF FetchRows
  <2>2. walk' \in [pc : {"idle", "asking", "counting", "done"}, page : Nat \ {0}]
        /\ walk'.pc = "counting" /\ walk'.page = page
    BY <1>0, <2>1
  <2>3. Ahead = {} /\ Len(feed) <= Offset(page)
    BY <1>1, <1>3
  <2>4. Ahead' = {}
    BY <1>0, <2>2, <2>3, FromAfter DEF Ahead
  <2>5. ListingTypeOK'
    BY <1>0, <2>1, <2>2 DEF LInv, ListingTypeOK, Offset, PageSize
  <2>6. AgainIsPaidFor' /\ MissedIsPaidFor'
    <3>1. Again' \subseteq Again /\ Missed' \subseteq Missed
      BY <1>0, <2>1, <2>2, <2>3, <2>4 DEF Again, Missed
    <3> QED BY <1>0, <2>1, <3>1, FewerMissed, FewerAgain
  <2>7. ~(added = 0 /\ removed = 0)
    <3>1. page # 1
      BY <1>0, <1>3, Offsets
    <3>2. Offset(page) \in Nat /\ Len(feed) \in Nat
      <4>1. page \in Nat \ {0} /\ Len(feed) \in Nat
        BY <1>0
      <4> HIDE DEF page
      <4>2. Offset(page) \in Nat
        BY <4>1, Offsets
      <4> QED BY <4>1, <4>2
    <3> QED BY <1>0, <2>3, <3>1, <3>2 DEF LInv, SeenIsTheStart
  <2>8. SeenIsTheStart'
    BY <1>0, <2>7 DEF SeenIsTheStart
  <2> QED BY <2>5, <2>6, <2>8 DEF LInv
<1> QED BY <1>2, <1>3

LEMMA CountStep ==
    ASSUME LInv, FetchCount
    PROVE  LInv'
<1> DEFINE page == walk.page
<1>0. /\ page \in Nat \ {0} /\ walk.pc = "counting"
      /\ seen \in Seq(Items) /\ feed \in Seq(Items) /\ IsInjective(feed)
      /\ feed' = feed /\ start' = start /\ added' = added /\ removed' = removed
      /\ <<>> \in Seq(Items)
  BY DEF FetchCount, LInv, ListingTypeOK
<1>1. /\ seen' = seen \o <<>>
      /\ ListingTypeOK'
      /\ \/ walk' = [pc |-> "asking", page |-> page + 1]
         \/ walk' = [pc |-> "done", page |-> page]
  BY <1>0, NextPage DEF FetchCount
<1>2. seen' = seen
  BY <1>0, <1>1, ConcatEmptySeq
<1>3. /\ walk'.pc \in {"asking", "done"}
      /\ walk'.pc = "asking" => Ahead' = From(page + 1)
  BY <1>0, <1>1, FromAfter DEF Ahead
<1>4. From(page + 1) \subseteq Ahead
  BY <1>0, PageSplits DEF Ahead
<1>5. AgainIsPaidFor' /\ MissedIsPaidFor'
  <2>1. Again' \subseteq Again /\ Missed' \subseteq Missed
    BY <1>0, <1>2, <1>3, <1>4 DEF Again, Missed
  <2> QED BY <1>0, <1>2, <2>1, FewerMissed, FewerAgain
<1>6. SeenIsTheStart'
  <2>1. ~(added = 0 /\ removed = 0)
    BY <1>0 DEF LInv, SeenIsTheStart
  <2> QED BY <1>0, <2>1 DEF SeenIsTheStart
<1> QED BY <1>1, <1>5, <1>6 DEF LInv

LEMMA AddStep ==
    ASSUME LInv, NEW item \in Items, NEW at \in 1 .. Len(feed) + 1, AddItem(item, at)
    PROVE  LInv'
<1>0. /\ feed \in Seq(Items) /\ IsInjective(feed) /\ item \notin ToSet(feed)
      /\ walk' = walk /\ seen' = seen /\ start' = start /\ removed' = removed
      /\ added' = added + 1 /\ added' \in 0 .. MaxChanges /\ added \in Nat /\ added' # 0
      /\ Len(feed) \in Nat /\ DOMAIN feed = 1 .. Len(feed)
  BY PageSettings DEF AddItem, LInv, ListingTypeOK
<1>1. /\ feed' \in Seq(Items)
      /\ DOMAIN feed' = 1 .. Len(feed) + 1
      /\ \A i \in 1 .. Len(feed) + 1 :
            feed'[i] = IF i < at THEN feed[i] ELSE IF i = at THEN item ELSE feed[i - 1]
  <2> DEFINE s == InsertAt(feed, at, item)
  <2>1. /\ s \in Seq(Items) /\ Len(s) = Len(feed) + 1
        /\ \A i \in 1 .. Len(feed) + 1 :
              s[i] = IF i < at THEN feed[i] ELSE IF i = at THEN item ELSE feed[i - 1]
    <3>1. feed \in Seq(Items) /\ at \in 1 .. Len(feed) + 1 /\ item \in Items
      BY <1>0
    <3> QED BY ONLY <3>1, Inserted
  <2>2. feed' = s
    BY DEF AddItem
  <2> HIDE DEF s
  <2>3. DOMAIN s = 1 .. Len(feed) + 1
    BY <2>1
  <2> QED BY <2>1, <2>2, <2>3
<1> DEFINE old(i) == IF i < at THEN i ELSE i - 1
           new(i) == IF i < at THEN i ELSE i + 1
<1>2. \A i \in DOMAIN feed' : \/ i = at /\ feed'[i] = item
                              \/ i # at /\ old(i) \in DOMAIN feed /\ feed'[i] = feed[old(i)]
  BY <1>0, <1>1
<1>3. \A i \in DOMAIN feed : /\ new(i) \in DOMAIN feed' /\ feed'[new(i)] = feed[i]
                             /\ i <= new(i)
  BY <1>0, <1>1
<1>4. \A i, j \in DOMAIN feed' : i # at /\ j # at /\ old(i) = old(j) => i = j
  BY <1>0, <1>1
<1> HIDE DEF old, new
<1>5. IsInjective(feed')
  <2>1. ASSUME NEW i \in DOMAIN feed', NEW j \in DOMAIN feed', feed'[i] = feed'[j]
        PROVE  i = j
    <3>1. (i = at) <=> (j = at)
      BY <1>0, <1>2, <2>1 DEF ToSet
    <3> QED BY <1>0, <1>2, <1>4, <2>1, <3>1 DEF IsInjective
  <2> QED BY <2>1 DEF IsInjective
<1> DEFINE o == Offset(walk.page)
           pushed == IF o < at \/ o + 1 \notin DOMAIN feed' THEN item ELSE feed'[o + 1]
<1>6. Ahead \subseteq Ahead' /\ Ahead' \subseteq Ahead \cup {pushed} /\ pushed \in Items
  <2>1. walk.page \in Nat \ {0}
    BY DEF LInv, ListingTypeOK
  <2>2. o \in Nat /\ Offset(walk.page)' = o
    BY <1>0, <2>1, Offsets DEF Offset, PageSize
  <2>3. ASSUME NEW i \in DOMAIN feed, o < i PROVE o < new(i)
    <3>1. i \in Nat /\ new(i) \in Nat /\ i <= new(i)
      BY <1>0, <1>1, <1>3
    <3> QED BY <2>2, <2>3, <3>1
  <2> HIDE DEF o
  <2>4. Ahead \subseteq Ahead'
    BY <1>3, <2>2, <2>3 DEF Ahead, From, o
  <2>5. ASSUME NEW i \in DOMAIN feed', o < i, feed'[i] # pushed
        PROVE  feed'[i] \in {feed[j] : j \in {k \in DOMAIN feed : o < k}}
    <3>1. i # at
      BY <1>0, <1>1, <1>2, <2>2, <2>5
    <3>2. old(i) \in DOMAIN feed /\ feed'[i] = feed[old(i)]
      BY <1>2, <3>1
    <3>3. o < old(i)
      <4>1. CASE o < at
        BY <1>0, <1>1, <2>2, <2>5, <3>1, <4>1 DEF old
      <4>2. CASE ~(o < at)
        <5>1. i # o + 1
          BY <2>5, <4>2
        <5>2. i \in Nat /\ at \in Nat /\ old(i) = i - 1
          BY <1>0, <1>1, <2>2, <2>5, <4>2 DEF old
        <5> QED BY <2>2, <2>5, <5>1, <5>2
      <4> QED BY <4>1, <4>2
    <3> QED BY <3>2, <3>3
  <2>6. Ahead' = {feed'[i] : i \in {j \in DOMAIN feed' : o < j}}
    BY <1>0, <2>2 DEF Ahead, From
  <2>7. Ahead = {feed[i] : i \in {j \in DOMAIN feed : o < j}}
    BY DEF Ahead, From, o
  <2>8. Ahead' \subseteq Ahead \cup {pushed}
    BY <2>5, <2>6, <2>7
  <2>9. pushed \in Items
    BY <1>1
  <2> QED BY <2>4, <2>8, <2>9
<1> HIDE DEF pushed
<1>7. ListingTypeOK'
  BY <1>0, <1>1, <1>5 DEF LInv, ListingTypeOK, Offset, PageSize
<1>8. MissedIsPaidFor'
  <2>1. CASE walk.pc = "idle"
    BY <1>0, <2>1 DEF MissedIsPaidFor
  <2>2. CASE walk.pc # "idle"
    <3>1. Missed' \subseteq Missed
      BY <1>0, <1>6 DEF Missed
    <3> QED BY <1>0, <2>2, <3>1, FewerMissed
  <2> QED BY <2>1, <2>2
<1>9. AgainIsPaidFor'
  <2>1. Again' \subseteq Again \cup {pushed}
    BY <1>0, <1>6 DEF Again
  <2>2. Again \subseteq Items /\ ToSet(seen) \subseteq Items /\ Len(seen) \in Nat
    BY MediaOf DEF LInv, ListingTypeOK, Again
  <2>3. Cardinality(Again') <= Cardinality(Again) + 1
    BY <1>6, <2>1, <2>2, OneMoreAtMost
  <2>4. /\ Cardinality(Again) \in Nat /\ Cardinality(Again') \in Nat
        /\ Cardinality(ToSet(seen)) \in Nat
    BY <1>6, <2>1, <2>2, MediaCounted
  <2>5. Len(seen) + Cardinality(Again) <= Cardinality(ToSet(seen)) + added
    BY DEF LInv, AgainIsPaidFor
  <2>6. Len(seen) + Cardinality(Again') <= Cardinality(ToSet(seen)) + added'
    BY <1>0, <2>2, <2>3, <2>4, <2>5
  <2> QED BY <1>0, <2>6 DEF AgainIsPaidFor
<1>10. SeenIsTheStart'
  BY <1>0 DEF SeenIsTheStart
<1> QED BY <1>7, <1>8, <1>9, <1>10 DEF LInv

LEMMA RemoveStep ==
    ASSUME LInv, NEW at \in DOMAIN feed, RemoveItem(at)
    PROVE  LInv'
<1>0. /\ feed \in Seq(Items) /\ IsInjective(feed)
      /\ walk' = walk /\ seen' = seen /\ start' = start /\ added' = added
      /\ removed' = removed + 1 /\ removed' \in 0 .. MaxChanges /\ removed \in Nat /\ removed' # 0
      /\ Len(feed) \in Nat /\ DOMAIN feed = 1 .. Len(feed)
  BY PageSettings DEF RemoveItem, LInv, ListingTypeOK
<1>1. /\ feed' \in Seq(Items)
      /\ DOMAIN feed' = 1 .. Len(feed) - 1
      /\ \A i \in 1 .. Len(feed) - 1 : feed'[i] = IF i < at THEN feed[i] ELSE feed[i + 1]
  <2> DEFINE s == RemoveAt(feed, at)
  <2>1. /\ s \in Seq(Items) /\ Len(s) = Len(feed) - 1
        /\ \A i \in 1 .. Len(feed) - 1 : s[i] = IF i < at THEN feed[i] ELSE feed[i + 1]
    BY <1>0, Removed
  <2>2. feed' = s
    BY DEF RemoveItem
  <2> HIDE DEF s
  <2>3. DOMAIN s = 1 .. Len(feed) - 1
    BY <2>1
  <2> QED BY <2>1, <2>2, <2>3
<1> DEFINE old(i) == IF i < at THEN i ELSE i + 1
<1>2. \A i \in DOMAIN feed' : /\ old(i) \in DOMAIN feed /\ feed'[i] = feed[old(i)]
                              /\ i <= old(i)
  BY <1>0, <1>1
<1>3. \A i, j \in DOMAIN feed' : old(i) = old(j) => i = j
  BY <1>0, <1>1
<1> HIDE DEF old
<1>4. IsInjective(feed')
  BY <1>0, <1>2, <1>3 DEF IsInjective
<1> DEFINE o == Offset(walk.page)
           pulled == IF o < at \/ o + 1 \notin DOMAIN feed THEN feed[at] ELSE feed[o + 1]
<1>5. Ahead' \subseteq Ahead /\ Ahead \subseteq Ahead' \cup {pulled} /\ pulled \in Items
  <2>1. walk.page \in Nat \ {0}
    BY DEF LInv, ListingTypeOK
  <2>2. o \in Nat /\ Offset(walk.page)' = o
    BY <1>0, <2>1, Offsets DEF Offset, PageSize
  <2>3. ASSUME NEW i \in DOMAIN feed', o < i PROVE o < old(i)
    <3>1. i \in Nat /\ old(i) \in Nat /\ i <= old(i)
      BY <1>0, <1>1, <1>2
    <3> QED BY <2>2, <2>3, <3>1
  <2> HIDE DEF o
  <2>4. Ahead' = {feed'[i] : i \in {j \in DOMAIN feed' : o < j}}
    BY <1>0, <2>2 DEF Ahead, From
  <2>5. Ahead = {feed[i] : i \in {j \in DOMAIN feed : o < j}}
    BY DEF Ahead, From, o
  <2>6. Ahead' \subseteq Ahead
    BY <1>2, <2>3, <2>4, <2>5
  <2>7. ASSUME NEW i \in DOMAIN feed, o < i, feed[i] # pulled
        PROVE  \E j \in DOMAIN feed' : o < j /\ feed'[j] = feed[i]
    <3>1. i # at /\ (at <= o => i # o + 1)
      BY <1>0, <2>2, <2>7
    <3>2. CASE i < at
      BY <1>0, <1>1, <2>2, <2>7, <3>2
    <3>3. CASE at < i
      <4>1. i - 1 \in DOMAIN feed' /\ feed'[i - 1] = feed[i]
        BY <1>0, <1>1, <3>3
      <4>2. o < i - 1
        BY <1>0, <2>2, <2>7, <3>1, <3>3
      <4> QED BY <4>1, <4>2
    <3> QED BY <1>0, <3>1, <3>2, <3>3
  <2>8. Ahead \subseteq Ahead' \cup {pulled}
    BY <2>4, <2>5, <2>7
  <2>9. pulled \in Items
    BY <1>0
  <2> QED BY <2>6, <2>8, <2>9
<1> HIDE DEF pulled
<1>6. ListingTypeOK'
  BY <1>0, <1>1, <1>4 DEF LInv, ListingTypeOK, Offset, PageSize
<1>7. AgainIsPaidFor'
  <2>1. Again' \subseteq Again
    BY <1>0, <1>5 DEF Again
  <2> QED BY <1>0, <2>1, FewerAgain
<1>8. MissedIsPaidFor'
  <2>1. Missed' \subseteq Missed \cup {pulled}
    BY <1>0, <1>5 DEF Missed
  <2>2. Missed \subseteq Items
    BY MediaOf DEF LInv, ListingTypeOK, Missed
  <2>3. Cardinality(Missed') <= Cardinality(Missed) + 1
    BY <1>5, <2>1, <2>2, OneMoreAtMost
  <2>4. Cardinality(Missed) \in Nat /\ Cardinality(Missed') \in Nat
    BY <1>5, <2>1, <2>2, MediaCounted
  <2>5. walk.pc # "idle" => Cardinality(Missed) <= removed
    BY DEF LInv, MissedIsPaidFor
  <2>6. walk.pc # "idle" => Cardinality(Missed') <= removed'
    BY <1>0, <2>3, <2>4, <2>5
  <2> QED BY <1>0, <2>6 DEF MissedIsPaidFor
<1>9. SeenIsTheStart'
  BY <1>0 DEF SeenIsTheStart
<1> QED BY <1>6, <1>7, <1>8, <1>9 DEF LInv

LEMMA StepLInv == LInv /\ [ListingNext]_listingVars => LInv'
<1> SUFFICES ASSUME LInv, [ListingNext]_listingVars PROVE LInv'
  OBVIOUS
<1>1. ASSUME UNCHANGED listingVars PROVE LInv'
  BY <1>1 DEF listingVars, LInv, ListingTypeOK, AgainIsPaidFor, MissedIsPaidFor, SeenIsTheStart,
              Again, Missed, Ahead, From, Offset, PageSize
<1> QED BY <1>1, StartStep, RowsStep, CountStep, AddStep, RemoveStep DEF ListingNext

(* Every page asked for starts within the media there are, and a feed has  *)
(* each medium once (db.py:86-93).                                         *)
THEOREM ListingTypeCorrect == ListingSpec => []ListingTypeOK
<1>1. LInv => ListingTypeOK
  BY DEF LInv
<1> QED BY InitLInv, StepLInv, <1>1, PTL DEF ListingSpec

(* Of what was there when it began, a finished walk has missed no more     *)
(* than was removed on the way, whatever is added, and wherever            *)
(* (db.py:86-93, schemas.py:150).                                          *)
THEOREM SkipsAreBounded == ListingSpec => []SkipsBounded
<1>1. LInv => SkipsBounded
  <2> SUFFICES ASSUME LInv, walk.pc = "done"
               PROVE  Cardinality(ToSet(start) \ ToSet(seen)) <= removed
    BY DEF SkipsBounded
  <2>1. Missed = ToSet(start) \ ToSet(seen)
    BY DEF Missed
  <2> QED BY <2>1 DEF LInv, MissedIsPaidFor
<1> QED BY InitLInv, StepLInv, <1>1, PTL DEF ListingSpec

(* A walk is given no more twice than was added since it began, whatever   *)
(* is removed, at any time and not only at its end (db.py:86-93).          *)
THEOREM RepeatsAreBounded == ListingSpec => []RepeatsBounded
<1>1. LInv => RepeatsBounded
  <2> SUFFICES ASSUME LInv PROVE RepeatsBounded
    OBVIOUS
  <2>1. Again \subseteq Items /\ ToSet(seen) \subseteq Items /\ Len(seen) \in Nat /\ added \in Nat
    BY MediaOf DEF LInv, ListingTypeOK, Again
  <2>2. Cardinality(Again) \in Nat /\ Cardinality(ToSet(seen)) \in Nat
    BY <2>1, MediaCounted
  <2>3. Len(seen) + Cardinality(Again) <= Cardinality(ToSet(seen)) + added
    BY DEF LInv, AgainIsPaidFor
  <2> QED BY <2>1, <2>2, <2>3 DEF RepeatsBounded
<1> QED BY InitLInv, StepLInv, <1>1, PTL DEF ListingSpec

(* The pages of a feed nothing happens to, put together, are the feed, for *)
(* every page size and length, a last page that is just full included      *)
(* (schemas.py:150).                                                       *)
THEOREM PagesMakeTheFeed == ListingSpec => []WalkIsTheFeed
<1>1. LInv => WalkIsTheFeed
  BY DEF LInv, SeenIsTheStart, WalkIsTheFeed
<1> QED BY InitLInv, StepLInv, <1>1, PTL DEF ListingSpec
=============================================================================
