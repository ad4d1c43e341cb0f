------------------------- MODULE TransactionsProofs -------------------------
(***************************************************************************)
(* Proofs about Transactions for any tree of one level, any number of      *)
(* sessions, media and transactions, and any plan of the seed script.      *)
(*                                                                         *)
(* That the committed counters are exact says nothing about what open      *)
(* transactions will commit.  The invariant adds what each of them owes:   *)
(* of every counter, what its own rows change of the media counted is what *)
(* it has put into its version of the counter plus what its triggers have  *)
(* yet to do, and of a counter it has not locked it owes nothing but that. *)
(* A recount that nobody has raced holds, for every counter, the number    *)
(* that is right once it commits: in its totals, in its own version, or,   *)
(* where it found nothing to correct, in the committed table.  All of this *)
(* is relative to what is committed, and locks are why no commit of        *)
(* another session can disturb it.                                         *)
(***************************************************************************)
EXTENDS Transactions, CatalogueProofs, SequenceTheorems

(* Where the media are that c answers for. *)
Above(c) == {c} \cup {d \in CategoryIds : Tree[d].parent_id = c}

LeafRow == {r \in ArtworkRow : Tree[r.category_id].parent_id # NULL}

Call == [rows : (SUBSET CategoryIds) \ {{}}, delta : {-1, 1}]

Recounting(t) == t.kind = "recount" \/ t.at = Len(SeedPlan) + 2

(* What the i-th of the calls of adjust_artwork_count to come adds to c.   *)
Due(calls, i, c) ==
    IF i \in DOMAIN calls /\ c \in calls[i].rows THEN calls[i].delta ELSE 0

Pending(calls, c) == Due(calls, 1, c) + Due(calls, 2, c)

(* Of the media counted under c, those that a transaction has written, new *)
(* being its versions, and those of the committed rows it has replaced.    *)
Plus(new, c) ==
    {a \in DOMAIN new : new[a] # NULL /\ new[a].is_active /\ new[a].category_id \in Above(c)}

Minus(new, rows, c) ==
    {a \in DOMAIN new \cap DOMAIN rows : rows[a].is_active /\ rows[a].category_id \in Above(c)}

Net(new, rows, c) == Cardinality(Plus(new, c)) - Cardinality(Minus(new, rows, c))

Media(rows, c) == Cardinality(ActiveRows(rows, Above(c)))

(* A counter as a transaction sees it. *)
Seen(t, cats, c) ==
    IF c \in DOMAIN t.categories THEN t.categories[c].artwork_count ELSE cats[c].artwork_count

----------------------------------------------------------------------------
(* The parts of the invariant. *)

RowsOfTree(table) == \A c \in DOMAIN table : table[c].parent_id = Tree[c].parent_id

TablesOK(cats, rows) ==
    /\ cats \in [CategoryIds -> CategoryRow]
    /\ RowsOfTree(cats)
    /\ DOMAIN rows \subseteq ArtworkIds
    /\ rows \in [DOMAIN rows -> LeafRow]
    /\ IsFiniteSet(DOMAIN rows)

(* A transaction has the fields that Transaction gives it. *)
IsRecord(t) ==
    t = [kind |-> t.kind, categories |-> t.categories, artworks |-> t.artworks,
         adjust |-> t.adjust, totals |-> t.totals, at |-> t.at, raced |-> t.raced]

VersionsOK(new) ==
    /\ DOMAIN new \subseteq ArtworkIds
    /\ new \in [DOMAIN new -> LeafRow \cup {NULL}]
    /\ IsFiniteSet(DOMAIN new)

CountersOK(t) ==
    /\ DOMAIN t.categories \subseteq CategoryIds
    /\ t.categories \in [DOMAIN t.categories -> CategoryRow]
    /\ RowsOfTree(t.categories)
    /\ DOMAIN t.totals \subseteq CategoryIds
    /\ t.totals \in [DOMAIN t.totals -> Nat]

(* What is under way in each kind of transaction. *)
PhaseOK(t, rows) ==
    /\ t.kind \in {"none", "write", "recount", "seed", "reset"}
    /\ t.kind = "none" => t = Idle
    /\ t.at \in 1 .. Len(SeedPlan) + 2
    /\ t.kind \in {"none", "write", "recount"} => t.at = 1
    /\ t.raced \in BOOLEAN
    /\ Recounting(t) => t.adjust = <<>>
    /\ ~Recounting(t) => DOMAIN t.totals = {} /\ ~t.raced
    /\ t.kind = "reset" => /\ DOMAIN t.categories = CategoryIds
                           /\ DOMAIN rows \subseteq DOMAIN t.artworks

(* A counter goes down only in a transaction of one row, and first.        *)
CallsOK(t) ==
    /\ t.adjust \in Seq(Call)
    /\ Len(t.adjust) <= 2
    /\ \A i \in DOMAIN t.adjust : t.adjust[i].delta = -1 =>
        /\ i = 1 /\ t.kind = "write"
        /\ \A c \in CategoryIds : Due(t.adjust, 2, c) <= Cardinality(Plus(t.artworks, c))

(* A counter that the transaction has not locked, and one that it has.     *)
OwedOK(t, cats, rows) ==
    t.kind # "reset" =>
        \A c \in CategoryIds :
            /\ c \notin DOMAIN t.categories => Pending(t.adjust, c) = Net(t.artworks, rows, c)
            /\ c \in DOMAIN t.categories /\ ~Recounting(t) =>
                    Seen(t, cats, c) + Pending(t.adjust, c)
                        = cats[c].artwork_count + Net(t.artworks, rows, c)

RecountOK(t, cats, rows) ==
    Recounting(t) /\ ~t.raced =>
        \A c \in CategoryIds :
            (IF c \in DOMAIN t.totals THEN t.totals[c] ELSE Seen(t, cats, c))
                = Media(rows, c) + Net(t.artworks, rows, c)

TransactionOK(t, cats, rows) ==
    /\ IsRecord(t)
    /\ VersionsOK(t.artworks)
    /\ CountersOK(t)
    /\ PhaseOK(t, rows)
    /\ CallsOK(t)
    /\ OwedOK(t, cats, rows)
    /\ RecountOK(t, cats, rows)

(* No row is locked twice, and TRUNCATE leaves room for nobody.            *)
Apart(t, u) ==
    /\ DOMAIN t.categories \cap DOMAIN u.categories = {}
    /\ DOMAIN t.artworks \cap DOMAIN u.artworks = {}
    /\ t.kind = "reset" => u.kind = "none"
    /\ u.kind = "reset" => t.kind = "none"

XInv ==
    /\ TablesOK(categories, artworks)
    /\ tx = [s \in Sessions |-> tx[s]]
    /\ \A s \in Sessions : TransactionOK(tx[s], categories, artworks)
    /\ \A s \in Sessions : \A o \in Sessions \ {s} : Apart(tx[s], tx[o])
    /\ drifted \in BOOLEAN
    /\ begun \in 0 .. MaxBegun
    /\ ExactUnlessDrifted

----------------------------------------------------------------------------
(* The counters above a row. *)

(* What c counts of a row, or of NULL. *)
Weight(row, c) ==
    IF row # NULL /\ row.is_active /\ row.category_id \in Above(c) THEN 1 ELSE 0

LEMMA CountersAreAbove ==
    ASSUME NEW t \in CategoryIds
    PROVE  /\ CountersOf(t) \in (SUBSET CategoryIds) \ {{}}
           /\ \A c \in CategoryIds : c \in CountersOf(t) <=> t \in Above(c)
  BY TreeIsOneLevel, NullIsNoValue DEF CountersOf, Above, CategoryRow

LEMMA RowsAreRecords ==
    /\ \A r \in LeafRow : /\ r.category_id \in CategoryIds /\ r.is_active \in BOOLEAN
                          /\ r # NULL
    /\ \A c \in CategoryIds, b \in BOOLEAN :
            Tree[c].parent_id # NULL => [category_id |-> c, is_active |-> b] \in LeafRow
  BY NullIsNoRow DEF LeafRow, ArtworkRow

LEMMA PlusMinusFinite ==
    ASSUME NEW new, IsFiniteSet(DOMAIN new), NEW rows, NEW c
    PROVE  /\ IsFiniteSet(Plus(new, c)) /\ Cardinality(Plus(new, c)) \in Nat
           /\ IsFiniteSet(Minus(new, rows, c)) /\ Cardinality(Minus(new, rows, c)) \in Nat
<1>1. Plus(new, c) \in SUBSET DOMAIN new /\ Minus(new, rows, c) \in SUBSET DOMAIN new
  BY DEF Plus, Minus
<1> QED BY <1>1, FS_Subset, FS_CardinalityType

LEMMA MediaFinite ==
    ASSUME NEW rows, IsFiniteSet(DOMAIN rows), NEW c
    PROVE  /\ IsFiniteSet(ActiveRows(rows, Above(c))) /\ Media(rows, c) \in Nat
           /\ \A new : Cardinality(Minus(new, rows, c)) <= Media(rows, c)
<1>1. ActiveRows(rows, Above(c)) \in SUBSET DOMAIN rows
  BY DEF ActiveRows
<1>2. IsFiniteSet(ActiveRows(rows, Above(c)))
  BY <1>1, FS_Subset
<1>3. \A new : Minus(new, rows, c) \in SUBSET ActiveRows(rows, Above(c))
  BY DEF Minus, ActiveRows
<1> QED BY <1>2, <1>3, FS_Subset, FS_CardinalityType DEF Media

(* A transaction that has written nothing adds nothing. *)
LEMMA NetOfNothing ==
    ASSUME NEW new, DOMAIN new = {}, NEW rows, NEW c
    PROVE  Net(new, rows, c) = 0
<1>1. Plus(new, c) = {} /\ Minus(new, rows, c) = {}
  BY DEF Plus, Minus
<1> QED BY <1>1, FS_EmptySet DEF Net

(* One row more in a transaction. *)
LEMMA NetOfOneMore ==
    ASSUME NEW cats, NEW rows, TablesOK(cats, rows), NEW new, VersionsOK(new),
           NEW a, a \notin DOMAIN new, NEW row, NEW c
    PROVE  /\ Net(WithRow(new, a, row), rows, c) =
                Net(new, rows, c) + Weight(row, c)
                    - Weight(IF a \in DOMAIN rows THEN rows[a] ELSE NULL, c)
           /\ Weight(row, c) <= Cardinality(Plus(WithRow(new, a, row), c))
<1> DEFINE more == WithRow(new, a, row)
           old == IF a \in DOMAIN rows THEN rows[a] ELSE NULL
<1>1. DOMAIN more = DOMAIN new \cup {a} /\ more[a] = row
      /\ \A b \in DOMAIN new : more[b] = new[b] /\ b # a
  BY DEF WithRow
<1>2. IsFiniteSet(DOMAIN new) /\ IsFiniteSet(DOMAIN more)
  BY <1>1, FS_AddElement DEF VersionsOK
<1> HIDE DEF more
<1>3. Plus(more, c) = IF Weight(row, c) = 1 THEN Plus(new, c) \cup {a} ELSE Plus(new, c)
  BY <1>1 DEF Plus, Weight
<1>4. Minus(more, rows, c) =
        IF Weight(old, c) = 1 THEN Minus(new, rows, c) \cup {a} ELSE Minus(new, rows, c)
  <2>1. \A b \in DOMAIN rows : rows[b] # NULL
    BY RowsAreRecords DEF TablesOK
  <2> QED BY <1>1, <2>1 DEF Minus, Weight
<1>5. a \notin Plus(new, c) /\ a \notin Minus(new, rows, c)
  BY DEF Plus, Minus
<1>6. Weight(row, c) \in {0, 1} /\ Weight(old, c) \in {0, 1}
  BY DEF Weight
<1>7. /\ Cardinality(Plus(more, c)) = Cardinality(Plus(new, c)) + Weight(row, c)
      /\ Cardinality(Minus(more, rows, c)) = Cardinality(Minus(new, rows, c)) + Weight(old, c)
  <2>1. /\ IsFiniteSet(Plus(new, c)) /\ Cardinality(Plus(new, c)) \in Nat
        /\ IsFiniteSet(Minus(new, rows, c)) /\ Cardinality(Minus(new, rows, c)) \in Nat
    BY <1>2, PlusMinusFinite
  <2>2. /\ Cardinality(Plus(new, c) \cup {a}) = Cardinality(Plus(new, c)) + 1
        /\ Cardinality(Minus(new, rows, c) \cup {a}) = Cardinality(Minus(new, rows, c)) + 1
    BY <1>5, <2>1, FS_AddElement
  <2> QED BY <1>3, <1>4, <1>6, <2>1, <2>2
<1>8. Cardinality(Plus(new, c)) \in Nat /\ Cardinality(Minus(new, rows, c)) \in Nat
  BY <1>2, PlusMinusFinite
<1> HIDE DEF old
<1> QED BY <1>6, <1>7, <1>8 DEF Net, more, old

(* The table once a transaction has committed. *)
Merged(new, rows) ==
    LET both == Over(new, rows) IN Without(both, {a \in DOMAIN both : both[a] = NULL})

LEMMA MergedRows ==
    ASSUME NEW cats, NEW rows, TablesOK(cats, rows), NEW new, VersionsOK(new)
    PROVE  /\ DOMAIN Merged(new, rows) = {a \in DOMAIN new : new[a] # NULL}
                                            \cup (DOMAIN rows \ DOMAIN new)
           /\ \A a \in DOMAIN Merged(new, rows) :
                Merged(new, rows)[a] = IF a \in DOMAIN new THEN new[a] ELSE rows[a]
           /\ TablesOK(cats, Merged(new, rows))
<1> DEFINE both == Over(new, rows)
           all == Merged(new, rows)
<1>1. /\ DOMAIN both = DOMAIN new \cup DOMAIN rows
      /\ \A a \in DOMAIN both : both[a] = IF a \in DOMAIN new THEN new[a] ELSE rows[a]
  BY DEF Over
<1>2. \A a \in DOMAIN rows : rows[a] \in LeafRow /\ rows[a] # NULL
  BY RowsAreRecords DEF TablesOK
<1> HIDE DEF both
<1>3. all = [a \in DOMAIN both \ {b \in DOMAIN both : both[b] = NULL} |-> both[a]]
  BY DEF Merged, Without, Restrict, both
<1>4. /\ DOMAIN all = {a \in DOMAIN new : new[a] # NULL} \cup (DOMAIN rows \ DOMAIN new)
      /\ \A a \in DOMAIN all : all[a] = IF a \in DOMAIN new THEN new[a] ELSE rows[a]
  BY <1>1, <1>2, <1>3
<1>5. all = [a \in DOMAIN all |-> all[a]]
  BY <1>3
<1> HIDE DEF all
<1>6. \A a \in DOMAIN all : all[a] \in LeafRow
  BY <1>2, <1>4 DEF VersionsOK
<1>7. all \in [DOMAIN all -> LeafRow] /\ DOMAIN all \subseteq ArtworkIds
  BY <1>4, <1>5, <1>6 DEF VersionsOK, TablesOK
<1>8. IsFiniteSet(DOMAIN all)
  <2>1. IsFiniteSet(DOMAIN new \cup DOMAIN rows)
    BY FS_Union DEF VersionsOK, TablesOK
  <2>2. DOMAIN all \in SUBSET (DOMAIN new \cup DOMAIN rows)
    BY <1>4
  <2> QED BY <2>1, <2>2, FS_Subset
<1> QED BY <1>4, <1>7, <1>8 DEF TablesOK, all

(* A commit changes what a counter has to count by the net of its rows.    *)
LEMMA MediaOfMerged ==
    ASSUME NEW cats, NEW rows, TablesOK(cats, rows), NEW new, VersionsOK(new), NEW c
    PROVE  Media(Merged(new, rows), c) = Media(rows, c) + Net(new, rows, c)
<1> DEFINE old == ActiveRows(rows, Above(c))
           out == Minus(new, rows, c)
           in == Plus(new, c)
<1>1. ActiveRows(Merged(new, rows), Above(c)) = (old \ out) \cup in
  <2> DEFINE all == Merged(new, rows)
  <2>1. /\ DOMAIN all = {a \in DOMAIN new : new[a] # NULL} \cup (DOMAIN rows \ DOMAIN new)
        /\ \A a \in DOMAIN all : all[a] = IF a \in DOMAIN new THEN new[a] ELSE rows[a]
    BY MergedRows
  <2> HIDE DEF all
  <2> QED BY <2>1 DEF ActiveRows, Plus, Minus, all
<1>2. (old \ out) \cap in = {} /\ old \cap out = out
  BY DEF ActiveRows, Plus, Minus
<1>3. /\ IsFiniteSet(old) /\ Cardinality(old) \in Nat
      /\ IsFiniteSet(out) /\ Cardinality(out) \in Nat
      /\ IsFiniteSet(in) /\ Cardinality(in) \in Nat
  BY PlusMinusFinite, MediaFinite DEF TablesOK, VersionsOK, Media
<1> HIDE DEF old, out, in
<1>4. IsFiniteSet(old \ out) /\ Cardinality(old \ out) = Cardinality(old) - Cardinality(out)
  BY <1>2, <1>3, FS_Difference
<1>5. Cardinality((old \ out) \cup in) = Cardinality(old \ out) + Cardinality(in)
  <2>1. Cardinality((old \ out) \cap in) = 0
    BY <1>2, FS_EmptySet
  <2>2. IsFiniteSet((old \ out) \cup in)
    BY <1>3, <1>4, FS_Union
  <2>3. Cardinality((old \ out) \cup in)
            = Cardinality(old \ out) + Cardinality(in) - Cardinality((old \ out) \cap in)
    BY <1>3, <1>4, FS_Union
  <2> QED BY <1>3, <1>4, <2>1, <2>3
<1> QED BY <1>1, <1>3, <1>4, <1>5 DEF Media, Net, old, out, in

----------------------------------------------------------------------------
(* The calls that a row's triggers make. *)

LEMMA PairOfTwo ==
    ASSUME NEW S, NEW x \in S, NEW y \in S
    PROVE  <<x>> \o <<y>> = <<x, y>>
<1> DEFINE one == <<x>>
           two == <<y>>
           both == <<x, y>>
<1>1. /\ one \in Seq(S) /\ Len(one) = 1 /\ one[1] = x
      /\ two \in Seq(S) /\ Len(two) = 1 /\ two[1] = y
      /\ both \in Seq(S) /\ Len(both) = 2 /\ both[1] = x /\ both[2] = y
  OBVIOUS
<1> HIDE DEF one, two, both
<1>2. /\ one \o two \in Seq(S) /\ Len(one \o two) = 2
      /\ \A i \in 1 .. 2 : (one \o two)[i] = both[i]
  BY <1>1, ConcatProperties
<1>3. one \o two = both
  BY <1>1, <1>2, SeqEqual
<1> QED BY <1>3 DEF one, two, both

LEMMA CallsOwed ==
    ASSUME NEW from \in CategoryIds \cup {NULL}, NEW to \in CategoryIds \cup {NULL}
    PROVE  LET calls == Calls(from, to)
               share(x, c) == IF x # NULL /\ x \in Above(c) THEN 1 ELSE 0
           IN  /\ calls \in Seq(Call) /\ Len(calls) <= 2
               /\ \A c \in CategoryIds : Pending(calls, c) = share(to, c) - share(from, c)
               /\ \A i \in DOMAIN calls : calls[i].delta = -1 =>
                    /\ i = 1 /\ from # NULL
                    /\ \A c \in CategoryIds : Due(calls, 2, c) <= share(to, c)
<1> DEFINE call(x, delta) == [rows |-> CountersOf(x), delta |-> delta]
           share(x, c) == IF x # NULL /\ x \in Above(c) THEN 1 ELSE 0
<1>1. ASSUME NEW x \in CategoryIds, NEW delta \in {-1, 1}
      PROVE  /\ call(x, delta) \in Call /\ call(x, delta).delta = delta
             /\ \A c \in CategoryIds :
                    (IF c \in call(x, delta).rows THEN delta ELSE 0) = delta * share(x, c)
  BY CountersAreAbove, NullIsNoValue DEF Call
<1> HIDE DEF call
<1>2. CASE from = to \/ (from = NULL /\ to = NULL)
  <2>1. Calls(from, to) = <<>>
    BY <1>2 DEF Calls
  <2> QED BY <1>2, <2>1 DEF Pending, Due
<1>3. CASE from = NULL /\ to # NULL
  <2>1. Calls(from, to) = <<call(to, 1)>>
    BY <1>3 DEF Calls, call
  <2> QED BY <1>1, <1>3, <2>1 DEF Pending, Due
<1>4. CASE from # NULL /\ to = NULL
  <2>1. Calls(from, to) = <<call(from, -1)>>
    BY <1>4 DEF Calls, call
  <2> QED BY <1>1, <1>4, <2>1 DEF Pending, Due
<1>5. CASE from # NULL /\ to # NULL /\ from # to
  <2>1. Calls(from, to) = <<call(from, -1)>> \o <<call(to, 1)>>
    BY <1>5 DEF Calls, call
  <2>2. Calls(from, to) = <<call(from, -1), call(to, 1)>>
    BY <1>1, <1>5, <2>1, PairOfTwo
  <2> QED BY <1>1, <1>5, <2>2 DEF Pending, Due
<1> QED BY <1>2, <1>3, <1>4, <1>5

LEMMA AdjustmentsOwed ==
    ASSUME NEW old \in LeafRow \cup {NULL}, NEW new \in LeafRow \cup {NULL}
    PROVE  LET calls == Adjustments(old, new)
           IN  /\ calls \in Seq(Call) /\ Len(calls) <= 2
               /\ \A c \in CategoryIds : Pending(calls, c) = Weight(new, c) - Weight(old, c)
               /\ \A i \in DOMAIN calls : calls[i].delta = -1 =>
                    /\ i = 1 /\ old # NULL
                    /\ \A c \in CategoryIds : Due(calls, 2, c) <= Weight(new, c)
<1> DEFINE as(row) == IF row = NULL THEN NULL ELSE CountedAs(row)
           share(x, c) == IF x # NULL /\ x \in Above(c) THEN 1 ELSE 0
<1>1. ASSUME NEW row \in LeafRow \cup {NULL}
      PROVE  /\ as(row) \in CategoryIds \cup {NULL}
             /\ row = NULL => as(row) = NULL
             /\ \A c \in CategoryIds : share(as(row), c) = Weight(row, c)
  BY RowsAreRecords, NullIsNoValue DEF CountedAs, Weight
<1>2. Adjustments(old, new) = Calls(as(old), as(new))
  BY DEF Adjustments
<1> HIDE DEF as
<1> DEFINE calls == Calls(as(old), as(new))
<1>3. /\ calls \in Seq(Call) /\ Len(calls) <= 2
      /\ \A c \in CategoryIds : Pending(calls, c) = share(as(new), c) - share(as(old), c)
      /\ \A i \in DOMAIN calls : calls[i].delta = -1 =>
            /\ i = 1 /\ as(old) # NULL
            /\ \A c \in CategoryIds : Due(calls, 2, c) <= share(as(new), c)
  BY <1>1, CallsOwed
<1> HIDE DEF share, calls
<1> QED BY <1>1, <1>2, <1>3 DEF calls

(* What has no calls to come owes nothing to any counter. *)
LEMMA NothingPending == \A c : Pending(<<>>, c) = 0
  BY DEF Pending, Due

LEMMA CallsAreSmall ==
    ASSUME NEW calls \in Seq(Call)
    PROVE  /\ DOMAIN calls = 1 .. Len(calls) /\ Len(calls) \in Nat
           /\ \A i \in DOMAIN calls : /\ calls[i].rows \in (SUBSET CategoryIds) \ {{}}
                                      /\ calls[i].delta \in {-1, 1}
           /\ \A i, c : Due(calls, i, c) \in {-1, 0, 1}
           /\ \A c : Pending(calls, c) \in Int
<1>1. DOMAIN calls = 1 .. Len(calls) /\ Len(calls) \in Nat
  BY LenProperties
<1>2. \A i \in DOMAIN calls : calls[i] \in Call
  BY <1>1, ElementOfSeq
<1> QED BY <1>1, <1>2 DEF Call, Due, Pending

----------------------------------------------------------------------------
(* The steps of one transaction, u being t after the step. *)

(* A row of artworks is written: the statement of a transaction of one     *)
(* row, t being Idle, or the script's next INSERT.                         *)
LEMMA WriteRowOwed ==
    ASSUME NEW cats, NEW rows, TablesOK(cats, rows),
           NEW t, TransactionOK(t, cats, rows), t.adjust = <<>>, ~Recounting(t),
           NEW a \in ArtworkIds, a \notin DOMAIN t.artworks,
           NEW old, old = IF a \in DOMAIN rows THEN rows[a] ELSE NULL,
           NEW new \in LeafRow \cup {NULL},
           NEW u, IsRecord(u),
           u.kind \in {"write", "seed", "reset"},
           u.kind = "write" => u.at = 1 /\ t.kind = "none",
           u.kind # "write" => u.kind = t.kind /\ old = NULL,
           u.at \in 1 .. Len(SeedPlan) + 1,
           u.categories = t.categories, u.totals = t.totals, u.raced = t.raced,
           u.artworks = WithRow(t.artworks, a, new),
           u.adjust = Adjustments(old, new)
    PROVE  TransactionOK(u, cats, rows)
<1>1. Len(SeedPlan) \in Nat
  BY PlanAndBound, LenProperties
<1>2. ~Recounting(u) /\ DOMAIN u.totals = {} /\ ~u.raced /\ u.raced \in BOOLEAN
  BY <1>1 DEF Recounting, TransactionOK, PhaseOK
<1>3. old \in LeafRow \cup {NULL}
  BY DEF TablesOK
<1>4. DOMAIN u.artworks = DOMAIN t.artworks \cup {a}
  BY DEF WithRow
<1>5. VersionsOK(u.artworks)
  <2>1. IsFiniteSet(DOMAIN u.artworks)
    BY <1>4, FS_AddElement DEF TransactionOK, VersionsOK
  <2> QED BY <1>4, <2>1 DEF WithRow, TransactionOK, VersionsOK
<1>6. CountersOK(u)
  BY DEF TransactionOK, CountersOK
<1>7. PhaseOK(u, rows)
  <2>1. u.kind = "reset" => /\ DOMAIN u.categories = CategoryIds
                            /\ DOMAIN rows \subseteq DOMAIN u.artworks
    BY <1>4 DEF TransactionOK, PhaseOK
  <2> QED BY <1>1, <1>2, <2>1 DEF PhaseOK
<1> DEFINE calls == Adjustments(old, new)
<1>8. /\ calls \in Seq(Call) /\ Len(calls) <= 2
      /\ \A c \in CategoryIds : Pending(calls, c) = Weight(new, c) - Weight(old, c)
      /\ \A i \in DOMAIN calls : calls[i].delta = -1 =>
            /\ i = 1 /\ old # NULL
            /\ \A c \in CategoryIds : Due(calls, 2, c) <= Weight(new, c)
  BY <1>3, AdjustmentsOwed
<1> HIDE DEF calls
<1>9. ASSUME NEW c \in CategoryIds
      PROVE  /\ Net(u.artworks, rows, c) = Net(t.artworks, rows, c) + Pending(u.adjust, c)
             /\ Weight(new, c) <= Cardinality(Plus(u.artworks, c))
             /\ Net(t.artworks, rows, c) \in Int /\ Pending(u.adjust, c) \in Int
  <2>1. Weight(new, c) \in {0, 1} /\ Weight(old, c) \in {0, 1}
    BY DEF Weight
  <2>2. Net(t.artworks, rows, c) \in Int
    BY PlusMinusFinite DEF Net, TransactionOK, VersionsOK
  <2>3. VersionsOK(t.artworks)
    BY DEF TransactionOK
  <2>4. /\ Net(u.artworks, rows, c) = Net(t.artworks, rows, c) + Weight(new, c) - Weight(old, c)
        /\ Weight(new, c) <= Cardinality(Plus(u.artworks, c))
    BY <2>3, NetOfOneMore
  <2> QED BY <1>8, <2>1, <2>2, <2>4 DEF calls
<1>10. CallsOK(u)
  <2>1. ASSUME NEW c \in CategoryIds, Due(calls, 2, c) <= Weight(new, c)
        PROVE  Due(calls, 2, c) <= Cardinality(Plus(u.artworks, c))
    <3>1. Weight(new, c) \in Nat
      BY DEF Weight
    <3>2. Cardinality(Plus(u.artworks, c)) \in Nat
      BY <1>5, PlusMinusFinite DEF VersionsOK
    <3>3. Due(calls, 2, c) \in Int
      BY <1>8, CallsAreSmall
    <3> QED BY <1>9, <2>1, <3>1, <3>2, <3>3
  <2> QED BY <1>8, <2>1 DEF CallsOK, calls
<1>11. OwedOK(u, cats, rows)
  <2> SUFFICES ASSUME u.kind # "reset", NEW c \in CategoryIds
               PROVE  /\ c \notin DOMAIN u.categories =>
                            Pending(u.adjust, c) = Net(u.artworks, rows, c)
                      /\ c \in DOMAIN u.categories =>
                            Seen(u, cats, c) + Pending(u.adjust, c)
                                = cats[c].artwork_count + Net(u.artworks, rows, c)
    BY DEF OwedOK
  <2>1. t.kind # "reset"
    BY DEF TransactionOK, PhaseOK, Idle, Transaction
  <2>2. /\ c \notin DOMAIN t.categories => Net(t.artworks, rows, c) = 0
        /\ c \in DOMAIN t.categories =>
                Seen(t, cats, c) + 0 = cats[c].artwork_count + Net(t.artworks, rows, c)
    BY <2>1, NothingPending DEF TransactionOK, OwedOK
  <2>3. cats[c].artwork_count \in Nat /\ Seen(t, cats, c) \in Nat /\ Seen(u, cats, c) = Seen(t, cats, c)
    BY DEF Seen, TransactionOK, CountersOK, TablesOK, CategoryRow
  <2> QED BY <1>9, <2>2, <2>3
<1>12. RecountOK(u, cats, rows)
  BY <1>2 DEF RecountOK
<1> QED BY <1>5, <1>6, <1>7, <1>10, <1>11, <1>12 DEF TransactionOK

(* A category's row is locked and written anew, its counter left alone.    *)
LEMMA LockRowOwed ==
    ASSUME NEW cats, NEW rows, TablesOK(cats, rows),
           NEW t, TransactionOK(t, cats, rows), t.adjust = <<>>, ~Recounting(t),
           NEW c \in CategoryIds,
           NEW row, row = IF c \in DOMAIN t.categories THEN t.categories[c] ELSE cats[c],
           NEW u, IsRecord(u),
           u.kind \in {"write", "seed", "reset"},
           u.kind = "write" => u.at = 1 /\ t.kind = "none",
           u.kind # "write" => u.kind = t.kind,
           u.at \in 1 .. Len(SeedPlan) + 1,
           u.categories = WithRow(t.categories, c, row),
           u.artworks = t.artworks, u.adjust = t.adjust, u.totals = t.totals, u.raced = t.raced
    PROVE  TransactionOK(u, cats, rows)
<1>1. Len(SeedPlan) \in Nat
  BY PlanAndBound, LenProperties
<1>2. ~Recounting(u) /\ DOMAIN u.totals = {} /\ ~u.raced /\ u.raced \in BOOLEAN
  BY <1>1 DEF Recounting, TransactionOK, PhaseOK
<1>3. /\ DOMAIN u.categories = DOMAIN t.categories \cup {c}
      /\ \A d \in DOMAIN t.categories : u.categories[d] = t.categories[d]
      /\ u.categories[c] = row
  BY DEF WithRow
<1>4. row \in CategoryRow /\ row.parent_id = Tree[c].parent_id
  BY DEF TransactionOK, CountersOK, TablesOK, RowsOfTree
<1>5. CountersOK(u)
  BY <1>3, <1>4 DEF WithRow, TransactionOK, CountersOK, RowsOfTree
<1>6. PhaseOK(u, rows)
  <2>1. u.kind = "reset" => /\ DOMAIN u.categories = CategoryIds
                            /\ DOMAIN rows \subseteq DOMAIN u.artworks
    BY <1>3 DEF TransactionOK, PhaseOK
  <2> QED BY <1>1, <1>2, <2>1 DEF PhaseOK
<1>7. CallsOK(u)
  BY DEF TransactionOK, CallsOK
<1>8. OwedOK(u, cats, rows)
  <2> SUFFICES ASSUME u.kind # "reset", NEW d \in CategoryIds
               PROVE  /\ d \notin DOMAIN u.categories =>
                            Pending(u.adjust, d) = Net(u.artworks, rows, d)
                      /\ d \in DOMAIN u.categories =>
                            Seen(u, cats, d) + Pending(u.adjust, d)
                                = cats[d].artwork_count + Net(u.artworks, rows, d)
    BY DEF OwedOK
  <2>1. t.kind # "reset"
    BY DEF TransactionOK, PhaseOK, Idle, Transaction
  <2>2. /\ d \notin DOMAIN t.categories => Net(t.artworks, rows, d) = 0
        /\ d \in DOMAIN t.categories =>
                Seen(t, cats, d) + 0 = cats[d].artwork_count + Net(t.artworks, rows, d)
        /\ Pending(u.adjust, d) = 0
    BY <2>1, NothingPending DEF TransactionOK, OwedOK
  <2>3. Seen(u, cats, d) = Seen(t, cats, d)
    BY <1>3 DEF Seen
  <2>4. d \notin DOMAIN t.categories => Seen(t, cats, d) = cats[d].artwork_count
    BY DEF Seen
  <2>5. cats[d].artwork_count \in Nat
    BY DEF TablesOK, CategoryRow
  <2> QED BY <1>3, <2>2, <2>3, <2>4, <2>5
<1>9. RecountOK(u, cats, rows)
  BY <1>2 DEF RecountOK
<1> QED BY <1>5, <1>6, <1>7, <1>8, <1>9 DEF TransactionOK

(* One row of the first of at most two calls is done with: it was the      *)
(* last one, or it was not.                                                *)
SmallCalls(calls) ==
    /\ DOMAIN calls \subseteq {1, 2} /\ 1 \in DOMAIN calls
    /\ \A i \in DOMAIN calls : calls[i].delta \in {-1, 1}

FirstCallDone(calls, c, rest) ==
    /\ calls[1].rows = {c}
    /\ DOMAIN rest \subseteq {1} /\ (1 \in DOMAIN rest <=> 2 \in DOMAIN calls)
    /\ 1 \in DOMAIN rest => rest[1] = calls[2]

FirstCallGoesOn(calls, c, rest) ==
    /\ c \in calls[1].rows
    /\ DOMAIN rest = DOMAIN calls
    /\ rest[1].rows = calls[1].rows \ {c} /\ rest[1].delta = calls[1].delta
    /\ 2 \in DOMAIN calls => rest[2] = calls[2]

FirstCallLoses(calls, c, rest) ==
    /\ SmallCalls(calls)
    /\ FirstCallDone(calls, c, rest) \/ FirstCallGoesOn(calls, c, rest)

LEMMA RowOfFirstCall ==
    ASSUME NEW calls, NEW c, NEW rest, FirstCallLoses(calls, c, rest)
    PROVE  /\ \A d : Pending(rest, d) = Pending(calls, d) - (IF d = c THEN calls[1].delta ELSE 0)
           /\ \A i \in DOMAIN rest :
                \/ 2 \in DOMAIN calls /\ rest[i].delta = calls[2].delta
                \/ /\ i = 1 /\ rest[i].delta = calls[1].delta
                   /\ \A d : Due(rest, 2, d) = Due(calls, 2, d)
<1>1. ASSUME NEW d
      PROVE  /\ Due(calls, 1, d) \in Int /\ Due(calls, 2, d) \in Int /\ calls[1].delta \in Int
  BY DEF Due, SmallCalls, FirstCallLoses
<1>2. CASE FirstCallDone(calls, c, rest)
  <2>1. ASSUME NEW d
        PROVE  /\ Due(rest, 1, d) = Due(calls, 2, d) /\ Due(rest, 2, d) = 0
               /\ Due(calls, 1, d) = IF d = c THEN calls[1].delta ELSE 0
    BY <1>2 DEF Due, SmallCalls, FirstCallDone, FirstCallLoses
  <2>2. \A d : Pending(rest, d) = Pending(calls, d) - (IF d = c THEN calls[1].delta ELSE 0)
    BY <1>1, <2>1 DEF Pending
  <2> QED BY <1>2, <2>2 DEF FirstCallDone
<1>3. CASE FirstCallGoesOn(calls, c, rest)
  <2>1. ASSUME NEW d
        PROVE  /\ Due(rest, 2, d) = Due(calls, 2, d)
               /\ Due(rest, 1, d) = Due(calls, 1, d) - (IF d = c THEN calls[1].delta ELSE 0)
    BY <1>3 DEF Due, SmallCalls, FirstCallGoesOn, FirstCallLoses
  <2>2. \A d : Pending(rest, d) = Pending(calls, d) - (IF d = c THEN calls[1].delta ELSE 0)
    BY <1>1, <2>1 DEF Pending
  <2> QED BY <1>3, <2>1, <2>2 DEF FirstCallGoesOn, FirstCallLoses, SmallCalls
<1> QED BY <1>2, <1>3 DEF FirstCallLoses

LEMMA TailOfCalls ==
    ASSUME NEW calls \in Seq(Call), calls # <<>>, Len(calls) <= 2
    PROVE  /\ DOMAIN calls \subseteq {1, 2} /\ 1 \in DOMAIN calls
           /\ 2 \in DOMAIN calls <=> Len(calls) = 2
           /\ Len(calls) \in {1, 2}
           /\ Head(calls) = calls[1] /\ calls[1] \in Call
           /\ \A i \in DOMAIN calls : calls[i].delta \in {-1, 1}
           /\ Tail(calls) \in Seq(Call) /\ Len(Tail(calls)) = Len(calls) - 1
           /\ DOMAIN Tail(calls) \subseteq {1}
           /\ 1 \in DOMAIN Tail(calls) <=> 2 \in DOMAIN calls
           /\ 1 \in DOMAIN Tail(calls) => Tail(calls)[1] = calls[2]
<1>1. /\ Len(calls) \in Nat /\ DOMAIN calls = 1 .. Len(calls)
      /\ \A i \in DOMAIN calls : calls[i].delta \in {-1, 1}
  BY CallsAreSmall
<1>2. Len(calls) \in {1, 2}
  BY <1>1, EmptySeq
<1>3. /\ Tail(calls) \in Seq(Call) /\ Len(Tail(calls)) = Len(calls) - 1
      /\ \A i \in 1 .. Len(Tail(calls)) : Tail(calls)[i] = calls[i + 1]
  BY HeadTailProperties
<1>4. DOMAIN Tail(calls) = 1 .. Len(Tail(calls))
  BY <1>3, CallsAreSmall
<1>5. calls[1] \in Call
  BY <1>1, <1>2, ElementOfSeq
<1> QED BY <1>1, <1>2, <1>3, <1>4, <1>5

LEMMA FirstCallReplaced ==
    ASSUME NEW calls \in Seq(Call), NEW i \in 1 .. Len(calls), NEW first \in Call
    PROVE  /\ [calls EXCEPT ![i] = first] \in Seq(Call)
           /\ Len([calls EXCEPT ![i] = first]) = Len(calls)
  BY ExceptSeq

RestOfCalls(calls, c) ==
    LET left == Head(calls).rows \ {c}
    IN  IF left = {} THEN Tail(calls) ELSE [calls EXCEPT ![1].rows = left]

LEMMA FirstCallShrinks ==
    ASSUME NEW calls, calls \in Seq(Call), calls # <<>>, Len(calls) <= 2,
           NEW c, c \in Head(calls).rows
    PROVE  /\ RestOfCalls(calls, c) \in Seq(Call) /\ Len(RestOfCalls(calls, c)) <= 2
           /\ SmallCalls(calls) /\ calls[1] = Head(calls)
           /\ FirstCallLoses(calls, c, RestOfCalls(calls, c))
<1> DEFINE tail == Tail(calls)
           first == [calls[1] EXCEPT !.rows = calls[1].rows \ {c}]
           rest == RestOfCalls(calls, c)
<1>1. /\ DOMAIN calls \subseteq {1, 2} /\ 1 \in DOMAIN calls
      /\ 2 \in DOMAIN calls <=> Len(calls) = 2
      /\ Len(calls) \in {1, 2}
      /\ Head(calls) = calls[1] /\ calls[1] \in Call
      /\ \A i \in DOMAIN calls : calls[i].delta \in {-1, 1}
      /\ tail \in Seq(Call) /\ Len(tail) = Len(calls) - 1
      /\ DOMAIN tail \subseteq {1}
      /\ 1 \in DOMAIN tail <=> 2 \in DOMAIN calls
      /\ 1 \in DOMAIN tail => tail[1] = calls[2]
  BY TailOfCalls
<1>2. c \in calls[1].rows /\ SmallCalls(calls)
  BY <1>1 DEF SmallCalls
<1>3. rest = IF calls[1].rows \ {c} = {} THEN tail ELSE [calls EXCEPT ![1] = first]
  BY <1>1 DEF RestOfCalls
<1>4. CASE calls[1].rows \ {c} = {}
  <2>1. calls[1].rows = {c} /\ rest = tail
    BY <1>2, <1>3, <1>4
  <2> HIDE DEF tail, rest
  <2>2. FirstCallDone(calls, c, tail)
    BY <1>1, <2>1 DEF FirstCallDone
  <2>3. Len(tail) <= 2
    BY <1>1
  <2>4. rest \in Seq(Call) /\ Len(rest) <= 2 /\ FirstCallLoses(calls, c, rest)
    BY <1>1, <1>2, <2>1, <2>2, <2>3 DEF FirstCallLoses
  <2> QED BY <1>1, <1>2, <2>4 DEF rest
<1>5. CASE calls[1].rows \ {c} # {}
  <2>1. first \in Call /\ first.rows = calls[1].rows \ {c} /\ first.delta = calls[1].delta
    BY <1>1, <1>5 DEF Call
  <2>2. rest = [calls EXCEPT ![1] = first]
    BY <1>3, <1>5
  <2> HIDE DEF first, tail, rest
  <2>3. 1 \in 1 .. Len(calls)
    BY <1>1
  <2>4. rest \in Seq(Call) /\ Len(rest) = Len(calls)
    BY <2>1, <2>2, <2>3, FirstCallReplaced
  <2>5. DOMAIN rest = DOMAIN calls /\ rest[1] = first /\ (2 \in DOMAIN calls => rest[2] = calls[2])
    BY <1>1, <2>2
  <2>6. FirstCallGoesOn(calls, c, rest)
    BY <1>2, <2>1, <2>5 DEF FirstCallGoesOn
  <2>7. rest \in Seq(Call) /\ Len(rest) <= 2 /\ FirstCallLoses(calls, c, rest)
    BY <1>1, <1>2, <2>4, <2>6 DEF FirstCallLoses
  <2> QED BY <1>1, <1>2, <2>7 DEF rest
<1> QED BY <1>4, <1>5

(* adjust_artwork_count comes to one of its rows. *)
LEMMA AdjustRowOwed ==
    ASSUME NEW cats, NEW rows, TablesOK(cats, rows),
           NEW t, TransactionOK(t, cats, rows), t.adjust # <<>>,
           NEW c \in CategoryIds, c \in Head(t.adjust).rows,
           NEW seen, seen = IF c \in DOMAIN t.categories THEN t.categories[c] ELSE cats[c],
           NEW row, row = [seen EXCEPT !.artwork_count = @ + Head(t.adjust).delta],
           row.artwork_count >= 0,
           NEW u, IsRecord(u), u.kind = t.kind, u.at = t.at,
           u.categories = WithRow(t.categories, c, row),
           u.artworks = t.artworks, u.totals = t.totals, u.raced = t.raced,
           u.adjust = RestOfCalls(t.adjust, c)
    PROVE  TransactionOK(u, cats, rows)
<1> DEFINE delta == Head(t.adjust).delta
<1>0. /\ t.adjust \in Seq(Call) /\ Len(t.adjust) <= 2
      /\ u.adjust \in Seq(Call) /\ Len(u.adjust) <= 2
      /\ SmallCalls(t.adjust) /\ t.adjust[1] = Head(t.adjust)
      /\ FirstCallLoses(t.adjust, c, u.adjust)
  BY FirstCallShrinks DEF TransactionOK, CallsOK
<1>1. /\ delta \in {-1, 1}
      /\ 1 \in DOMAIN t.adjust /\ t.adjust[1].delta = delta
      /\ \A d : Pending(u.adjust, d) = Pending(t.adjust, d) - (IF d = c THEN delta ELSE 0)
      /\ \A i \in DOMAIN u.adjust :
            \/ 2 \in DOMAIN t.adjust /\ u.adjust[i].delta = t.adjust[2].delta
            \/ /\ i = 1 /\ u.adjust[i].delta = delta
               /\ \A d : Due(u.adjust, 2, d) = Due(t.adjust, 2, d)
  <2>1. 1 \in DOMAIN t.adjust /\ t.adjust[1].delta \in {-1, 1} /\ t.adjust[1].delta = delta
    BY <1>0 DEF SmallCalls
  <2>2. /\ \A d : Pending(u.adjust, d) =
                Pending(t.adjust, d) - (IF d = c THEN t.adjust[1].delta ELSE 0)
        /\ \A i \in DOMAIN u.adjust :
            \/ 2 \in DOMAIN t.adjust /\ u.adjust[i].delta = t.adjust[2].delta
            \/ /\ i = 1 /\ u.adjust[i].delta = t.adjust[1].delta
               /\ \A d : Due(u.adjust, 2, d) = Due(t.adjust, 2, d)
    BY <1>0, RowOfFirstCall
  <2> QED BY <2>1, <2>2
<1> HIDE DEF delta
<1>2. ~Recounting(t) /\ ~Recounting(u) /\ t.kind # "none"
  BY EmptySeq DEF TransactionOK, PhaseOK, Recounting, Idle, Transaction
<1>3. /\ DOMAIN u.categories = DOMAIN t.categories \cup {c}
      /\ \A d \in DOMAIN t.categories \ {c} : u.categories[d] = t.categories[d]
      /\ u.categories[c] = row
  BY DEF WithRow
<1>4. seen \in CategoryRow /\ seen.parent_id = Tree[c].parent_id
      /\ seen.artwork_count = Seen(t, cats, c)
  BY DEF TransactionOK, CountersOK, TablesOK, RowsOfTree, Seen
<1>5. row \in CategoryRow /\ row.parent_id = Tree[c].parent_id
      /\ row.artwork_count = Seen(t, cats, c) + delta
  BY <1>1, <1>4 DEF delta, CategoryRow
<1>6. CountersOK(u)
  BY <1>3, <1>5 DEF WithRow, TransactionOK, CountersOK, RowsOfTree
<1>7. PhaseOK(u, rows)
  <2>1. u.kind = "reset" => /\ DOMAIN u.categories = CategoryIds
                            /\ DOMAIN rows \subseteq DOMAIN u.artworks
    BY <1>3 DEF TransactionOK, PhaseOK
  <2> QED BY <1>2, <2>1 DEF TransactionOK, PhaseOK
<1>9. CallsOK(u)
  <2>1. \A i \in DOMAIN t.adjust : t.adjust[i].delta = -1 =>
            /\ i = 1 /\ t.kind = "write"
            /\ \A d \in CategoryIds : Due(t.adjust, 2, d) <= Cardinality(Plus(t.artworks, d))
    BY DEF TransactionOK, CallsOK
  <2>2. \A i \in DOMAIN u.adjust : u.adjust[i].delta = -1 =>
            /\ i = 1 /\ u.kind = "write"
            /\ \A d \in CategoryIds : Due(u.adjust, 2, d) <= Cardinality(Plus(u.artworks, d))
    <3> TAKE i \in DOMAIN u.adjust
    <3> HAVE u.adjust[i].delta = -1
    <3>1. ~(2 \in DOMAIN t.adjust /\ u.adjust[i].delta = t.adjust[2].delta)
      BY <2>1
    <3>2. i = 1 /\ t.adjust[1].delta = -1 /\ \A d : Due(u.adjust, 2, d) = Due(t.adjust, 2, d)
      BY <1>1, <3>1
    <3> QED BY <1>1, <2>1, <3>2
  <2> QED BY <1>0, <2>2 DEF CallsOK
<1>10. OwedOK(u, cats, rows)
  <2> SUFFICES ASSUME u.kind # "reset", NEW d \in CategoryIds
               PROVE  /\ d \notin DOMAIN u.categories =>
                            Pending(u.adjust, d) = Net(u.artworks, rows, d)
                      /\ d \in DOMAIN u.categories =>
                            Seen(u, cats, d) + Pending(u.adjust, d)
                                = cats[d].artwork_count + Net(u.artworks, rows, d)
    BY DEF OwedOK
  <2>1. /\ d \notin DOMAIN t.categories => Pending(t.adjust, d) = Net(t.artworks, rows, d)
        /\ d \in DOMAIN t.categories =>
                Seen(t, cats, d) + Pending(t.adjust, d)
                    = cats[d].artwork_count + Net(t.artworks, rows, d)
    BY <1>2 DEF TransactionOK, OwedOK
  <2>2. /\ d = c => Seen(u, cats, d) = Seen(t, cats, d) + delta
        /\ d # c => Seen(u, cats, d) = Seen(t, cats, d)
        /\ d \notin DOMAIN t.categories => Seen(t, cats, d) = cats[d].artwork_count
    BY <1>3, <1>5 DEF Seen
  <2>3. /\ cats[d].artwork_count \in Nat /\ Seen(t, cats, d) \in Nat
        /\ Pending(t.adjust, d) \in Int /\ delta \in Int
        /\ Net(t.artworks, rows, d) \in Int
    <3>1. cats[d].artwork_count \in Nat /\ Seen(t, cats, d) \in Nat
      BY DEF Seen, TransactionOK, CountersOK, TablesOK, CategoryRow
    <3>2. Pending(t.adjust, d) \in Int /\ delta \in Int
      BY <1>0, <1>1, CallsAreSmall
    <3>3. Net(t.artworks, rows, d) \in Int
      BY PlusMinusFinite DEF Net, TransactionOK, VersionsOK
    <3> QED BY <3>1, <3>2, <3>3
  <2>4. Pending(u.adjust, d) = Pending(t.adjust, d) - (IF d = c THEN delta ELSE 0)
    BY <1>1
  <2>5. d \in DOMAIN u.categories <=> d \in DOMAIN t.categories \/ d = c
    BY <1>3
  <2> QED BY <2>1, <2>2, <2>3, <2>4, <2>5
<1>11. RecountOK(u, cats, rows)
  BY <1>2 DEF RecountOK
<1> QED BY <1>6, <1>7, <1>9, <1>10, <1>11 DEF TransactionOK

(* A recount takes its snapshot: in totals is what it has to correct.      *)
LEMMA SnapshotOwed ==
    ASSUME NEW cats, NEW rows, TablesOK(cats, rows),
           NEW t, TransactionOK(t, cats, rows), t.adjust = <<>>, ~Recounting(t),
           NEW u, IsRecord(u),
           u.kind \in {"recount", "seed", "reset"},
           u.kind = "recount" => u.at = 1 /\ t.kind = "none",
           u.kind # "recount" => u.at = Len(SeedPlan) + 2 /\ u.kind = t.kind,
           u.categories = t.categories, u.artworks = t.artworks,
           u.adjust = t.adjust, u.raced = t.raced,
           u.totals = [c \in {d \in CategoryIds :
                                Seen(t, cats, d) # Media(Merged(t.artworks, rows), d)}
                            |-> Media(Merged(t.artworks, rows), c)]
    PROVE  TransactionOK(u, cats, rows)
<1> DEFINE total(c) == Media(Merged(t.artworks, rows), c)
<1>1. Len(SeedPlan) \in Nat
  BY PlanAndBound, LenProperties
<1>2. Recounting(u) /\ ~u.raced /\ u.raced \in BOOLEAN
  BY DEF Recounting, TransactionOK, PhaseOK
<1>3. ASSUME NEW c \in CategoryIds
      PROVE  total(c) \in Nat /\ total(c) = Media(rows, c) + Net(t.artworks, rows, c)
  <2>1. VersionsOK(t.artworks)
    BY DEF TransactionOK
  <2>2. IsFiniteSet(DOMAIN Merged(t.artworks, rows))
    BY <2>1, MergedRows DEF TablesOK
  <2> QED BY <2>1, <2>2, MediaOfMerged, MediaFinite
<1> HIDE DEF total
<1>4. u.totals = [c \in {d \in CategoryIds : Seen(t, cats, d) # total(d)} |-> total(c)]
  BY DEF total
<1>5. VersionsOK(u.artworks)
  BY DEF TransactionOK
<1>6. CountersOK(u)
  <2>1. u.totals \in [DOMAIN u.totals -> Nat] /\ DOMAIN u.totals \subseteq CategoryIds
    BY <1>3, <1>4
  <2> QED BY <2>1 DEF TransactionOK, CountersOK
<1>7. PhaseOK(u, rows)
  <2>1. u.kind = "reset" => /\ DOMAIN u.categories = CategoryIds
                            /\ DOMAIN rows \subseteq DOMAIN u.artworks
    BY DEF TransactionOK, PhaseOK
  <2> QED BY <1>1, <1>2, <2>1 DEF PhaseOK
<1>8. CallsOK(u)
  BY DEF TransactionOK, CallsOK
<1>9. OwedOK(u, cats, rows)
  <2>1. u.kind # "reset" => t.kind # "reset"
    BY DEF TransactionOK, PhaseOK, Idle, Transaction
  <2> QED BY <1>2, <2>1 DEF TransactionOK, OwedOK
<1>10. RecountOK(u, cats, rows)
  <2>1. \A c \in CategoryIds : Seen(u, cats, c) = Seen(t, cats, c)
    BY DEF Seen
  <2> QED BY <1>3, <1>4, <2>1 DEF RecountOK
<1> QED BY <1>5, <1>6, <1>7, <1>8, <1>9, <1>10 DEF TransactionOK

(* It comes to one of the rows that it has to correct. *)
LEMMA RecountRowOwed ==
    ASSUME NEW cats, NEW rows, TablesOK(cats, rows),
           NEW t, TransactionOK(t, cats, rows),
           NEW c \in DOMAIN t.totals,
           NEW seen, seen = IF c \in DOMAIN t.categories THEN t.categories[c] ELSE cats[c],
           NEW row, row = [seen EXCEPT !.artwork_count = t.totals[c]],
           NEW u, IsRecord(u), u.kind = t.kind, u.at = t.at,
           u.categories = WithRow(t.categories, c, row),
           u.artworks = t.artworks, u.adjust = t.adjust, u.raced = t.raced,
           u.totals = Restrict(t.totals, DOMAIN t.totals \ {c})
    PROVE  TransactionOK(u, cats, rows)
<1>1. c \in CategoryIds /\ t.totals[c] \in Nat /\ Recounting(t) /\ Recounting(u)
  BY DEF TransactionOK, CountersOK, PhaseOK, Recounting
<1>2. /\ DOMAIN u.categories = DOMAIN t.categories \cup {c}
      /\ \A d \in DOMAIN t.categories \ {c} : u.categories[d] = t.categories[d]
      /\ u.categories[c] = row
  BY DEF WithRow
<1>3. seen \in CategoryRow /\ seen.parent_id = Tree[c].parent_id
  BY <1>1 DEF TransactionOK, CountersOK, TablesOK, RowsOfTree
<1>4. row \in CategoryRow /\ row.parent_id = Tree[c].parent_id /\ row.artwork_count = t.totals[c]
  BY <1>1, <1>3 DEF CategoryRow
<1>5. /\ DOMAIN u.totals = DOMAIN t.totals \ {c}
      /\ \A d \in DOMAIN u.totals : u.totals[d] = t.totals[d]
      /\ u.totals \in [DOMAIN u.totals -> Nat]
  BY DEF Restrict, TransactionOK, CountersOK
<1>6. CountersOK(u)
  <2>1. u.categories \in [DOMAIN u.categories -> CategoryRow] /\ RowsOfTree(u.categories)
    BY <1>2, <1>4 DEF WithRow, TransactionOK, CountersOK, RowsOfTree
  <2> QED BY <1>1, <1>2, <1>5, <2>1 DEF TransactionOK, CountersOK
<1>7. PhaseOK(u, rows)
  <2>1. t.kind # "none"
    BY DEF TransactionOK, PhaseOK, Idle, Transaction, Nothing
  <2>2. u.kind = "reset" => /\ DOMAIN u.categories = CategoryIds
                            /\ DOMAIN rows \subseteq DOMAIN u.artworks
    BY <1>1, <1>2 DEF TransactionOK, PhaseOK
  <2> QED BY <1>1, <2>1, <2>2 DEF TransactionOK, PhaseOK
<1>8. CallsOK(u)
  BY DEF TransactionOK, CallsOK
<1>9. OwedOK(u, cats, rows)
  BY <1>1, <1>2 DEF TransactionOK, OwedOK
<1>10. RecountOK(u, cats, rows)
  <2> SUFFICES ASSUME ~u.raced, NEW d \in CategoryIds
               PROVE  (IF d \in DOMAIN u.totals THEN u.totals[d] ELSE Seen(u, cats, d))
                        = Media(rows, d) + Net(u.artworks, rows, d)
    BY DEF RecountOK
  <2>1. (IF d \in DOMAIN t.totals THEN t.totals[d] ELSE Seen(t, cats, d))
            = Media(rows, d) + Net(t.artworks, rows, d)
    BY <1>1 DEF TransactionOK, RecountOK
  <2>2. Seen(u, cats, d) = IF d = c THEN t.totals[c] ELSE Seen(t, cats, d)
    BY <1>2, <1>4 DEF Seen
  <2> QED BY <1>5, <2>1, <2>2
<1> QED BY <1>6, <1>7, <1>8, <1>9, <1>10 DEF TransactionOK

(* What a transaction has put off is nothing before its first statement.   *)
LEMMA IdleOwesNothing ==
    ASSUME NEW cats, NEW rows, TablesOK(cats, rows)
    PROVE  TransactionOK(Idle, cats, rows) /\ ~Recounting(Idle)
<1>1. Len(SeedPlan) \in Nat
  BY PlanAndBound, LenProperties
<1>2. /\ Idle.kind = "none" /\ DOMAIN Idle.categories = {} /\ DOMAIN Idle.artworks = {}
      /\ Idle.adjust = <<>> /\ DOMAIN Idle.totals = {} /\ Idle.at = 1 /\ Idle.raced = FALSE
      /\ ~Idle.raced /\ Idle.raced \in BOOLEAN
      /\ IsRecord(Idle)
      /\ Idle.categories = Nothing /\ Idle.artworks = Nothing /\ Idle.totals = Nothing
  BY DEF Idle, Transaction, Nothing, IsRecord
<1>3. ~Recounting(Idle)
  BY <1>1, <1>2 DEF Recounting
<1>4. VersionsOK(Idle.artworks)
  BY <1>2, FS_EmptySet DEF VersionsOK, Nothing
<1>5. CountersOK(Idle)
  BY <1>2 DEF CountersOK, RowsOfTree, Nothing
<1>6. PhaseOK(Idle, rows)
  BY <1>1, <1>2, <1>3 DEF PhaseOK
<1>7. CallsOK(Idle)
  <2>1. <<>> \in Seq(Call) /\ Len(<<>>) = 0 /\ DOMAIN <<>> = {}
    BY EmptySeq
  <2> QED BY <1>2, <2>1 DEF CallsOK
<1>8. \A c \in CategoryIds : Pending(Idle.adjust, c) = Net(Idle.artworks, rows, c)
  BY <1>2, NothingPending, NetOfNothing
<1> QED BY <1>2, <1>3, <1>4, <1>5, <1>6, <1>7, <1>8 DEF TransactionOK, OwedOK, RecountOK

(* TRUNCATE, and the categories are back. *)
LEMMA ResetOwed ==
    ASSUME NEW cats, NEW rows, TablesOK(cats, rows),
           NEW u, IsRecord(u), u.kind = "reset",
           u.categories = Tree, u.artworks = [a \in DOMAIN rows |-> NULL],
           u.adjust = <<>>, u.totals = Nothing, u.at = 1, u.raced = FALSE
    PROVE  TransactionOK(u, cats, rows)
<1>1. Len(SeedPlan) \in Nat
  BY PlanAndBound, LenProperties
<1>0. ~u.raced /\ u.raced \in BOOLEAN
  OBVIOUS
<1>2. ~Recounting(u) /\ DOMAIN u.totals = {} /\ DOMAIN u.categories = CategoryIds
  BY <1>1, TreeIsOneLevel DEF Recounting, Nothing
<1>3. VersionsOK(u.artworks)
  BY DEF VersionsOK, TablesOK
<1>4. CountersOK(u)
  BY <1>2, TreeIsOneLevel DEF CountersOK, RowsOfTree, Nothing
<1>5. PhaseOK(u, rows)
  BY <1>0, <1>1, <1>2 DEF PhaseOK
<1>6. CallsOK(u)
  <2>1. <<>> \in Seq(Call) /\ Len(<<>>) = 0 /\ DOMAIN <<>> = {}
    BY EmptySeq
  <2> QED BY <2>1 DEF CallsOK
<1> QED BY <1>2, <1>3, <1>4, <1>5, <1>6 DEF TransactionOK, OwedOK, RecountOK

----------------------------------------------------------------------------
(* A commit, of transaction v, and another transaction t that is open.     *)

(* v is at the end of its last statement. *)
Finished(v) ==
    /\ v.kind # "none" /\ v.adjust = <<>> /\ DOMAIN v.totals = {}
    /\ v.kind # "write" => Recounting(v)

LEMMA CommittedTables ==
    ASSUME NEW cats, NEW rows, TablesOK(cats, rows),
           NEW v, TransactionOK(v, cats, rows)
    PROVE  /\ TablesOK(Over(v.categories, cats), Merged(v.artworks, rows))
           /\ \A c \in CategoryIds : Over(v.categories, cats)[c].artwork_count = Seen(v, cats, c)
<1> DEFINE cats2 == Over(v.categories, cats)
           rows2 == Merged(v.artworks, rows)
<1>1. /\ DOMAIN v.categories \subseteq CategoryIds
      /\ cats2 = [c \in CategoryIds |-> IF c \in DOMAIN v.categories THEN v.categories[c]
                                                                     ELSE cats[c]]
  BY DEF Over, TransactionOK, CountersOK, TablesOK
<1>2. cats2 \in [CategoryIds -> CategoryRow] /\ RowsOfTree(cats2)
  BY <1>1 DEF TransactionOK, CountersOK, TablesOK, RowsOfTree
<1>3. TablesOK(cats, rows2)
  BY MergedRows DEF TransactionOK
<1>4. \A c \in CategoryIds : cats2[c].artwork_count = Seen(v, cats, c)
  BY <1>1 DEF Seen
<1> HIDE DEF cats2, rows2
<1>5. TablesOK(cats2, rows2)
  BY <1>2, <1>3 DEF TablesOK
<1> QED BY <1>4, <1>5 DEF cats2, rows2

(* What v has put into a counter is what its rows change, unless it has    *)
(* recounted and was raced.                                                *)
LEMMA CommittedCounter ==
    ASSUME NEW cats, NEW rows, TablesOK(cats, rows),
           NEW v, TransactionOK(v, cats, rows), Finished(v), v.kind # "reset",
           NEW c \in CategoryIds
    PROVE  /\ c \notin DOMAIN v.categories => Net(v.artworks, rows, c) = 0
           /\ ~Recounting(v) => Seen(v, cats, c) = cats[c].artwork_count + Net(v.artworks, rows, c)
<1>1. Pending(v.adjust, c) = 0
  BY NothingPending DEF Finished
<1>2. Seen(v, cats, c) \in Nat /\ cats[c].artwork_count \in Nat
  BY DEF Seen, TransactionOK, CountersOK, TablesOK, CategoryRow
<1>3. c \notin DOMAIN v.categories => Seen(v, cats, c) = cats[c].artwork_count
  BY DEF Seen
<1>4. Net(v.artworks, rows, c) \in Int
  BY PlusMinusFinite DEF Net, TransactionOK, VersionsOK
<1>5. /\ c \notin DOMAIN v.categories => Pending(v.adjust, c) = Net(v.artworks, rows, c)
      /\ c \in DOMAIN v.categories /\ ~Recounting(v) =>
            Seen(v, cats, c) + Pending(v.adjust, c)
                = cats[c].artwork_count + Net(v.artworks, rows, c)
  BY DEF TransactionOK, OwedOK
<1> QED BY <1>1, <1>2, <1>3, <1>4, <1>5

LEMMA CommittedRecount ==
    ASSUME NEW cats, NEW rows,
           NEW v, TransactionOK(v, cats, rows), Finished(v), Recounting(v), ~v.raced,
           NEW c \in CategoryIds
    PROVE  Seen(v, cats, c) = Media(rows, c) + Net(v.artworks, rows, c)
  BY DEF TransactionOK, RecountOK, Finished

(* The commit of v leaves alone what t owes. *)
LEMMA OthersOweTheSame ==
    ASSUME NEW cats, NEW rows, TablesOK(cats, rows),
           NEW v, TransactionOK(v, cats, rows),
           NEW t, TransactionOK(t, cats, rows), Apart(t, v), NEW c
    PROVE  Net(t.artworks, Merged(v.artworks, rows), c) = Net(t.artworks, rows, c)
<1>1. VersionsOK(v.artworks) /\ DOMAIN t.artworks \cap DOMAIN v.artworks = {}
  BY DEF TransactionOK, Apart
<1> DEFINE rows2 == Merged(v.artworks, rows)
<1>2. /\ DOMAIN rows2 = {a \in DOMAIN v.artworks : v.artworks[a] # NULL}
                            \cup (DOMAIN rows \ DOMAIN v.artworks)
      /\ \A a \in DOMAIN rows2 : rows2[a] =
            IF a \in DOMAIN v.artworks THEN v.artworks[a] ELSE rows[a]
  BY <1>1, MergedRows
<1> HIDE DEF rows2
<1>3. \A a \in DOMAIN t.artworks : /\ a \in DOMAIN rows2 <=> a \in DOMAIN rows
                                   /\ a \in DOMAIN rows => rows2[a] = rows[a]
  BY <1>1, <1>2
<1>4. Minus(t.artworks, rows2, c) = Minus(t.artworks, rows, c)
  BY <1>3 DEF Minus
<1> QED BY <1>4 DEF Net, rows2

LEMMA OthersStayOK ==
    ASSUME NEW cats, NEW rows, TablesOK(cats, rows),
           NEW v, TransactionOK(v, cats, rows), Finished(v),
           NEW t, TransactionOK(t, cats, rows), Apart(t, v), t.kind # "none",
           NEW u, IsRecord(u), u.kind = t.kind, u.at = t.at,
           u.categories = t.categories, u.artworks = t.artworks,
           u.adjust = t.adjust, u.totals = t.totals,
           u.raced \in BOOLEAN,
           u.raced => t.raced \/ Recounting(t),
           Recounting(t) /\ ~u.raced =>
                ~t.raced /\ ~v.raced /\ DOMAIN v.categories \cap DOMAIN t.totals = {}
    PROVE  TransactionOK(u, Over(v.categories, cats), Merged(v.artworks, rows))
<1> DEFINE cats2 == Over(v.categories, cats)
           rows2 == Merged(v.artworks, rows)
<1>1. /\ v.kind # "none" /\ v.kind # "reset" /\ t.kind # "reset"
      /\ DOMAIN t.categories \cap DOMAIN v.categories = {}
  BY DEF Apart, Finished
<1>2. (Recounting(u) <=> Recounting(t)) /\ (Recounting(t) => t.adjust = <<>>)
  BY DEF Recounting, TransactionOK, PhaseOK
<1>3. TablesOK(cats2, rows2)
      /\ \A c \in CategoryIds : cats2[c].artwork_count = Seen(v, cats, c)
  BY CommittedTables
<1> HIDE DEF cats2
<1>4. \A c : Net(u.artworks, rows2, c) = Net(t.artworks, rows, c)
  BY OthersOweTheSame
<1>5. \A c \in CategoryIds : Media(rows2, c) = Media(rows, c) + Net(v.artworks, rows, c)
  BY MediaOfMerged DEF TransactionOK
<1> HIDE DEF rows2
<1>6. VersionsOK(u.artworks) /\ CountersOK(u) /\ CallsOK(u)
  BY DEF TransactionOK, CountersOK, CallsOK
<1>7. PhaseOK(u, rows2)
  <2>1. ~Recounting(u) => DOMAIN u.totals = {} /\ ~u.raced
    BY <1>2 DEF TransactionOK, PhaseOK
  <2> QED BY <1>1, <1>2, <2>1 DEF TransactionOK, PhaseOK
<1>8. ASSUME NEW c \in CategoryIds
      PROVE  /\ c \in DOMAIN t.categories => /\ Seen(u, cats2, c) = Seen(t, cats, c)
                                             /\ Seen(v, cats, c) = cats[c].artwork_count
                                             /\ Net(v.artworks, rows, c) = 0
             /\ c \notin DOMAIN t.categories => /\ Seen(u, cats2, c) = Seen(v, cats, c)
                                                /\ Seen(t, cats, c) = cats[c].artwork_count
             /\ c \notin DOMAIN v.categories => /\ Seen(v, cats, c) = cats[c].artwork_count
                                                /\ Net(v.artworks, rows, c) = 0
  <2>1. c \notin DOMAIN v.categories => Net(v.artworks, rows, c) = 0
    BY <1>1, CommittedCounter
  <2> QED BY <1>1, <1>3, <2>1 DEF Seen
<1>9. OwedOK(u, cats2, rows2)
  <2> SUFFICES ASSUME NEW c \in CategoryIds
               PROVE  /\ c \notin DOMAIN u.categories =>
                            Pending(u.adjust, c) = Net(u.artworks, rows2, c)
                      /\ c \in DOMAIN u.categories /\ ~Recounting(u) =>
                            Seen(u, cats2, c) + Pending(u.adjust, c)
                                = cats2[c].artwork_count + Net(u.artworks, rows2, c)
    BY DEF OwedOK
  <2>1. /\ c \notin DOMAIN t.categories => Pending(t.adjust, c) = Net(t.artworks, rows, c)
        /\ c \in DOMAIN t.categories /\ ~Recounting(t) =>
                Seen(t, cats, c) + Pending(t.adjust, c)
                    = cats[c].artwork_count + Net(t.artworks, rows, c)
    BY <1>1 DEF TransactionOK, OwedOK
  <2>2. c \in DOMAIN t.categories => cats2[c].artwork_count = cats[c].artwork_count
    BY <1>3, <1>8
  <2> QED BY <1>2, <1>4, <1>8, <2>1, <2>2
<1>10. RecountOK(u, cats2, rows2)
  <2> SUFFICES ASSUME Recounting(t), ~u.raced, NEW c \in CategoryIds
               PROVE  (IF c \in DOMAIN u.totals THEN u.totals[c] ELSE Seen(u, cats2, c))
                        = Media(rows2, c) + Net(u.artworks, rows2, c)
    BY <1>2 DEF RecountOK
  <2>1. ~t.raced /\ ~v.raced /\ DOMAIN v.categories \cap DOMAIN t.totals = {}
    OBVIOUS
  <2>2. (IF c \in DOMAIN t.totals THEN t.totals[c] ELSE Seen(t, cats, c))
            = Media(rows, c) + Net(t.artworks, rows, c)
    BY <2>1 DEF TransactionOK, RecountOK
  <2>3. /\ Net(t.artworks, rows, c) \in Int /\ Net(v.artworks, rows, c) \in Int
        /\ Media(rows, c) \in Nat
        /\ cats[c].artwork_count \in Nat /\ Seen(v, cats, c) \in Nat
    <3>1. Net(t.artworks, rows, c) \in Int /\ Net(v.artworks, rows, c) \in Int
      BY PlusMinusFinite DEF Net, TransactionOK, VersionsOK
    <3>2. Media(rows, c) \in Nat
      BY MediaFinite DEF TablesOK
    <3>3. cats[c].artwork_count \in Nat /\ Seen(v, cats, c) \in Nat
      BY DEF Seen, TransactionOK, CountersOK, TablesOK, CategoryRow
    <3> QED BY <3>1, <3>2, <3>3
  <2>4. Media(rows2, c) = Media(rows, c) + Net(v.artworks, rows, c)
    BY <1>5
  <2>5. CASE c \in DOMAIN t.totals
    <3>1. Net(v.artworks, rows, c) = 0
      BY <1>8, <2>1, <2>5
    <3> QED BY <1>4, <2>2, <2>3, <2>4, <2>5, <3>1
  <2>6. CASE c \notin DOMAIN t.totals /\ c \in DOMAIN t.categories
    BY <1>4, <1>8, <2>2, <2>3, <2>4, <2>6
  <2>7. CASE c \notin DOMAIN t.totals /\ c \notin DOMAIN t.categories
    <3>1. Net(t.artworks, rows, c) = 0
      <4>1. Pending(t.adjust, c) = Net(t.artworks, rows, c)
        BY <1>1, <2>7 DEF TransactionOK, OwedOK
      <4> QED BY <1>2, <4>1, NothingPending
    <3>2. cats[c].artwork_count = Media(rows, c)
      BY <1>8, <2>2, <2>3, <2>7, <3>1
    <3>3. Seen(v, cats, c) = Media(rows, c) + Net(v.artworks, rows, c)
      <4>1. CASE Recounting(v)
        BY <2>1, <4>1, CommittedRecount
      <4>2. CASE ~Recounting(v)
        BY <1>1, <3>2, <4>2, CommittedCounter
      <4> QED BY <4>1, <4>2
    <3> QED BY <1>4, <1>8, <2>3, <2>4, <2>7, <3>1, <3>3
  <2> QED BY <2>5, <2>6, <2>7
<1> QED BY <1>6, <1>7, <1>9, <1>10 DEF TransactionOK, cats2, rows2

----------------------------------------------------------------------------
(* The invariant over the sessions. *)

(* On a one-level tree every category is one that CountsExact speaks of.   *)
LEMMA ExactOnTheTree ==
    ASSUME TablesOK(categories, artworks)
    PROVE  CountsExact <=>
            \A c \in CategoryIds : categories[c].artwork_count = Media(artworks, c)
<1>1. /\ DOMAIN categories = CategoryIds
      /\ \A c \in CategoryIds : categories[c].parent_id = Tree[c].parent_id
  BY DEF TablesOK, RowsOfTree
<1>2. ASSUME NEW c \in CategoryIds
      PROVE  Counted(c) = ActiveRows(artworks, Above(c)) /\ (IsRoot(c) \/ Children(c) = {})
  BY <1>1, TreeIsOneLevel, NullIsNoValue
  DEF Counted, ActiveIn, Children, ActiveRows, Above, IsRoot
<1> QED BY <1>1, <1>2 DEF CountsExact, Media

LEMMA ExactOnTheTreeNext ==
    ASSUME TablesOK(categories', artworks')
    PROVE  CountsExact' <=>
            \A c \in CategoryIds : categories'[c].artwork_count = Media(artworks', c)
<1>1. /\ DOMAIN categories' = CategoryIds
      /\ \A c \in CategoryIds : categories'[c].parent_id = Tree[c].parent_id
  BY DEF TablesOK, RowsOfTree
<1>2. ASSUME NEW c \in CategoryIds
      PROVE  Counted(c)' = ActiveRows(artworks', Above(c)) /\ (IsRoot(c)' \/ Children(c)' = {})
  BY <1>1, TreeIsOneLevel, NullIsNoValue
  DEF Counted, ActiveIn, Children, ActiveRows, Above, IsRoot
<1> QED BY <1>1, <1>2 DEF CountsExact, Media

(* A recount reads the media of a root off its subcategories, which is     *)
(* where all of them are.                                                  *)
LEMMA TotalsAreMedia ==
    ASSUME TablesOK(categories, artworks),
           NEW s \in Sessions, TransactionOK(tx[s], categories, artworks)
    PROVE  Totals(s) = [c \in {d \in CategoryIds :
                            Seen(tx[s], categories, d) # Media(Merged(tx[s].artworks, artworks), d)}
                        |-> Media(Merged(tx[s].artworks, artworks), c)]
<1> DEFINE media == Merged(tx[s].artworks, artworks)
           found(c) == {a \in DOMAIN media :
                            /\ media[a].is_active
                            /\ media[a].category_id \in (IF IsRoot(c) THEN Children(c) ELSE {c})}
<1>1. ArtworksSeen(s) = media
  BY DEF ArtworksSeen, Merged
<1>2. \A a \in DOMAIN media : media[a] \in LeafRow
  <2>1. TablesOK(categories, media)
    BY MergedRows DEF TransactionOK
  <2> QED BY <2>1 DEF TablesOK
<1>3. /\ DOMAIN categories = CategoryIds
      /\ \A c \in CategoryIds : categories[c].parent_id = Tree[c].parent_id
  BY DEF TablesOK, RowsOfTree
<1> HIDE DEF media
<1>4. ASSUME NEW c \in CategoryIds PROVE Cardinality(found(c)) = Media(media, c)
  <2>1. Children(c) = {d \in CategoryIds : Tree[d].parent_id = c}
    BY <1>3 DEF Children
  <2>2. CASE IsRoot(c)
    <3>1. \A a \in DOMAIN media : media[a].category_id # c
      BY <1>2, <1>3, <2>2 DEF LeafRow, IsRoot
    <3>2. found(c) = ActiveRows(media, Above(c))
      BY <2>1, <2>2, <3>1 DEF ActiveRows, Above
    <3> QED BY <3>2 DEF Media
  <2>3. CASE ~IsRoot(c)
    <3>1. {d \in CategoryIds : Tree[d].parent_id = c} = {}
      BY <1>3, <2>3, TreeIsOneLevel, NullIsNoValue DEF IsRoot
    <3>2. found(c) = ActiveRows(media, Above(c))
      BY <2>3, <3>1 DEF ActiveRows, Above
    <3> QED BY <3>2 DEF Media
  <2> QED BY <2>2, <2>3
<1>5. \A c \in CategoryIds :
        CategoriesSeen(s)[c].artwork_count = Seen(tx[s], categories, c)
  BY <1>3 DEF CategoriesSeen, Over, Seen
<1> DEFINE total(c) == Cardinality(found(c))
<1>6. Totals(s) = [c \in {d \in CategoryIds : CategoriesSeen(s)[d].artwork_count # total(d)}
                    |-> total(c)]
  BY <1>1 DEF Totals
<1> HIDE DEF found, total
<1>7. \A c \in CategoryIds : total(c) = Media(media, c)
  BY <1>4 DEF total
<1>8. {d \in CategoryIds : CategoriesSeen(s)[d].artwork_count # total(d)}
        = {d \in CategoryIds : Seen(tx[s], categories, d) # Media(media, d)}
  BY <1>5, <1>7
<1>9. Totals(s) = [c \in {d \in CategoryIds : Seen(tx[s], categories, d) # Media(media, d)}
                    |-> Media(media, c)]
  BY <1>6, <1>7, <1>8
<1> QED BY <1>9 DEF media

(* Nothing is committed, and one session goes on. *)
LEMMA OneSessionMoves ==
    ASSUME XInv, NEW s \in Sessions, NEW t, TransactionOK(t, categories, artworks),
           \A o \in Sessions \ {s} : Apart(t, tx[o]),
           tx' = [tx EXCEPT ![s] = t],
           UNCHANGED <<vars, drifted>>,
           begun' \in 0 .. MaxBegun
    PROVE  XInv'
<1>1. categories' = categories /\ artworks' = artworks /\ drifted' = drifted
  BY DEF vars
<1>2. tx' = [o \in Sessions |-> IF o = s THEN t ELSE tx[o]]
  BY DEF XInv
<1>3. \A o \in Sessions : TransactionOK(tx'[o], categories', artworks')
  BY <1>1, <1>2 DEF XInv
<1>4. \A p \in Sessions : \A o \in Sessions \ {p} : Apart(tx'[p], tx'[o])
  BY <1>2 DEF XInv, Apart
<1>5. tx' = [o \in Sessions |-> tx'[o]]
  BY <1>2
<1>6. ExactUnlessDrifted'
  BY <1>1 DEF XInv, ExactUnlessDrifted, CountsExact, IsRoot, Children, Counted, ActiveIn
<1>7. TablesOK(categories', artworks')
  BY <1>1 DEF XInv
<1> QED BY <1>1, <1>3, <1>4, <1>5, <1>6, <1>7 DEF XInv

LEMMA BeginMoves ==
    ASSUME XInv, NEW s \in Sessions, NEW kind, NEW r, Begin(s, kind, r),
           NEW t, t = [r EXCEPT !.kind = kind],
           t.kind = kind, TransactionOK(t, categories, artworks),
           \A o \in Sessions \ {s} : /\ DOMAIN t.categories \cap DOMAIN tx[o].categories = {}
                                     /\ DOMAIN t.artworks \cap DOMAIN tx[o].artworks = {}
                                     /\ t.kind = "reset" => tx[o].kind = "none"
    PROVE  XInv'
<1>1. \A o \in Sessions \ {s} : Apart(t, tx[o])
  BY DEF Begin, Apart
<1>2. begun' \in 0 .. MaxBegun
  BY PlanAndBound DEF Begin, XInv
<1> QED BY <1>1, <1>2, OneSessionMoves DEF Begin

LEMMA IdleBeforeBegin ==
    ASSUME XInv, NEW s \in Sessions, NEW kind, NEW r, Begin(s, kind, r)
    PROVE  /\ tx[s] = Idle
           /\ TransactionOK(Idle, categories, artworks) /\ ~Recounting(Idle)
           /\ IsRecord(Idle) /\ Idle.kind = "none" /\ Idle.adjust = <<>> /\ Idle.at = 1
           /\ Idle.totals = Nothing /\ ~Idle.raced /\ Idle.raced \in BOOLEAN
           /\ DOMAIN Idle.categories = {} /\ DOMAIN Idle.artworks = {}
           /\ DOMAIN Nothing = {} /\ Len(SeedPlan) \in Nat
<1>1. tx[s] = Idle
  BY DEF Begin, XInv, TransactionOK, PhaseOK
<1>2. TransactionOK(Idle, categories, artworks) /\ ~Recounting(Idle)
  BY IdleOwesNothing DEF XInv
<1>3. DOMAIN Nothing = {}
  BY DEF Nothing
<1>4. /\ Idle.kind = "none" /\ Idle.adjust = <<>> /\ Idle.at = 1
      /\ Idle.totals = Nothing /\ ~Idle.raced /\ Idle.raced \in BOOLEAN
      /\ DOMAIN Idle.categories = {} /\ DOMAIN Idle.artworks = {}
  BY <1>3 DEF Idle, Transaction
<1>5. IsRecord(Idle) /\ Len(SeedPlan) \in Nat
  BY <1>2, PlanAndBound, LenProperties DEF TransactionOK
<1> QED BY <1>1, <1>2, <1>3, <1>4, <1>5

----------------------------------------------------------------------------
(* The transactions that begin. *)

LEMMA RowWritten ==
    ASSUME NEW s, IsRecord(tx[s]), NEW a, NEW old, NEW new
    PROVE  SetArtwork(s, a, old, new) =
            [kind |-> tx[s].kind, categories |-> tx[s].categories,
             artworks |-> WithRow(tx[s].artworks, a, new), adjust |-> Adjustments(old, new),
             totals |-> tx[s].totals, at |-> tx[s].at, raced |-> tx[s].raced]
<1> DEFINE u == [tx[s] EXCEPT !.artworks = WithRow(tx[s].artworks, a, new)]
           v == [u EXCEPT !.adjust = Adjustments(old, new)]
<1>1. SetArtwork(s, a, old, new) = v
  BY DEF SetArtwork
<1>2. u = [kind |-> tx[s].kind, categories |-> tx[s].categories,
           artworks |-> WithRow(tx[s].artworks, a, new), adjust |-> tx[s].adjust,
           totals |-> tx[s].totals, at |-> tx[s].at, raced |-> tx[s].raced]
  BY DEF IsRecord
<1> HIDE DEF u
<1>3. v = [kind |-> tx[s].kind, categories |-> tx[s].categories,
           artworks |-> WithRow(tx[s].artworks, a, new), adjust |-> Adjustments(old, new),
           totals |-> tx[s].totals, at |-> tx[s].at, raced |-> tx[s].raced]
  BY <1>2
<1> QED BY <1>1, <1>3

LEMMA CounterWritten ==
    ASSUME NEW s, IsRecord(tx[s]), NEW c, NEW row
    PROVE  SetCategory(s, c, row) =
            [kind |-> tx[s].kind, categories |-> WithRow(tx[s].categories, c, row),
             artworks |-> tx[s].artworks, adjust |-> tx[s].adjust,
             totals |-> tx[s].totals, at |-> tx[s].at, raced |-> tx[s].raced]
  BY DEF SetCategory, IsRecord

Committed(a) == IF a \in DOMAIN artworks THEN artworks[a] ELSE NULL

(* A statement that makes new of row a, NULL being no row. *)
Writes(s, a, new) ==
    /\ ArtworkFree(s, a)
    /\ a \in DOMAIN artworks \/ new # NULL
    /\ Begin(s, "write", SetArtwork(s, a, Committed(a), new))

LEMMA WriteBegins ==
    ASSUME XInv, NEW s \in Sessions, NEW a \in ArtworkIds, NEW new \in LeafRow \cup {NULL},
           Writes(s, a, new)
    PROVE  XInv'
<1> DEFINE old == Committed(a)
           r == SetArtwork(s, a, old, new)
           t == [r EXCEPT !.kind = "write"]
<1>7. /\ Begin(s, "write", r) /\ ArtworkFree(s, a)
      /\ old = IF a \in DOMAIN artworks THEN artworks[a] ELSE NULL
  BY DEF Writes, Committed
<1> HIDE DEF old
<1>1. /\ tx[s] = Idle
      /\ TransactionOK(Idle, categories, artworks) /\ ~Recounting(Idle)
      /\ IsRecord(Idle) /\ Idle.kind = "none" /\ Idle.adjust = <<>> /\ Idle.at = 1
      /\ Idle.totals = Nothing /\ ~Idle.raced /\ Idle.raced \in BOOLEAN
      /\ DOMAIN Idle.categories = {} /\ DOMAIN Idle.artworks = {}
      /\ DOMAIN Nothing = {} /\ Len(SeedPlan) \in Nat
  BY <1>7, IdleBeforeBegin
<1>0. r = [kind |-> Idle.kind, categories |-> Idle.categories,
           artworks |-> WithRow(Idle.artworks, a, new), adjust |-> Adjustments(old, new),
           totals |-> Idle.totals, at |-> Idle.at, raced |-> Idle.raced]
  BY <1>1, RowWritten
<1> HIDE DEF r
<1>2. t = [kind |-> "write", categories |-> Idle.categories,
           artworks |-> WithRow(Idle.artworks, a, new), adjust |-> Adjustments(old, new),
           totals |-> Idle.totals, at |-> Idle.at, raced |-> Idle.raced]
  BY <1>0
<1> HIDE DEF t
<1>3. TransactionOK(t, categories, artworks)
  <2>1. TablesOK(categories, artworks)
    BY DEF XInv
  <2>2. /\ IsRecord(t) /\ t.kind = "write" /\ t.at = 1
        /\ t.categories = Idle.categories /\ t.totals = Idle.totals /\ t.raced = Idle.raced
        /\ t.artworks = WithRow(Idle.artworks, a, new)
        /\ t.adjust = Adjustments(old, new)
        /\ Idle.adjust = <<>> /\ Idle.kind = "none" /\ a \notin DOMAIN Idle.artworks
    BY <1>1, <1>2 DEF IsRecord
  <2>3. 1 \in 1 .. Len(SeedPlan) + 1
    BY <1>1
  <2> QED BY <1>1, <1>7, <2>1, <2>2, <2>3, WriteRowOwed
<1>4. \A o \in Sessions \ {s} : /\ DOMAIN t.categories \cap DOMAIN tx[o].categories = {}
                                /\ DOMAIN t.artworks \cap DOMAIN tx[o].artworks = {}
                                /\ t.kind # "reset"
  BY <1>1, <1>2, <1>7 DEF WithRow, ArtworkFree
<1>9. t = [r EXCEPT !.kind = "write"] /\ Begin(s, "write", r) /\ t.kind = "write"
  BY <1>2, <1>7 DEF t
<1> QED BY <1>3, <1>4, <1>9, BeginMoves

(* Each of the four statements on a row of artworks is one of these. *)
LEMMA StatementWrites ==
    ASSUME XInv, NEW s \in Sessions, NEW a \in ArtworkIds,
           \/ \E c \in CategoryIds : Insert(s, a, c)
           \/ SoftDelete(s, a)
           \/ \E c \in CategoryIds, b \in BOOLEAN : Update(s, a, c, b)
           \/ Erase(s, a)
    PROVE  \E new \in LeafRow \cup {NULL} : Writes(s, a, new)
<1>1. /\ DOMAIN categories = CategoryIds
      /\ \A c \in CategoryIds : categories[c].parent_id = Tree[c].parent_id
      /\ \A b \in DOMAIN artworks : artworks[b] \in LeafRow
  BY DEF XInv, TablesOK, RowsOfTree
<1>2. \A c \in CategoryIds : RequireSubcategory(c) => Tree[c].parent_id # NULL
  BY <1>1 DEF RequireSubcategory, IsRoot
<1> DEFINE goal == \E new \in LeafRow \cup {NULL} : Writes(s, a, new)
<1>3. ASSUME NEW c \in CategoryIds, Insert(s, a, c) PROVE goal
  <2> DEFINE new == [category_id |-> c, is_active |-> TRUE]
  <2>1. new \in LeafRow /\ new # NULL
    BY <1>2, <1>3, RowsAreRecords DEF Insert
  <2> HIDE DEF new
  <2>2. Writes(s, a, new)
    BY <1>3, <2>1 DEF Insert, Writes, Committed, new
  <2> QED BY <2>1, <2>2
<1>4. ASSUME SoftDelete(s, a) PROVE goal
  <2> DEFINE new == [artworks[a] EXCEPT !.is_active = FALSE]
  <2>1. artworks[a] \in LeafRow
    BY <1>1, <1>4 DEF SoftDelete
  <2>2. new \in LeafRow
    BY <2>1 DEF LeafRow, ArtworkRow
  <2>3. Writes(s, a, new)
    BY <1>4 DEF SoftDelete, Writes, Committed
  <2> HIDE DEF new
  <2> QED BY <2>2, <2>3
<1>5. ASSUME NEW c \in CategoryIds, NEW b \in BOOLEAN, Update(s, a, c, b) PROVE goal
  <2> DEFINE new == [category_id |-> c, is_active |-> b]
  <2>1. a \in DOMAIN artworks /\ (c # artworks[a].category_id => RequireSubcategory(c))
    BY <1>5 DEF Update
  <2>2. Tree[c].parent_id # NULL
    BY <1>1, <1>2, <2>1 DEF LeafRow
  <2>3. new \in LeafRow
    BY <2>2, RowsAreRecords
  <2>4. Writes(s, a, new)
    BY <1>5 DEF Update, Writes, Committed
  <2> HIDE DEF new
  <2> QED BY <2>3, <2>4
<1>6. ASSUME Erase(s, a) PROVE goal
  <2>1. Writes(s, a, NULL)
    BY <1>6 DEF Erase, Writes, Committed
  <2> QED BY <2>1
<1> QED BY <1>3, <1>4, <1>5, <1>6

LEMMA TouchBegins ==
    ASSUME XInv, NEW s \in Sessions, NEW c \in CategoryIds, Touch(s, c)
    PROVE  XInv'
<1> DEFINE r == SetCategory(s, c, categories[c])
           t == [r EXCEPT !.kind = "write"]
<1>0. Begin(s, "write", r) /\ CategoryFree(s, c)
  BY DEF Touch
<1>1. /\ tx[s] = Idle
      /\ TransactionOK(Idle, categories, artworks) /\ ~Recounting(Idle)
      /\ IsRecord(Idle) /\ Idle.kind = "none" /\ Idle.adjust = <<>> /\ Idle.at = 1
      /\ Idle.totals = Nothing /\ ~Idle.raced /\ Idle.raced \in BOOLEAN
      /\ DOMAIN Idle.categories = {} /\ DOMAIN Idle.artworks = {}
      /\ DOMAIN Nothing = {} /\ Len(SeedPlan) \in Nat
  BY <1>0, IdleBeforeBegin
<1>5. r = [kind |-> Idle.kind, categories |-> WithRow(Idle.categories, c, categories[c]),
           artworks |-> Idle.artworks, adjust |-> Idle.adjust,
           totals |-> Idle.totals, at |-> Idle.at, raced |-> Idle.raced]
  BY <1>1, CounterWritten
<1> HIDE DEF r
<1>2. t = [kind |-> "write", categories |-> WithRow(Idle.categories, c, categories[c]),
           artworks |-> Idle.artworks, adjust |-> Idle.adjust,
           totals |-> Idle.totals, at |-> Idle.at, raced |-> Idle.raced]
  BY <1>5
<1> HIDE DEF t
<1>3. TransactionOK(t, categories, artworks)
  <2> DEFINE row == categories[c]
  <2>1. TablesOK(categories, artworks)
    BY DEF XInv
  <2>2. /\ IsRecord(t) /\ t.kind = "write" /\ t.at = 1
        /\ t.categories = WithRow(Idle.categories, c, row)
        /\ t.artworks = Idle.artworks /\ t.totals = Idle.totals /\ t.raced = Idle.raced
        /\ t.adjust = Idle.adjust
        /\ Idle.adjust = <<>> /\ Idle.kind = "none"
        /\ row = IF c \in DOMAIN Idle.categories THEN Idle.categories[c] ELSE categories[c]
    BY <1>1, <1>2 DEF IsRecord
  <2>3. 1 \in 1 .. Len(SeedPlan) + 1
    BY <1>1
  <2> HIDE DEF row
  <2> QED BY <1>1, <2>1, <2>2, <2>3, LockRowOwed
<1>4. \A o \in Sessions \ {s} : /\ DOMAIN t.categories \cap DOMAIN tx[o].categories = {}
                                /\ DOMAIN t.artworks \cap DOMAIN tx[o].artworks = {}
                                /\ t.kind # "reset"
  BY <1>0, <1>1, <1>2 DEF WithRow, CategoryFree
<1>9. t = [r EXCEPT !.kind = "write"] /\ Begin(s, "write", r) /\ t.kind = "write"
  BY <1>0, <1>2 DEF t
<1> QED BY <1>3, <1>4, <1>9, BeginMoves

LEMMA RecountBegins ==
    ASSUME XInv, NEW s \in Sessions, RecountStart(s)
    PROVE  XInv'
<1> DEFINE r == SetTotals(s)
           t == [r EXCEPT !.kind = "recount"]
<1>0. Begin(s, "recount", r)
  BY DEF RecountStart
<1>1. /\ tx[s] = Idle
      /\ TransactionOK(Idle, categories, artworks) /\ ~Recounting(Idle)
      /\ IsRecord(Idle) /\ Idle.kind = "none" /\ Idle.adjust = <<>> /\ Idle.at = 1
      /\ Idle.totals = Nothing /\ ~Idle.raced /\ Idle.raced \in BOOLEAN
      /\ DOMAIN Idle.categories = {} /\ DOMAIN Idle.artworks = {}
      /\ DOMAIN Nothing = {} /\ Len(SeedPlan) \in Nat
  BY <1>0, IdleBeforeBegin
<1>5. r = [kind |-> Idle.kind, categories |-> Idle.categories, artworks |-> Idle.artworks,
           adjust |-> Idle.adjust, totals |-> Totals(s), at |-> Idle.at, raced |-> Idle.raced]
  BY <1>1 DEF SetTotals, IsRecord
<1> HIDE DEF r
<1>2. t = [kind |-> "recount", categories |-> Idle.categories, artworks |-> Idle.artworks,
           adjust |-> Idle.adjust, totals |-> Totals(s), at |-> Idle.at, raced |-> Idle.raced]
  BY <1>5
<1> HIDE DEF t
<1>3. TransactionOK(t, categories, artworks)
  <2>1. TablesOK(categories, artworks)
    BY DEF XInv
  <2>2. /\ IsRecord(t) /\ t.kind = "recount" /\ t.at = 1
        /\ t.categories = Idle.categories
        /\ t.artworks = Idle.artworks /\ t.raced = Idle.raced
        /\ t.adjust = Idle.adjust
        /\ Idle.adjust = <<>> /\ Idle.kind = "none"
    BY <1>1, <1>2 DEF IsRecord
  <2>3. t.totals = [d \in {e \in CategoryIds :
                        Seen(Idle, categories, e) # Media(Merged(Idle.artworks, artworks), e)}
                    |-> Media(Merged(Idle.artworks, artworks), d)]
    BY <1>1, <1>2, <2>1, TotalsAreMedia
  <2> QED BY <1>1, <2>1, <2>2, <2>3, SnapshotOwed
<1>4. \A o \in Sessions \ {s} : /\ DOMAIN t.categories \cap DOMAIN tx[o].categories = {}
                                /\ DOMAIN t.artworks \cap DOMAIN tx[o].artworks = {}
                                /\ t.kind # "reset"
  BY <1>1, <1>2
<1>9. t = [r EXCEPT !.kind = "recount"] /\ Begin(s, "recount", r) /\ t.kind = "recount"
  BY <1>0, <1>2 DEF t
<1> QED BY <1>3, <1>4, <1>9, BeginMoves

LEMMA SeedBegins ==
    ASSUME XInv, NEW s \in Sessions, SeedStart(s)
    PROVE  XInv'
<1> DEFINE t == [Idle EXCEPT !.kind = "seed"]
<1>0. Begin(s, "seed", Idle)
  BY DEF SeedStart
<1>1. /\ TransactionOK(Idle, categories, artworks) /\ ~Recounting(Idle)
      /\ IsRecord(Idle) /\ Idle.kind = "none" /\ Idle.adjust = <<>> /\ Idle.at = 1
      /\ Idle.totals = Nothing /\ ~Idle.raced /\ Idle.raced \in BOOLEAN
      /\ DOMAIN Idle.categories = {} /\ DOMAIN Idle.artworks = {}
      /\ DOMAIN Nothing = {} /\ Len(SeedPlan) \in Nat
  BY <1>0, IdleBeforeBegin
<1>2. t = [kind |-> "seed", categories |-> Idle.categories, artworks |-> Idle.artworks,
           adjust |-> Idle.adjust, totals |-> Idle.totals, at |-> Idle.at, raced |-> Idle.raced]
  BY <1>1 DEF IsRecord
<1> HIDE DEF t
<1>3. TransactionOK(t, categories, artworks)
  <2>1. /\ IsRecord(t) /\ t.kind = "seed" /\ t.at = 1 /\ t.raced = Idle.raced
        /\ t.categories = Idle.categories /\ t.artworks = Idle.artworks
        /\ t.totals = Idle.totals /\ t.adjust = Idle.adjust
        /\ Idle.adjust = <<>> /\ Idle.kind = "none"
    BY <1>1, <1>2 DEF IsRecord
  <2>2. ~t.raced /\ t.raced \in BOOLEAN /\ ~Recounting(t) /\ DOMAIN t.totals = {}
    BY <1>1, <1>2 DEF Recounting
  <2>3. VersionsOK(t.artworks) /\ CountersOK(t) /\ CallsOK(t)
    BY <1>1, <2>1, EmptySeq DEF TransactionOK, CountersOK, CallsOK
  <2>4. PhaseOK(t, artworks)
    BY <1>1, <2>1, <2>2 DEF PhaseOK
  <2>5. OwedOK(t, categories, artworks)
    BY <1>1, <2>1 DEF TransactionOK, OwedOK, Seen
  <2> QED BY <2>1, <2>2, <2>3, <2>4, <2>5 DEF TransactionOK, RecountOK
<1>4. \A o \in Sessions \ {s} : /\ DOMAIN t.categories \cap DOMAIN tx[o].categories = {}
                                /\ DOMAIN t.artworks \cap DOMAIN tx[o].artworks = {}
                                /\ t.kind # "reset"
  BY <1>1, <1>2
<1>9. t = [Idle EXCEPT !.kind = "seed"] /\ Begin(s, "seed", Idle) /\ t.kind = "seed"
  BY <1>0, <1>2 DEF t
<1> QED BY <1>3, <1>4, <1>9, BeginMoves

LEMMA ResetBegins ==
    ASSUME XInv, NEW s \in Sessions, ResetStart(s)
    PROVE  XInv'
<1> DEFINE r == [Idle EXCEPT !.artworks = [a \in DOMAIN artworks |-> NULL], !.categories = Tree]
           t == [r EXCEPT !.kind = "reset"]
<1>0. Begin(s, "reset", r) /\ \A o \in Sessions : tx[o].kind = "none"
  BY DEF ResetStart
<1>1. /\ IsRecord(Idle) /\ Idle.kind = "none" /\ Idle.adjust = <<>> /\ Idle.at = 1
      /\ Idle.totals = Nothing /\ ~Idle.raced /\ Idle.raced \in BOOLEAN
      /\ DOMAIN Idle.categories = {} /\ DOMAIN Idle.artworks = {}
  BY <1>0, IdleBeforeBegin
<1> DEFINE nulls == [a \in DOMAIN artworks |-> NULL]
           q == [Idle EXCEPT !.artworks = nulls]
<1> HIDE DEF nulls
<1>6. q = [kind |-> Idle.kind, categories |-> Idle.categories, artworks |-> nulls,
           adjust |-> Idle.adjust, totals |-> Idle.totals, at |-> Idle.at, raced |-> Idle.raced]
  BY <1>1 DEF IsRecord
<1>7. r = [q EXCEPT !.categories = Tree]
  BY DEF nulls
<1> HIDE DEF q, r
<1>8. r = [kind |-> Idle.kind, categories |-> Tree, artworks |-> nulls,
           adjust |-> Idle.adjust, totals |-> Idle.totals, at |-> Idle.at, raced |-> Idle.raced]
  BY <1>6, <1>7
<1>2. t = [kind |-> "reset", categories |-> Tree, artworks |-> nulls,
           adjust |-> Idle.adjust, totals |-> Idle.totals, at |-> Idle.at, raced |-> Idle.raced]
  BY <1>8
<1> HIDE DEF t
<1>3. TransactionOK(t, categories, artworks)
  <2>1. TablesOK(categories, artworks)
    BY DEF XInv
  <2>2. /\ IsRecord(t) /\ t.kind = "reset" /\ t.at = 1 /\ t.raced = FALSE
        /\ t.categories = Tree /\ t.artworks = [a \in DOMAIN artworks |-> NULL]
        /\ t.totals = Nothing /\ t.adjust = <<>>
    BY <1>1, <1>2 DEF IsRecord, nulls
  <2> QED BY <2>1, <2>2, ResetOwed
<1>4. \A o \in Sessions : tx[o] = Idle
  BY <1>0 DEF XInv, TransactionOK, PhaseOK
<1>5. \A o \in Sessions \ {s} : /\ DOMAIN t.categories \cap DOMAIN tx[o].categories = {}
                                /\ DOMAIN t.artworks \cap DOMAIN tx[o].artworks = {}
                                /\ tx[o].kind = "none"
  BY <1>1, <1>4
<1>9. t = [r EXCEPT !.kind = "reset"] /\ Begin(s, "reset", r) /\ t.kind = "reset"
  BY <1>0, <1>2 DEF t
<1> QED BY <1>3, <1>5, <1>9, BeginMoves

----------------------------------------------------------------------------
(* The transactions that go on. *)

LEMMA StepMoves ==
    ASSUME XInv, NEW s \in Sessions, NEW t, TransactionOK(t, categories, artworks),
           tx[s].kind # "none", t.kind = tx[s].kind,
           tx' = [tx EXCEPT ![s] = t],
           \A o \in Sessions \ {s} : /\ DOMAIN t.categories \cap DOMAIN tx[o].categories = {}
                                     /\ DOMAIN t.artworks \cap DOMAIN tx[o].artworks = {},
           UNCHANGED <<vars, drifted, begun>>
    PROVE  XInv'
<1>1. \A o \in Sessions \ {s} : Apart(t, tx[o])
  BY DEF XInv, Apart
<1>2. begun' \in 0 .. MaxBegun /\ UNCHANGED <<vars, drifted>>
  BY DEF XInv
<1> QED BY <1>1, <1>2, OneSessionMoves

(* What a session sees of a category, and who else has locked it. *)
LEMMA RowSeen ==
    ASSUME XInv, NEW s \in Sessions, NEW c \in CategoryIds
    PROVE  CategoriesSeen(s)[c] =
            IF c \in DOMAIN tx[s].categories THEN tx[s].categories[c] ELSE categories[c]
  BY DEF XInv, TablesOK, CategoriesSeen, Over

LEMMA OneCategoryMore ==
    ASSUME XInv, NEW s \in Sessions, NEW c \in CategoryIds, CategoryFree(s, c), NEW row,
           NEW o \in Sessions \ {s}
    PROVE  DOMAIN WithRow(tx[s].categories, c, row) \cap DOMAIN tx[o].categories = {}
  BY DEF XInv, Apart, CategoryFree, WithRow

LEMMA OneArtworkMore ==
    ASSUME XInv, NEW s \in Sessions, NEW a \in ArtworkIds, ArtworkFree(s, a), NEW row,
           NEW o \in Sessions \ {s}
    PROVE  DOMAIN WithRow(tx[s].artworks, a, row) \cap DOMAIN tx[o].artworks = {}
  BY DEF XInv, Apart, ArtworkFree, WithRow

LEMMA ScriptGoesOn ==
    ASSUME XInv, NEW s \in Sessions, Script(s), Settled(s), tx[s].at <= Len(SeedPlan) + 1
    PROVE  /\ TransactionOK(tx[s], categories, artworks) /\ IsRecord(tx[s])
           /\ tx[s].kind \in {"seed", "reset"}
           /\ tx[s].adjust = <<>> /\ ~Recounting(tx[s])
           /\ tx[s].at \in Nat /\ tx[s].at >= 1 /\ Len(SeedPlan) \in Nat
<1>1. Len(SeedPlan) \in Nat
  BY PlanAndBound, LenProperties
<1> QED BY <1>1 DEF XInv, TransactionOK, PhaseOK, Script, Settled, Recounting

LEMMA SeedCategoryStep ==
    ASSUME XInv, NEW s \in Sessions, NEW c \in CategoryIds, SeedCategory(s, c)
    PROVE  XInv'
<1> DEFINE row == CategoriesSeen(s)[c]
           r == SetCategory(s, c, row)
           t == [r EXCEPT !.at = @ + 1]
<1>1. /\ Script(s) /\ Settled(s) /\ tx[s].at <= Len(SeedPlan) /\ CategoryFree(s, c)
      /\ tx' = [tx EXCEPT ![s] = t]
      /\ UNCHANGED <<vars, drifted, begun>>
  BY DEF SeedCategory, SeedNext
<1>2. Len(SeedPlan) \in Nat /\ tx[s].at \in Nat
  BY PlanAndBound, LenProperties DEF XInv, TransactionOK, PhaseOK
<1>3. /\ TransactionOK(tx[s], categories, artworks) /\ IsRecord(tx[s])
      /\ tx[s].kind \in {"seed", "reset"}
      /\ tx[s].adjust = <<>> /\ ~Recounting(tx[s])
      /\ tx[s].at >= 1
  BY <1>1, <1>2, ScriptGoesOn
<1>4. r = [kind |-> tx[s].kind, categories |-> WithRow(tx[s].categories, c, row),
           artworks |-> tx[s].artworks, adjust |-> tx[s].adjust,
           totals |-> tx[s].totals, at |-> tx[s].at, raced |-> tx[s].raced]
  BY <1>3, CounterWritten
<1> HIDE DEF row, r
<1>5. t = [kind |-> tx[s].kind, categories |-> WithRow(tx[s].categories, c, row),
           artworks |-> tx[s].artworks, adjust |-> tx[s].adjust,
           totals |-> tx[s].totals, at |-> tx[s].at + 1, raced |-> tx[s].raced]
  BY <1>4
<1> HIDE DEF t
<1>6. TransactionOK(t, categories, artworks)
  <2>1. TablesOK(categories, artworks)
    BY DEF XInv
  <2>2. row = IF c \in DOMAIN tx[s].categories THEN tx[s].categories[c] ELSE categories[c]
    BY RowSeen DEF row
  <2>3. /\ IsRecord(t) /\ t.kind = tx[s].kind /\ t.at = tx[s].at + 1
        /\ t.categories = WithRow(tx[s].categories, c, row)
        /\ t.artworks = tx[s].artworks /\ t.adjust = tx[s].adjust
        /\ t.totals = tx[s].totals /\ t.raced = tx[s].raced
    BY <1>5 DEF IsRecord
  <2>4. t.kind \in {"write", "seed", "reset"} /\ t.kind # "write"
        /\ t.at \in 1 .. Len(SeedPlan) + 1
    BY <1>1, <1>2, <1>3, <2>3
  <2> QED BY <1>3, <2>1, <2>2, <2>3, <2>4, LockRowOwed
<1>7. \A o \in Sessions \ {s} : /\ DOMAIN t.categories \cap DOMAIN tx[o].categories = {}
                                /\ DOMAIN t.artworks \cap DOMAIN tx[o].artworks = {}
  <2>1. t.categories = WithRow(tx[s].categories, c, row) /\ t.artworks = tx[s].artworks
    BY <1>5
  <2>2. \A o \in Sessions \ {s} :
            DOMAIN WithRow(tx[s].categories, c, row) \cap DOMAIN tx[o].categories = {}
    BY <1>1, OneCategoryMore
  <2>3. \A o \in Sessions \ {s} :
            DOMAIN tx[s].artworks \cap DOMAIN tx[o].artworks = {}
    BY DEF XInv, Apart
  <2> QED BY <2>1, <2>2, <2>3
<1>8. t.kind = tx[s].kind /\ tx[s].kind # "none"
  BY <1>3, <1>5
<1> QED BY <1>1, <1>6, <1>7, <1>8, StepMoves

LEMMA SeedMediumStep ==
    ASSUME XInv, NEW s \in Sessions, NEW a \in ArtworkIds, NEW c \in CategoryIds,
           SeedMedium(s, a, c)
    PROVE  XInv'
<1> DEFINE new == [category_id |-> c, is_active |-> TRUE]
           r == SetArtwork(s, a, NULL, new)
           t == [r EXCEPT !.at = @ + 1]
<1>1. /\ Script(s) /\ Settled(s) /\ tx[s].at <= Len(SeedPlan)
      /\ SeedPlan[tx[s].at] = [insert |-> "medium", category |-> c]
      /\ a \notin DOMAIN artworks /\ a \notin DOMAIN tx[s].artworks
      /\ ArtworkFree(s, a)
      /\ tx' = [tx EXCEPT ![s] = t]
      /\ UNCHANGED <<vars, drifted, begun>>
  BY DEF SeedMedium, SeedNext
<1>2. Len(SeedPlan) \in Nat /\ tx[s].at \in Nat
  BY PlanAndBound, LenProperties DEF XInv, TransactionOK, PhaseOK
<1>3. /\ TransactionOK(tx[s], categories, artworks) /\ IsRecord(tx[s])
      /\ tx[s].kind \in {"seed", "reset"}
      /\ tx[s].adjust = <<>> /\ ~Recounting(tx[s])
      /\ tx[s].at >= 1
  BY <1>1, <1>2, ScriptGoesOn
<1>4. new \in LeafRow
  <2>1. tx[s].at \in 1 .. Len(SeedPlan)
    BY <1>1, <1>2, <1>3
  <2>2. SeedPlan[tx[s].at].insert = "medium" /\ SeedPlan[tx[s].at].category = c
    BY <1>1
  <2>3. Tree[c].parent_id # NULL
    BY <2>1, <2>2, PlanAndBound
  <2> QED BY <2>3, RowsAreRecords
<1> HIDE DEF new
<1>5. r = [kind |-> tx[s].kind, categories |-> tx[s].categories,
           artworks |-> WithRow(tx[s].artworks, a, new), adjust |-> Adjustments(NULL, new),
           totals |-> tx[s].totals, at |-> tx[s].at, raced |-> tx[s].raced]
  BY <1>3, RowWritten
<1> HIDE DEF r
<1>6. t = [kind |-> tx[s].kind, categories |-> tx[s].categories,
           artworks |-> WithRow(tx[s].artworks, a, new), adjust |-> Adjustments(NULL, new),
           totals |-> tx[s].totals, at |-> tx[s].at + 1, raced |-> tx[s].raced]
  BY <1>5
<1> HIDE DEF t
<1>7. TransactionOK(t, categories, artworks)
  <2>1. TablesOK(categories, artworks)
    BY DEF XInv
  <2>2. /\ IsRecord(t) /\ t.kind = tx[s].kind /\ t.at = tx[s].at + 1
        /\ t.categories = tx[s].categories
        /\ t.artworks = WithRow(tx[s].artworks, a, new) /\ t.adjust = Adjustments(NULL, new)
        /\ t.totals = tx[s].totals /\ t.raced = tx[s].raced
    BY <1>6 DEF IsRecord
  <2>3. t.kind \in {"write", "seed", "reset"} /\ t.kind # "write"
        /\ t.at \in 1 .. Len(SeedPlan) + 1
    BY <1>1, <1>2, <1>3, <2>2
  <2>4. NULL = IF a \in DOMAIN artworks THEN artworks[a] ELSE NULL
    BY <1>1
  <2> QED BY <1>1, <1>3, <1>4, <2>1, <2>2, <2>3, <2>4, WriteRowOwed
<1>8. \A o \in Sessions \ {s} : /\ DOMAIN t.categories \cap DOMAIN tx[o].categories = {}
                                /\ DOMAIN t.artworks \cap DOMAIN tx[o].artworks = {}
  <2>1. t.categories = tx[s].categories /\ t.artworks = WithRow(tx[s].artworks, a, new)
    BY <1>6
  <2>2. \A o \in Sessions \ {s} :
            DOMAIN WithRow(tx[s].artworks, a, new) \cap DOMAIN tx[o].artworks = {}
    BY <1>1, OneArtworkMore
  <2>3. \A o \in Sessions \ {s} :
            DOMAIN tx[s].categories \cap DOMAIN tx[o].categories = {}
    BY DEF XInv, Apart
  <2> QED BY <2>1, <2>2, <2>3
<1>9. t.kind = tx[s].kind /\ tx[s].kind # "none"
  BY <1>3, <1>6
<1> QED BY <1>1, <1>7, <1>8, <1>9, StepMoves

LEMMA SeedRecountStep ==
    ASSUME XInv, NEW s \in Sessions, SeedRecount(s)
    PROVE  XInv'
<1> DEFINE r == SetTotals(s)
           t == [r EXCEPT !.at = @ + 1]
<1>1. /\ Script(s) /\ Settled(s) /\ tx[s].at = Len(SeedPlan) + 1
      /\ tx' = [tx EXCEPT ![s] = t]
      /\ UNCHANGED <<vars, drifted, begun>>
  BY DEF SeedRecount
<1>2. Len(SeedPlan) \in Nat
  BY PlanAndBound, LenProperties
<1>3. /\ TransactionOK(tx[s], categories, artworks) /\ IsRecord(tx[s])
      /\ tx[s].kind \in {"seed", "reset"}
      /\ tx[s].adjust = <<>> /\ ~Recounting(tx[s])
  BY <1>1, <1>2, ScriptGoesOn
<1>5. r = [kind |-> tx[s].kind, categories |-> tx[s].categories,
           artworks |-> tx[s].artworks, adjust |-> tx[s].adjust,
           totals |-> Totals(s), at |-> tx[s].at, raced |-> tx[s].raced]
  BY <1>3 DEF SetTotals, IsRecord
<1> HIDE DEF r
<1>6. t = [kind |-> tx[s].kind, categories |-> tx[s].categories,
           artworks |-> tx[s].artworks, adjust |-> tx[s].adjust,
           totals |-> Totals(s), at |-> tx[s].at + 1, raced |-> tx[s].raced]
  BY <1>5
<1> HIDE DEF t
<1>7. TransactionOK(t, categories, artworks)
  <2>1. TablesOK(categories, artworks)
    BY DEF XInv
  <2>2. /\ IsRecord(t) /\ t.kind = tx[s].kind /\ t.at = Len(SeedPlan) + 2
        /\ t.categories = tx[s].categories /\ t.artworks = tx[s].artworks
        /\ t.adjust = tx[s].adjust /\ t.totals = Totals(s) /\ t.raced = tx[s].raced
    BY <1>1, <1>2, <1>6 DEF IsRecord
  <2>3. t.kind \in {"recount", "seed", "reset"} /\ t.kind # "recount"
    BY <1>3, <2>2
  <2>4. t.totals = [c \in {d \in CategoryIds :
                        Seen(tx[s], categories, d) # Media(Merged(tx[s].artworks, artworks), d)}
                    |-> Media(Merged(tx[s].artworks, artworks), c)]
    BY <1>3, <2>1, <2>2, TotalsAreMedia
  <2> QED BY <1>3, <2>1, <2>2, <2>3, <2>4, SnapshotOwed
<1>8. \A o \in Sessions \ {s} : /\ DOMAIN t.categories \cap DOMAIN tx[o].categories = {}
                                /\ DOMAIN t.artworks \cap DOMAIN tx[o].artworks = {}
  BY <1>6 DEF XInv, Apart
<1>9. t.kind = tx[s].kind /\ tx[s].kind # "none"
  BY <1>3, <1>6
<1> QED BY <1>1, <1>7, <1>8, <1>9, StepMoves

LEMMA AdjustRowStep ==
    ASSUME XInv, NEW s \in Sessions, NEW c \in CategoryIds, AdjustRow(s, c)
    PROVE  XInv'
<1> DEFINE row == Adjusted(s, c)
           r == SetCategory(s, c, row)
           rest == RestOfCalls(tx[s].adjust, c)
           t == [r EXCEPT !.adjust = rest]
<1>1. /\ tx[s].adjust # <<>> /\ c \in Head(tx[s].adjust).rows /\ CategoryFree(s, c)
      /\ row.artwork_count >= 0
      /\ UNCHANGED <<vars, drifted, begun>>
  BY DEF AdjustRow, Adjusts
<1>2. TransactionOK(tx[s], categories, artworks) /\ IsRecord(tx[s])
  BY DEF XInv, TransactionOK
<1>3. tx[s].adjust \in Seq(Call) /\ Len(tx[s].adjust) <= 2
  BY <1>2 DEF TransactionOK, CallsOK
<1>4. r = [kind |-> tx[s].kind, categories |-> WithRow(tx[s].categories, c, row),
           artworks |-> tx[s].artworks, adjust |-> tx[s].adjust,
           totals |-> tx[s].totals, at |-> tx[s].at, raced |-> tx[s].raced]
  BY <1>2, CounterWritten
<1>5. tx' = [tx EXCEPT ![s] = t]
  <2>1. r.adjust = tx[s].adjust
    BY <1>4
  <2>2. tx' = [tx EXCEPT ![s] = [r EXCEPT !.adjust =
                    IF Head(tx[s].adjust).rows \ {c} = {} THEN Tail(r.adjust)
                    ELSE [r.adjust EXCEPT ![1].rows = Head(tx[s].adjust).rows \ {c}]]]
    BY DEF AdjustRow
  <2> HIDE DEF r
  <2> QED BY <2>1, <2>2 DEF RestOfCalls
<1> HIDE DEF row, r, rest
<1>6. t = [kind |-> tx[s].kind, categories |-> WithRow(tx[s].categories, c, row),
           artworks |-> tx[s].artworks, adjust |-> rest,
           totals |-> tx[s].totals, at |-> tx[s].at, raced |-> tx[s].raced]
  BY <1>4
<1> HIDE DEF t
<1>7. TransactionOK(t, categories, artworks)
  <2> DEFINE seen == CategoriesSeen(s)[c]
  <2>1. TablesOK(categories, artworks)
    BY DEF XInv
  <2>2. seen = IF c \in DOMAIN tx[s].categories THEN tx[s].categories[c] ELSE categories[c]
    BY RowSeen
  <2>3. /\ IsRecord(t) /\ t.kind = tx[s].kind /\ t.at = tx[s].at
        /\ t.categories = WithRow(tx[s].categories, c, row)
        /\ t.artworks = tx[s].artworks /\ t.adjust = RestOfCalls(tx[s].adjust, c)
        /\ t.totals = tx[s].totals /\ t.raced = tx[s].raced
    BY <1>6 DEF IsRecord, rest
  <2>4. row = [seen EXCEPT !.artwork_count = @ + Head(tx[s].adjust).delta]
    BY DEF row, Adjusted
  <2> HIDE DEF seen
  <2> QED BY <1>1, <1>2, <2>1, <2>2, <2>3, <2>4, AdjustRowOwed
<1>8. \A o \in Sessions \ {s} : /\ DOMAIN t.categories \cap DOMAIN tx[o].categories = {}
                                /\ DOMAIN t.artworks \cap DOMAIN tx[o].artworks = {}
  <2>1. t.categories = WithRow(tx[s].categories, c, row) /\ t.artworks = tx[s].artworks
    BY <1>6
  <2>2. \A o \in Sessions \ {s} :
            DOMAIN WithRow(tx[s].categories, c, row) \cap DOMAIN tx[o].categories = {}
    BY <1>1, OneCategoryMore
  <2>3. \A o \in Sessions \ {s} :
            DOMAIN tx[s].artworks \cap DOMAIN tx[o].artworks = {}
    BY DEF XInv, Apart
  <2> QED BY <2>1, <2>2, <2>3
<1>9. t.kind = tx[s].kind /\ tx[s].kind # "none"
  <2>1. Idle.adjust = <<>>
    BY DEF Idle, Transaction
  <2> QED BY <1>1, <1>2, <1>6, <2>1 DEF TransactionOK, PhaseOK
<1> QED BY <1>1, <1>5, <1>7, <1>8, <1>9, StepMoves

LEMMA RecountRowStep ==
    ASSUME XInv, NEW s \in Sessions, NEW c \in CategoryIds, RecountRow(s, c)
    PROVE  XInv'
<1> DEFINE seen == CategoriesSeen(s)[c]
           row == [seen EXCEPT !.artwork_count = tx[s].totals[c]]
           r == SetCategory(s, c, row)
           rest == Restrict(tx[s].totals, DOMAIN tx[s].totals \ {c})
           t == [r EXCEPT !.totals = rest]
<1>1. /\ c \in DOMAIN tx[s].totals /\ CategoryFree(s, c)
      /\ UNCHANGED <<vars, drifted, begun>>
  BY DEF RecountRow
<1>2. TransactionOK(tx[s], categories, artworks) /\ IsRecord(tx[s])
  BY DEF XInv, TransactionOK
<1>4. r = [kind |-> tx[s].kind, categories |-> WithRow(tx[s].categories, c, row),
           artworks |-> tx[s].artworks, adjust |-> tx[s].adjust,
           totals |-> tx[s].totals, at |-> tx[s].at, raced |-> tx[s].raced]
  BY <1>2, CounterWritten
<1>5. tx' = [tx EXCEPT ![s] = t]
  <2>1. r.totals = tx[s].totals
    BY <1>4
  <2>2. tx' = [tx EXCEPT ![s] =
                [r EXCEPT !.totals = Restrict(r.totals, DOMAIN r.totals \ {c})]]
    BY DEF RecountRow
  <2> HIDE DEF r
  <2> QED BY <2>1, <2>2
<1> HIDE DEF seen, row, r, rest
<1>6. t = [kind |-> tx[s].kind, categories |-> WithRow(tx[s].categories, c, row),
           artworks |-> tx[s].artworks, adjust |-> tx[s].adjust,
           totals |-> rest, at |-> tx[s].at, raced |-> tx[s].raced]
  BY <1>4
<1> HIDE DEF t
<1>7. TransactionOK(t, categories, artworks)
  <2>1. TablesOK(categories, artworks)
    BY DEF XInv
  <2>2. seen = IF c \in DOMAIN tx[s].categories THEN tx[s].categories[c] ELSE categories[c]
    BY RowSeen DEF seen
  <2>3. /\ IsRecord(t) /\ t.kind = tx[s].kind /\ t.at = tx[s].at
        /\ t.categories = WithRow(tx[s].categories, c, row)
        /\ t.artworks = tx[s].artworks /\ t.adjust = tx[s].adjust
        /\ t.totals = Restrict(tx[s].totals, DOMAIN tx[s].totals \ {c})
        /\ t.raced = tx[s].raced
    BY <1>6 DEF IsRecord, rest
  <2>4. row = [seen EXCEPT !.artwork_count = tx[s].totals[c]]
    BY DEF row
  <2> QED BY <1>1, <1>2, <2>1, <2>2, <2>3, <2>4, RecountRowOwed
<1>8. \A o \in Sessions \ {s} : /\ DOMAIN t.categories \cap DOMAIN tx[o].categories = {}
                                /\ DOMAIN t.artworks \cap DOMAIN tx[o].artworks = {}
  <2>1. t.categories = WithRow(tx[s].categories, c, row) /\ t.artworks = tx[s].artworks
    BY <1>6
  <2>2. \A o \in Sessions \ {s} :
            DOMAIN WithRow(tx[s].categories, c, row) \cap DOMAIN tx[o].categories = {}
    BY <1>1, OneCategoryMore
  <2>3. \A o \in Sessions \ {s} :
            DOMAIN tx[s].artworks \cap DOMAIN tx[o].artworks = {}
    BY DEF XInv, Apart
  <2> QED BY <2>1, <2>2, <2>3
<1>9. t.kind = tx[s].kind /\ tx[s].kind # "none"
  <2>1. DOMAIN Idle.totals = {}
    BY DEF Idle, Transaction, Nothing
  <2> QED BY <1>1, <1>2, <1>6, <2>1 DEF TransactionOK, PhaseOK
<1> QED BY <1>1, <1>5, <1>7, <1>8, <1>9, StepMoves

----------------------------------------------------------------------------
(* The ends of transactions. *)

LEMMA CommitExact ==
    ASSUME NEW cats, NEW rows, TablesOK(cats, rows),
           NEW v, TransactionOK(v, cats, rows), Finished(v),
           \/ v.kind = "write" /\ \A c \in CategoryIds : cats[c].artwork_count = Media(rows, c)
           \/ v.kind # "write" /\ ~v.raced,
           NEW c \in CategoryIds
    PROVE  Over(v.categories, cats)[c].artwork_count = Media(Merged(v.artworks, rows), c)
<1>1. Over(v.categories, cats)[c].artwork_count = Seen(v, cats, c)
  BY CommittedTables
<1>2. Media(Merged(v.artworks, rows), c) = Media(rows, c) + Net(v.artworks, rows, c)
  BY MediaOfMerged DEF TransactionOK
<1>3. CASE v.kind = "write"
  <2>1. ~Recounting(v) /\ v.kind # "reset"
    <3>1. Len(SeedPlan) \in Nat
      BY PlanAndBound, LenProperties
    <3> QED BY <1>3, <3>1 DEF TransactionOK, PhaseOK, Recounting
  <2>2. Seen(v, cats, c) = cats[c].artwork_count + Net(v.artworks, rows, c)
    BY <2>1, CommittedCounter
  <2> QED BY <1>1, <1>2, <1>3, <2>2
<1>4. CASE v.kind # "write"
  <2>1. Seen(v, cats, c) = Media(rows, c) + Net(v.artworks, rows, c)
    BY <1>4, CommittedRecount DEF Finished
  <2> QED BY <1>1, <1>2, <2>1
<1> QED BY <1>3, <1>4

(* What the commit of s leaves of another transaction. *)
LEMMA OtherAfterCommit ==
    ASSUME XInv, NEW s \in Sessions, Finished(tx[s]), NEW o \in Sessions \ {s},
           NEW raced, raced = (tx[o].raced \/ RacedBy(s, o)),
           NEW u, u = [tx[o] EXCEPT !.raced = raced]
    PROVE  /\ u.kind = tx[o].kind
           /\ u.categories = tx[o].categories /\ u.artworks = tx[o].artworks
           /\ TransactionOK(u, Over(tx[s].categories, categories),
                               Merged(tx[s].artworks, artworks))
<1> DEFINE t == tx[o]
           v == tx[s]
<1>1. /\ TablesOK(categories, artworks)
      /\ TransactionOK(v, categories, artworks) /\ TransactionOK(t, categories, artworks)
      /\ Apart(t, v) /\ IsRecord(t) /\ t.raced \in BOOLEAN
  BY DEF XInv, TransactionOK, PhaseOK
<1>2. u = [kind |-> t.kind, categories |-> t.categories, artworks |-> t.artworks,
           adjust |-> t.adjust, totals |-> t.totals, at |-> t.at, raced |-> raced]
  BY <1>1 DEF IsRecord
<1>3. /\ IsRecord(u) /\ u.kind = t.kind /\ u.at = t.at
      /\ u.categories = t.categories /\ u.artworks = t.artworks
      /\ u.adjust = t.adjust /\ u.totals = t.totals /\ u.raced = raced
  BY <1>2 DEF IsRecord
<1>4. raced \in BOOLEAN
  BY <1>1
<1>5. /\ raced => t.raced \/ Recounting(t)
      /\ Recounting(t) /\ ~raced =>
            ~t.raced /\ ~v.raced /\ DOMAIN v.categories \cap DOMAIN t.totals = {}
  BY DEF RacedBy, Recounting
<1> HIDE DEF t, v
<1>6. CASE t.kind # "none"
  <2>1. /\ u.raced \in BOOLEAN
        /\ u.raced => t.raced \/ Recounting(t)
        /\ Recounting(t) /\ ~u.raced =>
                ~t.raced /\ ~v.raced /\ DOMAIN v.categories \cap DOMAIN t.totals = {}
    BY <1>3, <1>4, <1>5
  <2>2. Finished(v)
    BY DEF v
  <2>3. TransactionOK(u, Over(v.categories, categories), Merged(v.artworks, artworks))
    BY <1>1, <1>3, <1>6, <2>1, <2>2, OthersStayOK
  <2> QED BY <1>3, <2>3 DEF t, v
<1>7. CASE t.kind = "none"
  <2>1. t = Idle
    BY <1>1, <1>7 DEF TransactionOK, PhaseOK
  <2>2. ~Recounting(Idle) /\ ~Idle.raced /\ Idle.raced \in BOOLEAN
    BY <1>1, <2>1, IdleOwesNothing DEF Idle, Transaction
  <2>3. raced = t.raced
    BY <1>4, <1>5, <2>1, <2>2
  <2>4. u = t
    BY <1>1, <1>2, <2>3 DEF IsRecord
  <2>5. TransactionOK(Idle, Over(v.categories, categories), Merged(v.artworks, artworks))
    BY <1>1, CommittedTables, IdleOwesNothing
  <2> QED BY <1>3, <2>1, <2>4, <2>5 DEF t, v
<1> QED BY <1>6, <1>7

LEMMA CommitEnds ==
    ASSUME XInv, NEW s \in Sessions, Commit(s)
    PROVE  XInv'
<1> DEFINE v == tx[s]
           cats2 == Over(v.categories, categories)
           rows2 == Merged(v.artworks, artworks)
<1>1. /\ TablesOK(categories, artworks) /\ TransactionOK(v, categories, artworks)
      /\ drifted \in BOOLEAN /\ v.raced \in BOOLEAN /\ begun \in 0 .. MaxBegun
  BY DEF XInv, TransactionOK, PhaseOK
<1>2. /\ categories' = cats2 /\ artworks' = rows2 /\ begun' = begun
      /\ drifted' = IF v.kind = "write" THEN drifted ELSE v.raced
      /\ tx' = [o \in Sessions |-> IF o = s THEN Idle
                                   ELSE [tx[o] EXCEPT !.raced = @ \/ RacedBy(s, o)]]
  BY DEF Commit, CategoriesSeen, ArtworksSeen, Merged
<1>3. Finished(v)
  <2>1. DOMAIN Nothing = {}
    BY DEF Nothing
  <2> QED BY <1>1, <2>1 DEF Commit, Settled, Complete, Script, Finished, Recounting, TransactionOK, PhaseOK
<1>4. TablesOK(cats2, rows2)
  BY <1>1, CommittedTables
<1>5. ~drifted' => \A c \in CategoryIds : cats2[c].artwork_count = Media(rows2, c)
  <2> SUFFICES ASSUME ~drifted', NEW c \in CategoryIds
               PROVE  cats2[c].artwork_count = Media(rows2, c)
    OBVIOUS
  <2>1. CASE v.kind = "write"
    <3>1. \A d \in CategoryIds : categories[d].artwork_count = Media(artworks, d)
      BY <1>1, <1>2, <2>1, ExactOnTheTree DEF XInv, ExactUnlessDrifted
    <3> QED BY <1>1, <1>3, <2>1, <3>1, CommitExact
  <2>2. CASE v.kind # "write"
    BY <1>1, <1>2, <1>3, <2>2, CommitExact
  <2> QED BY <2>1, <2>2
<1>6. \A o \in Sessions \ {s} : /\ tx'[o].kind = tx[o].kind
                                /\ tx'[o].categories = tx[o].categories
                                /\ tx'[o].artworks = tx[o].artworks
                                /\ TransactionOK(tx'[o], cats2, rows2)
  <2> TAKE o \in Sessions \ {s}
  <2> DEFINE raced == (tx[o].raced \/ RacedBy(s, o))
             u == [tx[o] EXCEPT !.raced = raced]
  <2>1. tx'[o] = u
    BY <1>2
  <2> HIDE DEF raced
  <2>2. raced = (tx[o].raced \/ RacedBy(s, o)) /\ u = [tx[o] EXCEPT !.raced = raced]
    BY DEF raced
  <2> HIDE DEF u
  <2> QED BY <1>3, <2>1, <2>2, OtherAfterCommit
<1> HIDE DEF cats2, rows2
<1>7. tx'[s] = Idle /\ tx' = [o \in Sessions |-> tx'[o]]
  BY <1>2
<1>8. /\ TransactionOK(Idle, cats2, rows2)
      /\ Idle.kind = "none" /\ DOMAIN Idle.categories = {} /\ DOMAIN Idle.artworks = {}
  BY <1>4, IdleOwesNothing DEF Idle, Transaction, Nothing
<1>9. \A o \in Sessions : TransactionOK(tx'[o], categories', artworks')
  BY <1>2, <1>6, <1>7, <1>8
<1>10. \A p \in Sessions : \A o \in Sessions \ {p} : Apart(tx'[p], tx'[o])
  <2> SUFFICES ASSUME NEW p \in Sessions, NEW o \in Sessions \ {p}
               PROVE  Apart(tx'[p], tx'[o])
    OBVIOUS
  <2>1. CASE p = s
    BY <1>7, <1>8, <2>1 DEF Apart
  <2>2. CASE o = s
    BY <1>7, <1>8, <2>2 DEF Apart
  <2>3. CASE p # s /\ o # s
    <3>1. Apart(tx[p], tx[o])
      BY DEF XInv
    <3> QED BY <1>6, <2>3, <3>1 DEF Apart
  <2> QED BY <2>1, <2>2, <2>3
<1>11. TablesOK(categories', artworks')
  BY <1>2, <1>4
<1>12. ExactUnlessDrifted'
  BY <1>2, <1>5, <1>11, ExactOnTheTreeNext DEF ExactUnlessDrifted
<1>13. drifted' \in BOOLEAN /\ begun' \in 0 .. MaxBegun
  BY <1>1, <1>2
<1> QED BY <1>7, <1>9, <1>10, <1>11, <1>12, <1>13 DEF XInv

LEMMA EndedMoves ==
    ASSUME XInv, NEW s \in Sessions, Ended(s)
    PROVE  XInv'
<1>1. TransactionOK(Idle, categories, artworks)
  BY IdleOwesNothing DEF XInv
<1>2. Idle.kind = "none" /\ DOMAIN Idle.categories = {} /\ DOMAIN Idle.artworks = {}
  BY DEF Idle, Transaction, Nothing
<1>3. \A o \in Sessions \ {s} : Apart(Idle, tx[o])
  BY <1>2 DEF Apart
<1>4. /\ tx' = [tx EXCEPT ![s] = Idle] /\ UNCHANGED <<vars, drifted>>
      /\ begun' \in 0 .. MaxBegun
  BY DEF Ended, XInv
<1> HIDE DEF Idle
<1> QED BY <1>1, <1>3, <1>4, OneSessionMoves

----------------------------------------------------------------------------
(* The invariant is inductive. *)

LEMMA InitXInv ==
    ASSUME TxInit
    PROVE  XInv
<1> DEFINE above == UNION {CountersOf(artworks[a].category_id) : a \in DOMAIN artworks}
           exact == [c \in CategoryIds |-> IF c \in above THEN 1 ELSE 0]
<1>1. TablesOK(categories, artworks)
  <2>1. PICK c \in CategoryIds, n \in 0 .. 1 :
            categories = [d \in CategoryIds |->
                [Tree[d] EXCEPT !.artwork_count = IF d = c THEN n ELSE exact[d]]]
    BY DEF TxInit
  <2>2. \A d \in CategoryIds : (IF d = c THEN n ELSE exact[d]) \in Nat
    OBVIOUS
  <2> HIDE DEF exact
  <2>3. \A d \in CategoryIds : /\ categories[d] \in CategoryRow
                               /\ categories[d].parent_id = Tree[d].parent_id
    BY <2>1, <2>2, TreeIsOneLevel DEF CategoryRow
  <2>4. categories \in [CategoryIds -> CategoryRow] /\ RowsOfTree(categories)
    BY <2>1, <2>3 DEF RowsOfTree
  <2>5. /\ DOMAIN artworks \subseteq ArtworkIds /\ artworks \in [DOMAIN artworks -> LeafRow]
        /\ IsFiniteSet(DOMAIN artworks)
    <3>1. CASE artworks = Nothing
      BY <3>1, FS_EmptySet DEF Nothing
    <3>2. ASSUME NEW a \in ArtworkIds, NEW d \in CategoryIds, Tree[d].parent_id # NULL,
                 artworks = [x \in {a} |-> [category_id |-> d, is_active |-> TRUE]]
          PROVE  /\ DOMAIN artworks \subseteq ArtworkIds
                 /\ artworks \in [DOMAIN artworks -> LeafRow]
                 /\ IsFiniteSet(DOMAIN artworks)
      <4>1. [category_id |-> d, is_active |-> TRUE] \in LeafRow
        BY <3>2, RowsAreRecords
      <4> QED BY <3>2, <4>1, FS_Singleton
    <3> QED BY <3>1, <3>2 DEF TxInit
  <2> QED BY <2>4, <2>5 DEF TablesOK
<1>2. tx = [s \in Sessions |-> tx[s]] /\ \A s \in Sessions : tx[s] = Idle
  BY DEF TxInit
<1>3. \A s \in Sessions : TransactionOK(tx[s], categories, artworks)
  BY <1>1, <1>2, IdleOwesNothing
<1>4. \A s \in Sessions : \A o \in Sessions \ {s} : Apart(tx[s], tx[o])
  <2>1. Idle.kind = "none" /\ DOMAIN Idle.categories = {} /\ DOMAIN Idle.artworks = {}
    BY DEF Idle, Transaction, Nothing
  <2> QED BY <1>2, <2>1 DEF Apart
<1>5. drifted \in BOOLEAN /\ ExactUnlessDrifted
  BY DEF TxInit, ExactUnlessDrifted, CountsExact
<1>6. begun \in 0 .. MaxBegun
  BY PlanAndBound DEF TxInit
<1> QED BY <1>1, <1>2, <1>3, <1>4, <1>5, <1>6 DEF XInv

LEMMA SessionMoves ==
    ASSUME XInv, NEW s \in Sessions, Start(s) \/ Step(s) \/ Rollback(s)
    PROVE  XInv'
<1>1. ASSUME Start(s) PROVE XInv'
  BY <1>1, StatementWrites, WriteBegins, TouchBegins, RecountBegins, SeedBegins, ResetBegins
  DEF Start
<1>2. ASSUME Step(s) PROVE XInv'
  BY <1>2, SeedCategoryStep, SeedMediumStep, SeedRecountStep, AdjustRowStep, RecountRowStep,
     CommitEnds DEF Step
<1>3. ASSUME Rollback(s) PROVE XInv'
  BY <1>3, EndedMoves DEF Rollback
<1> QED BY <1>1, <1>2, <1>3

LEMMA StutterXInv ==
    ASSUME XInv, UNCHANGED txVars
    PROVE  XInv'
<1>1. /\ categories' = categories /\ artworks' = artworks
      /\ tx' = tx /\ drifted' = drifted /\ begun' = begun
  BY DEF txVars, vars
<1>2. ExactUnlessDrifted'
  BY <1>1 DEF XInv, ExactUnlessDrifted, CountsExact, IsRoot, Children, Counted, ActiveIn
<1> QED BY <1>1, <1>2 DEF XInv

LEMMA XInvAlways == TxSpec => []XInv
<1>1. TxInit => XInv
  BY InitXInv
<1>2. XInv /\ [TxNext]_txVars => XInv'
  BY SessionMoves, StutterXInv DEF TxNext
<1> QED BY <1>1, <1>2, PTL DEF TxSpec

(* Whatever transactions run side by side, counters that were exact stay   *)
(* exact and a recount that nobody has raced makes them exact              *)
(* (002_triggers.sql:31-38, :74-100).                                      *)
THEOREM CountersExactUnderConcurrency == TxSpec => []ExactUnlessDrifted
<1>1. XInv => ExactUnlessDrifted
  BY DEF XInv
<1> QED BY <1>1, XInvAlways, PTL

(* Committed tables and the versions of every open transaction stay well   *)
(* formed, and no row is locked by two of them.                            *)
THEOREM TransactionsTypeCorrect == TxSpec => []TxTypeOK
<1>1. XInv => TxTypeOK
  <2> SUFFICES ASSUME XInv PROVE TxTypeOK
    OBVIOUS
  <2>1. TypeOK
    <3>1. LeafRow \subseteq ArtworkRow
      BY DEF LeafRow
    <3> QED BY <3>1 DEF XInv, TablesOK, TypeOK
  <2>2. ASSUME NEW s \in Sessions
        PROVE  /\ tx[s].kind \in {"none", "write", "recount", "seed", "reset"}
               /\ tx[s].categories \in [DOMAIN tx[s].categories -> CategoryRow]
               /\ tx[s].artworks \in [DOMAIN tx[s].artworks -> ArtworkRow \cup {NULL}]
               /\ tx[s].adjust \in Seq([rows : (SUBSET CategoryIds) \ {{}}, delta : {-1, 1}])
               /\ tx[s].totals \in [DOMAIN tx[s].totals -> Nat]
               /\ tx[s].at \in 1 .. Len(SeedPlan) + 2
               /\ tx[s].kind = "none" => tx[s] = Idle
    <3>1. TransactionOK(tx[s], categories, artworks)
      BY DEF XInv
    <3>2. tx[s].artworks \in [DOMAIN tx[s].artworks -> ArtworkRow \cup {NULL}]
      BY <3>1 DEF TransactionOK, VersionsOK, LeafRow
    <3> QED BY <3>1, <3>2 DEF TransactionOK, CountersOK, PhaseOK, CallsOK, Call
  <2>3. \A s \in Sessions : \A o \in Sessions \ {s} :
            /\ DOMAIN tx[s].categories \cap DOMAIN tx[o].categories = {}
            /\ DOMAIN tx[s].artworks \cap DOMAIN tx[o].artworks = {}
    BY DEF XInv, Apart
  <2>4. drifted \in BOOLEAN /\ begun \in 0 .. MaxBegun
    BY DEF XInv
  <2> QED BY <2>1, <2>2, <2>3, <2>4 DEF TxTypeOK
<1> QED BY <1>1, XInvAlways, PTL

(* A counter is at least 1 wherever a transaction is to take 1 from it.    *)
LEMMA EnoughToTake ==
    ASSUME NEW cats, NEW rows, TablesOK(cats, rows),
           NEW t, TransactionOK(t, cats, rows), t.adjust # <<>>,
           NEW c \in Head(t.adjust).rows, c \in CategoryIds,
           cats[c].artwork_count = Media(rows, c)
    PROVE  Seen(t, cats, c) + Head(t.adjust).delta >= 0
<1>1. /\ t.adjust \in Seq(Call) /\ Len(t.adjust) <= 2
      /\ \A i \in DOMAIN t.adjust : t.adjust[i].delta = -1 =>
            /\ i = 1 /\ t.kind = "write"
            /\ \A d \in CategoryIds : Due(t.adjust, 2, d) <= Cardinality(Plus(t.artworks, d))
  BY DEF TransactionOK, CallsOK
<1>2. /\ Head(t.adjust) = t.adjust[1] /\ 1 \in DOMAIN t.adjust /\ t.adjust[1] \in Call
  BY <1>1, HeadTailProperties, ElementOfSeq, LenProperties
<1>3. t.adjust[1].delta \in {-1, 1}
  BY <1>2 DEF Call
<1>4. Seen(t, cats, c) \in Nat
  BY DEF Seen, TransactionOK, CountersOK, TablesOK, CategoryRow
<1>5. CASE t.adjust[1].delta = 1
  BY <1>2, <1>4, <1>5
<1>6. CASE t.adjust[1].delta = -1
  <2>1. /\ t.kind = "write" /\ ~Recounting(t)
        /\ Due(t.adjust, 2, c) <= Cardinality(Plus(t.artworks, c))
    BY <1>1, <1>2, <1>6 DEF TransactionOK, PhaseOK, Recounting
  <2>2. Pending(t.adjust, c) = Due(t.adjust, 2, c) - 1 /\ Due(t.adjust, 2, c) \in Int
    <3>1. Due(t.adjust, 1, c) = -1
      BY <1>2, <1>6 DEF Due
    <3>2. Due(t.adjust, 2, c) \in Int
      <4>1. 2 \in DOMAIN t.adjust => t.adjust[2] \in Call
        BY <1>1, ElementOfSeq, LenProperties
      <4> QED BY <4>1 DEF Due, Call
    <3> QED BY <3>1, <3>2 DEF Pending
  <2>3. /\ Cardinality(Plus(t.artworks, c)) \in Nat
        /\ Cardinality(Minus(t.artworks, rows, c)) \in Nat
    BY PlusMinusFinite DEF TransactionOK, VersionsOK
  <2>4. Media(rows, c) \in Nat /\ Cardinality(Minus(t.artworks, rows, c)) <= Media(rows, c)
    BY MediaFinite DEF TablesOK
  <2>5. /\ c \notin DOMAIN t.categories => Pending(t.adjust, c) = Net(t.artworks, rows, c)
        /\ c \in DOMAIN t.categories =>
                Seen(t, cats, c) + Pending(t.adjust, c)
                    = cats[c].artwork_count + Net(t.artworks, rows, c)
        /\ c \notin DOMAIN t.categories => Seen(t, cats, c) = cats[c].artwork_count
    BY <2>1 DEF TransactionOK, OwedOK, Seen
  <2>6. Seen(t, cats, c) >= 1
    BY <1>4, <2>1, <2>2, <2>3, <2>4, <2>5 DEF Net
  <2> QED BY <1>2, <1>4, <1>6, <2>6
<1> QED BY <1>3, <1>5, <1>6

(* While the counters are exact the constraint that keeps them from        *)
(* falling below zero refuses no statement, however long it waited for the *)
(* row (001_init.sql:32).                                                  *)
THEOREM NoStatementRefused == TxSpec => []NothingRefused
<1>1. XInv => NothingRefused
  <2> SUFFICES ASSUME XInv, ~drifted, NEW s \in Sessions, Refused(s)
               PROVE  FALSE
    BY DEF NothingRefused
  <2>1. PICK c \in CategoryIds : Adjusts(s, c) /\ Adjusted(s, c).artwork_count < 0
    BY DEF Refused
  <2>2. /\ TablesOK(categories, artworks) /\ TransactionOK(tx[s], categories, artworks)
        /\ tx[s].adjust # <<>> /\ c \in Head(tx[s].adjust).rows
    BY <2>1 DEF XInv, Adjusts
  <2>3. categories[c].artwork_count = Media(artworks, c)
    BY <2>2, ExactOnTheTree DEF XInv, ExactUnlessDrifted
  <2>4. Seen(tx[s], categories, c) + Head(tx[s].adjust).delta >= 0
    BY <2>2, <2>3, EnoughToTake
  <2>5. CategoriesSeen(s)[c] \in CategoryRow
        /\ CategoriesSeen(s)[c].artwork_count = Seen(tx[s], categories, c)
    BY <2>2, RowSeen DEF Seen, TransactionOK, CountersOK, TablesOK
  <2>6. Adjusted(s, c).artwork_count = Seen(tx[s], categories, c) + Head(tx[s].adjust).delta
    BY <2>5 DEF Adjusted, CategoryRow
  <2>7. Seen(tx[s], categories, c) + Head(tx[s].adjust).delta < 0
    BY <2>1, <2>6
  <2>8. Seen(tx[s], categories, c) + Head(tx[s].adjust).delta \in Int
    <3>1. tx[s].adjust \in Seq(Call)
      BY <2>2 DEF TransactionOK, CallsOK
    <3>2. Head(tx[s].adjust) \in Call
      BY <2>2, <3>1, HeadTailProperties
    <3>3. Seen(tx[s], categories, c) \in Nat
      BY <2>5 DEF CategoryRow
    <3> QED BY <3>2, <3>3 DEF Call
  <2> QED BY <2>4, <2>7, <2>8
<1> QED BY <1>1, XInvAlways, PTL

----------------------------------------------------------------------------
(***************************************************************************)
(* A transaction of one statement commits what that statement does in      *)
(* Catalogue.  XInv says so of the counters; for the rest, a transaction   *)
(* of this kind writes one row of artworks, the one its calls are for, and *)
(* only counters of categories.  Catalogue also asks that every counter    *)
(* that goes down was at least 1 by itself, before anything is added: the  *)
(* transaction has seen to that at each counter that it has locked.        *)
(***************************************************************************)

RowWith(c, n) == [Tree[c] EXCEPT !.artwork_count = n]

TreeRows(table) == \A c \in DOMAIN table : table[c] = RowWith(c, table[c].artwork_count)

(* The category that counts a version of a row, NULL for one that is gone. *)
Counting(row) == IF row = NULL THEN NULL ELSE CountedAs(row)

Untaken(calls, c) == 1 \in DOMAIN calls /\ calls[1].delta = -1 /\ c \in calls[1].rows

TakesFrom(from, to, t, cats) ==
    from # NULL /\ from # to =>
        \A c \in CountersOf(from) :
            \/ Untaken(t.adjust, c)
            \/ c \in DOMAIN t.categories /\ cats[c].artwork_count >= 1

StatementOK(t, cats, rows) ==
    /\ t.kind = "recount" => DOMAIN t.artworks = {}
    /\ t.kind = "write" =>
        /\ \A a, b \in DOMAIN t.artworks : a = b
        /\ \A a \in DOMAIN t.artworks :
            /\ a \in DOMAIN rows \/ t.artworks[a] # NULL
            /\ TakesFrom(CountsFor(rows, a), Counting(t.artworks[a]), t, cats)
        /\ \A c \in CategoryIds : Untaken(t.adjust, c) => c \notin DOMAIN t.categories

SInv ==
    /\ XInv
    /\ TreeRows(categories)
    /\ \A s \in Sessions : /\ TreeRows(tx[s].categories)
                           /\ StatementOK(tx[s], categories, artworks)

LEMMA RowsWith ==
    ASSUME NEW c \in CategoryIds
    PROVE  /\ Tree[c] = RowWith(c, Tree[c].artwork_count)
           /\ \A n : /\ RowWith(c, n).artwork_count = n
                     /\ RowWith(c, n).parent_id = Tree[c].parent_id
           /\ \A n \in Int : RowWith(c, n) \in IntRow
<1>1. Tree[c] \in CategoryRow
  BY TreeIsOneLevel
<1> QED BY <1>1 DEF RowWith, CategoryRow, IntRow

LEMMA CounterSet ==
    ASSUME NEW c \in CategoryIds, NEW n, NEW m, NEW row, row = RowWith(c, n),
           NEW new, new = [row EXCEPT !.artwork_count = m]
    PROVE  new = RowWith(c, m)
<1>1. Tree[c] \in CategoryRow
  BY TreeIsOneLevel
<1> QED BY <1>1 DEF RowWith, CategoryRow

LEMMA OneRowMore ==
    ASSUME NEW table, TreeRows(table), DOMAIN table \subseteq CategoryIds,
           NEW c \in CategoryIds, NEW n, NEW row, row = RowWith(c, n)
    PROVE  TreeRows(WithRow(table, c, row))
<1>1. row = RowWith(c, row.artwork_count)
  BY RowsWith
<1> QED BY <1>1 DEF TreeRows, WithRow

LEMMA MergedTreeRows ==
    ASSUME NEW cats, TreeRows(cats), NEW new, TreeRows(new)
    PROVE  TreeRows(Over(new, cats))
  BY DEF TreeRows, Over

(* The statement has been issued and its triggers called. *)
LEMMA FirstCallTakes ==
    ASSUME NEW from \in CategoryIds, NEW to \in CategoryIds \cup {NULL}, from # to
    PROVE  \A c \in CountersOf(from) : Untaken(Calls(from, to), c)
<1> DEFINE call(x, delta) == [rows |-> CountersOf(x), delta |-> delta]
<1>1. from # NULL /\ call(from, -1) \in Call /\ (to # NULL => call(to, 1) \in Call)
  BY CountersAreAbove, NullIsNoValue DEF Call
<1>2. call(from, -1).rows = CountersOf(from) /\ call(from, -1).delta = -1
  OBVIOUS
<1> HIDE DEF call
<1>3. CASE to = NULL
  <2>1. Calls(from, to) = <<call(from, -1)>>
    BY <1>1, <1>3 DEF Calls, call
  <2> QED BY <1>2, <2>1 DEF Untaken
<1>4. CASE to # NULL
  <2>1. Calls(from, to) = <<call(from, -1)>> \o <<call(to, 1)>>
    BY <1>1, <1>4 DEF Calls, call
  <2>2. Calls(from, to) = <<call(from, -1), call(to, 1)>>
    BY <1>1, <1>4, <2>1, PairOfTwo
  <2> QED BY <1>2, <2>2 DEF Untaken
<1> QED BY <1>3, <1>4

LEMMA CountingRows ==
    /\ \A row \in LeafRow : CountedAs(row) \in CategoryIds \cup {NULL}
    /\ \A row \in LeafRow \cup {NULL} : Counting(row) \in CategoryIds \cup {NULL}
    /\ \A row \in LeafRow : Counting(row) = CountedAs(row)
  BY RowsAreRecords DEF Counting, CountedAs

LEMMA WriteStatement ==
    ASSUME NEW cats, NEW rows, TablesOK(cats, rows), NEW a,
           NEW old, old = IF a \in DOMAIN rows THEN rows[a] ELSE NULL,
           NEW new \in LeafRow \cup {NULL}, a \in DOMAIN rows \/ new # NULL,
           NEW t, t.kind = "write", DOMAIN t.categories = {},
           DOMAIN t.artworks = {a}, t.artworks[a] = new,
           t.adjust = Adjustments(old, new)
    PROVE  StatementOK(t, cats, rows)
<1>1. /\ Counting(old) = CountsFor(rows, a)
      /\ Counting(old) \in CategoryIds \cup {NULL} /\ Counting(new) \in CategoryIds \cup {NULL}
  BY CountingRows DEF TablesOK, CountsFor, Counting
<1>2. t.adjust = Calls(Counting(old), Counting(new))
  BY DEF Adjustments, Counting
<1>3. TakesFrom(CountsFor(rows, a), Counting(t.artworks[a]), t, cats)
  BY <1>1, <1>2, FirstCallTakes DEF TakesFrom
<1> QED BY <1>3 DEF StatementOK

(* A call comes to one of its rows. *)
LEMMA AdjustStatement ==
    ASSUME NEW cats, NEW rows, TablesOK(cats, rows),
           NEW t, TransactionOK(t, cats, rows), StatementOK(t, cats, rows),
           NEW c \in CategoryIds, NEW u, FirstCallLoses(t.adjust, c, u.adjust),
           Seen(t, cats, c) + t.adjust[1].delta >= 0,
           u.kind = t.kind, u.artworks = t.artworks,
           DOMAIN u.categories = DOMAIN t.categories \cup {c}
    PROVE  StatementOK(u, cats, rows)
<1>1. /\ DOMAIN t.adjust \subseteq {1, 2} /\ 1 \in DOMAIN t.adjust /\ c \in t.adjust[1].rows
      /\ 2 \in DOMAIN t.adjust => t.adjust[2].delta # -1
  BY DEF FirstCallLoses, SmallCalls, FirstCallDone, FirstCallGoesOn, TransactionOK, CallsOK
<1>2. \A d : Untaken(u.adjust, d) <=> d # c /\ Untaken(t.adjust, d)
  BY <1>1 DEF Untaken, FirstCallLoses, FirstCallDone, FirstCallGoesOn
<1>3. CASE t.kind # "write"
  BY <1>3 DEF StatementOK
<1>4. CASE t.kind = "write"
  <2>1. \A d \in CategoryIds : Untaken(u.adjust, d) => d \notin DOMAIN u.categories
    BY <1>2, <1>4 DEF StatementOK
  <2>2. Untaken(t.adjust, c) => cats[c].artwork_count >= 1
    <3>1. SUFFICES ASSUME Untaken(t.adjust, c) PROVE cats[c].artwork_count >= 1
      OBVIOUS
    <3>2. Seen(t, cats, c) = cats[c].artwork_count /\ t.adjust[1].delta = -1
      BY <1>4, <3>1 DEF StatementOK, Seen, Untaken
    <3>3. cats[c].artwork_count \in Nat
      BY DEF TablesOK, CategoryRow
    <3> QED BY <3>2, <3>3
  <2>3. ASSUME NEW from, NEW to, TakesFrom(from, to, t, cats)
        PROVE  TakesFrom(from, to, u, cats)
    BY <1>2, <2>2, <2>3 DEF TakesFrom
  <2>4. \A a \in DOMAIN u.artworks :
            /\ a \in DOMAIN rows \/ u.artworks[a] # NULL
            /\ TakesFrom(CountsFor(rows, a), Counting(u.artworks[a]), u, cats)
    BY <1>4, <2>3 DEF StatementOK
  <2> QED BY <1>4, <2>1, <2>4 DEF StatementOK
<1> QED BY <1>3, <1>4

(* The commit of v leaves alone what t is about. *)
LEMMA OtherStatement ==
    ASSUME NEW cats, NEW rows, TablesOK(cats, rows),
           NEW v, TransactionOK(v, cats, rows),
           NEW t, TransactionOK(t, cats, rows), StatementOK(t, cats, rows), Apart(t, v),
           NEW u, u.kind = t.kind, u.categories = t.categories, u.artworks = t.artworks,
           u.adjust = t.adjust
    PROVE  StatementOK(u, Over(v.categories, cats), Merged(v.artworks, rows))
<1> DEFINE cats2 == Over(v.categories, cats)
           rows2 == Merged(v.artworks, rows)
<1>1. \A a \in DOMAIN t.artworks : /\ a \in DOMAIN rows2 <=> a \in DOMAIN rows
                                   /\ CountsFor(rows2, a) = CountsFor(rows, a)
  <2>1. VersionsOK(v.artworks) /\ DOMAIN t.artworks \cap DOMAIN v.artworks = {}
    BY DEF TransactionOK, Apart
  <2>2. /\ DOMAIN rows2 = {a \in DOMAIN v.artworks : v.artworks[a] # NULL}
                            \cup (DOMAIN rows \ DOMAIN v.artworks)
        /\ \A a \in DOMAIN rows2 : rows2[a] =
            IF a \in DOMAIN v.artworks THEN v.artworks[a] ELSE rows[a]
    BY <2>1, MergedRows
  <2> HIDE DEF rows2
  <2> QED BY <2>1, <2>2 DEF CountsFor
<1>2. \A c \in DOMAIN t.categories : cats2[c] = cats[c]
  BY DEF Over, Apart, TransactionOK, CountersOK, TablesOK
<1> HIDE DEF cats2, rows2
<1>3. ASSUME NEW from, NEW to, TakesFrom(from, to, t, cats)
      PROVE  TakesFrom(from, to, u, cats2)
  BY <1>2, <1>3 DEF TakesFrom
<1>4. ASSUME t.kind = "write", NEW a \in DOMAIN t.artworks
      PROVE  /\ a \in DOMAIN rows2 \/ u.artworks[a] # NULL
             /\ TakesFrom(CountsFor(rows2, a), Counting(u.artworks[a]), u, cats2)
  BY <1>1, <1>3, <1>4 DEF StatementOK
<1>5. StatementOK(u, cats2, rows2)
  BY <1>4 DEF StatementOK
<1> QED BY <1>5 DEF cats2, rows2

LEMMA IdleStatement ==
    /\ TreeRows(Idle.categories) /\ DOMAIN Idle.categories = {} /\ DOMAIN Idle.artworks = {}
    /\ Idle.kind = "none" /\ Idle.adjust = <<>>
    /\ \A cats, rows : StatementOK(Idle, cats, rows)
  BY DEF Idle, Transaction, Nothing, TreeRows, StatementOK

LEMMA InitSInv ==
    ASSUME TxInit
    PROVE  SInv
<1>1. XInv
  BY InitXInv
<1>2. TreeRows(categories)
  <2> DEFINE above == UNION {CountersOf(artworks[a].category_id) : a \in DOMAIN artworks}
             exact == [c \in CategoryIds |-> IF c \in above THEN 1 ELSE 0]
  <2>1. PICK c \in CategoryIds, n \in 0 .. 1 :
            categories = [d \in CategoryIds |->
                [Tree[d] EXCEPT !.artwork_count = IF d = c THEN n ELSE exact[d]]]
    BY DEF TxInit
  <2> DEFINE count(d) == IF d = c THEN n ELSE exact[d]
  <2>2. \A d \in CategoryIds : categories[d] = RowWith(d, count(d))
    BY <2>1 DEF RowWith
  <2> HIDE DEF count
  <2>3. \A d \in CategoryIds : categories[d] = RowWith(d, categories[d].artwork_count)
    BY <2>2, RowsWith
  <2> QED BY <2>1, <2>3 DEF TreeRows
<1>3. \A s \in Sessions : tx[s] = Idle
  BY DEF TxInit
<1> QED BY <1>1, <1>2, <1>3, IdleStatement DEF SInv

LEMMA OneStatementMoves ==
    ASSUME SInv, XInv', NEW s \in Sessions, NEW t, tx' = [tx EXCEPT ![s] = t],
           UNCHANGED vars,
           TreeRows(t.categories), StatementOK(t, categories, artworks)
    PROVE  SInv'
<1>1. categories' = categories /\ artworks' = artworks
  BY DEF vars
<1>2. tx' = [o \in Sessions |-> IF o = s THEN t ELSE tx[o]]
  BY DEF SInv, XInv
<1>3. \A o \in Sessions : TreeRows(tx'[o].categories)
                          /\ StatementOK(tx'[o], categories', artworks')
  BY <1>1, <1>2 DEF SInv
<1>4. TreeRows(categories')
  BY <1>1 DEF SInv
<1> QED BY <1>3, <1>4 DEF SInv

(* A transaction that begins with no counter locked, or with one. *)
LEMMA BeginStatement ==
    ASSUME SInv, XInv', NEW s \in Sessions, NEW kind, NEW r, Begin(s, kind, r),
           NEW t, t = [r EXCEPT !.kind = kind],
           TreeRows(t.categories), StatementOK(t, categories, artworks)
    PROVE  SInv'
<1>1. tx' = [tx EXCEPT ![s] = t] /\ UNCHANGED vars
  BY DEF Begin
<1> QED BY <1>1, OneStatementMoves

LEMMA WriteStatementBegins ==
    ASSUME SInv, XInv', NEW s \in Sessions, NEW a \in ArtworkIds,
           NEW new \in LeafRow \cup {NULL}, Writes(s, a, new)
    PROVE  SInv'
<1> DEFINE old == Committed(a)
           r == SetArtwork(s, a, old, new)
           t == [r EXCEPT !.kind = "write"]
<1>1. /\ Begin(s, "write", r) /\ (a \in DOMAIN artworks \/ new # NULL)
      /\ old = IF a \in DOMAIN artworks THEN artworks[a] ELSE NULL
  BY DEF Writes, Committed
<1> HIDE DEF old
<1>2. tx[s] = Idle /\ IsRecord(Idle)
  BY <1>1, IdleBeforeBegin DEF SInv
<1>3. r = [kind |-> Idle.kind, categories |-> Idle.categories,
           artworks |-> WithRow(Idle.artworks, a, new), adjust |-> Adjustments(old, new),
           totals |-> Idle.totals, at |-> Idle.at, raced |-> Idle.raced]
  BY <1>2, RowWritten
<1> HIDE DEF r
<1>4. t = [kind |-> "write", categories |-> Idle.categories,
           artworks |-> WithRow(Idle.artworks, a, new), adjust |-> Adjustments(old, new),
           totals |-> Idle.totals, at |-> Idle.at, raced |-> Idle.raced]
  BY <1>3
<1>5. t = [r EXCEPT !.kind = "write"]
  OBVIOUS
<1> HIDE DEF t
<1>6. /\ t.kind = "write" /\ t.categories = Idle.categories /\ t.adjust = Adjustments(old, new)
      /\ DOMAIN t.artworks = {a} /\ t.artworks[a] = new
  BY <1>4, IdleStatement DEF WithRow
<1>7. TablesOK(categories, artworks)
  BY DEF SInv, XInv
<1>8. TreeRows(t.categories) /\ DOMAIN t.categories = {}
  BY <1>6, IdleStatement
<1>9. StatementOK(t, categories, artworks)
  BY <1>1, <1>6, <1>7, <1>8, WriteStatement
<1> QED BY <1>1, <1>5, <1>8, <1>9, BeginStatement

LEMMA TouchStatementBegins ==
    ASSUME SInv, XInv', NEW s \in Sessions, NEW c \in CategoryIds, Touch(s, c)
    PROVE  SInv'
<1> DEFINE r == SetCategory(s, c, categories[c])
           t == [r EXCEPT !.kind = "write"]
<1>1. Begin(s, "write", r)
  BY DEF Touch
<1>2. tx[s] = Idle /\ IsRecord(Idle)
  BY <1>1, IdleBeforeBegin DEF SInv
<1>3. r = [kind |-> Idle.kind, categories |-> WithRow(Idle.categories, c, categories[c]),
           artworks |-> Idle.artworks, adjust |-> Idle.adjust,
           totals |-> Idle.totals, at |-> Idle.at, raced |-> Idle.raced]
  BY <1>2, CounterWritten
<1> HIDE DEF r
<1>4. t = [kind |-> "write", categories |-> WithRow(Idle.categories, c, categories[c]),
           artworks |-> Idle.artworks, adjust |-> Idle.adjust,
           totals |-> Idle.totals, at |-> Idle.at, raced |-> Idle.raced]
  BY <1>3
<1>5. t = [r EXCEPT !.kind = "write"]
  OBVIOUS
<1> HIDE DEF t
<1>6. /\ t.kind = "write" /\ t.categories = WithRow(Idle.categories, c, categories[c])
      /\ t.adjust = <<>> /\ DOMAIN t.artworks = {}
  BY <1>4, IdleStatement
<1>7. TreeRows(t.categories)
  <2>1. categories[c] = RowWith(c, categories[c].artwork_count)
    BY DEF SInv, XInv, TablesOK, TreeRows
  <2> QED BY <1>6, <2>1, IdleStatement, OneRowMore
<1>8. StatementOK(t, categories, artworks)
  BY <1>6 DEF StatementOK, Untaken
<1> QED BY <1>1, <1>5, <1>7, <1>8, BeginStatement

LEMMA OthersBegin ==
    ASSUME SInv, XInv', NEW s \in Sessions, RecountStart(s) \/ SeedStart(s) \/ ResetStart(s)
    PROVE  SInv'
<1>1. CASE RecountStart(s)
  <2> DEFINE r == SetTotals(s)
             t == [r EXCEPT !.kind = "recount"]
  <2>1. Begin(s, "recount", r)
    BY <1>1 DEF RecountStart
  <2>2. tx[s] = Idle /\ IsRecord(Idle)
    BY <2>1, IdleBeforeBegin DEF SInv
  <2>3. r = [kind |-> Idle.kind, categories |-> Idle.categories, artworks |-> Idle.artworks,
             adjust |-> Idle.adjust, totals |-> Totals(s), at |-> Idle.at, raced |-> Idle.raced]
    BY <2>2 DEF SetTotals, IsRecord
  <2> HIDE DEF r
  <2>4. t.kind = "recount" /\ t.categories = Idle.categories /\ t.artworks = Idle.artworks
    BY <2>3
  <2>5. t = [r EXCEPT !.kind = "recount"]
    OBVIOUS
  <2> HIDE DEF t
  <2>6. TreeRows(t.categories) /\ StatementOK(t, categories, artworks)
    BY <2>4, IdleStatement DEF StatementOK
  <2> QED BY <2>1, <2>5, <2>6, BeginStatement
<1>2. CASE SeedStart(s)
  <2> DEFINE t == [Idle EXCEPT !.kind = "seed"]
  <2>1. Begin(s, "seed", Idle)
    BY <1>2 DEF SeedStart
  <2>2. t.kind = "seed" /\ t.categories = Idle.categories
    BY DEF Idle, Transaction
  <2>3. t = [Idle EXCEPT !.kind = "seed"]
    OBVIOUS
  <2> HIDE DEF t
  <2>4. TreeRows(t.categories) /\ StatementOK(t, categories, artworks)
    BY <2>2, IdleStatement DEF StatementOK
  <2> QED BY <2>1, <2>3, <2>4, BeginStatement
<1>3. CASE ResetStart(s)
  <2> DEFINE nulls == [a \in DOMAIN artworks |-> NULL]
             r == [Idle EXCEPT !.artworks = nulls, !.categories = Tree]
             t == [r EXCEPT !.kind = "reset"]
  <2>1. Begin(s, "reset", r)
    BY <1>3 DEF ResetStart
  <2>2. t.kind = "reset" /\ t.categories = Tree
    <3> HIDE DEF nulls
    <3> DEFINE q == [Idle EXCEPT !.artworks = nulls]
    <3>1. q = [kind |-> Idle.kind, categories |-> Idle.categories, artworks |-> nulls,
               adjust |-> Idle.adjust, totals |-> Idle.totals, at |-> Idle.at,
               raced |-> Idle.raced]
      BY <2>1, IdleBeforeBegin DEF SInv, IsRecord
    <3>2. r = [q EXCEPT !.categories = Tree]
      OBVIOUS
    <3> HIDE DEF q, r
    <3>3. r = [kind |-> Idle.kind, categories |-> Tree, artworks |-> nulls,
               adjust |-> Idle.adjust, totals |-> Idle.totals, at |-> Idle.at,
               raced |-> Idle.raced]
      BY <3>1, <3>2
    <3> QED BY <3>3
  <2>3. t = [r EXCEPT !.kind = "reset"]
    OBVIOUS
  <2> HIDE DEF r, t
  <2>4. TreeRows(Tree)
    BY RowsWith, TreeIsOneLevel DEF TreeRows
  <2>5. TreeRows(t.categories) /\ StatementOK(t, categories, artworks)
    BY <2>2, <2>4 DEF StatementOK
  <2> QED BY <2>1, <2>3, <2>5, BeginStatement
<1> QED BY <1>1, <1>2, <1>3

(* What a session sees of a category has the columns of the tree. *)
LEMMA RowSeenOfTree ==
    ASSUME SInv, NEW s \in Sessions, NEW c \in CategoryIds
    PROVE  \E n : CategoriesSeen(s)[c] = RowWith(c, n)
<1>1. CategoriesSeen(s)[c] =
            IF c \in DOMAIN tx[s].categories THEN tx[s].categories[c] ELSE categories[c]
  BY RowSeen DEF SInv
<1>2. c \in DOMAIN categories
  BY DEF SInv, XInv, TablesOK
<1> QED BY <1>1, <1>2 DEF SInv, TreeRows

LEMMA LockedOneMore ==
    ASSUME SInv, NEW s \in Sessions, NEW c \in CategoryIds, NEW n
    PROVE  TreeRows(WithRow(tx[s].categories, c, RowWith(c, n)))
<1>1. DOMAIN tx[s].categories \subseteq CategoryIds
  BY DEF SInv, XInv, TransactionOK, CountersOK
<1> QED BY <1>1, OneRowMore DEF SInv

LEMMA SeedStatementStep ==
    ASSUME SInv, XInv', NEW s \in Sessions,
           \/ \E c \in CategoryIds : SeedCategory(s, c)
           \/ \E a \in ArtworkIds, c \in CategoryIds : SeedMedium(s, a, c)
           \/ SeedRecount(s)
    PROVE  SInv'
<1>1. /\ IsRecord(tx[s]) /\ UNCHANGED vars
      /\ tx[s].kind # "recount" /\ tx[s].kind # "write"
  BY DEF SInv, XInv, TransactionOK, SeedCategory, SeedMedium, SeedRecount, SeedNext, Script
<1>2. \A t : t.kind = tx[s].kind => StatementOK(t, categories, artworks)
  BY <1>1 DEF StatementOK
<1>3. ASSUME NEW c \in CategoryIds, SeedCategory(s, c) PROVE SInv'
  <2> DEFINE row == CategoriesSeen(s)[c]
             r == SetCategory(s, c, row)
             t == [r EXCEPT !.at = @ + 1]
  <2>1. tx' = [tx EXCEPT ![s] = t]
    BY <1>3 DEF SeedCategory
  <2>2. r = [kind |-> tx[s].kind, categories |-> WithRow(tx[s].categories, c, row),
             artworks |-> tx[s].artworks, adjust |-> tx[s].adjust,
             totals |-> tx[s].totals, at |-> tx[s].at, raced |-> tx[s].raced]
    BY <1>1, CounterWritten
  <2> HIDE DEF row, r
  <2>3. t.kind = tx[s].kind /\ t.categories = WithRow(tx[s].categories, c, row)
    BY <2>2
  <2> HIDE DEF t
  <2>4. TreeRows(t.categories)
    BY <2>3, RowSeenOfTree, LockedOneMore DEF row
  <2> QED BY <1>1, <1>2, <2>1, <2>3, <2>4, OneStatementMoves
<1>4. ASSUME NEW a \in ArtworkIds, NEW c \in CategoryIds, SeedMedium(s, a, c) PROVE SInv'
  <2> DEFINE new == [category_id |-> c, is_active |-> TRUE]
             r == SetArtwork(s, a, NULL, new)
             t == [r EXCEPT !.at = @ + 1]
  <2>1. tx' = [tx EXCEPT ![s] = t]
    BY <1>4 DEF SeedMedium
  <2> HIDE DEF new
  <2>2. r = [kind |-> tx[s].kind, categories |-> tx[s].categories,
             artworks |-> WithRow(tx[s].artworks, a, new), adjust |-> Adjustments(NULL, new),
             totals |-> tx[s].totals, at |-> tx[s].at, raced |-> tx[s].raced]
    BY <1>1, RowWritten
  <2> HIDE DEF r
  <2>3. t.kind = tx[s].kind /\ t.categories = tx[s].categories
    BY <2>2
  <2> HIDE DEF t
  <2>4. TreeRows(t.categories)
    BY <2>3 DEF SInv
  <2> QED BY <1>1, <1>2, <2>1, <2>3, <2>4, OneStatementMoves
<1>5. ASSUME SeedRecount(s) PROVE SInv'
  <2> DEFINE r == SetTotals(s)
             t == [r EXCEPT !.at = @ + 1]
  <2>1. tx' = [tx EXCEPT ![s] = t]
    BY <1>5 DEF SeedRecount
  <2>2. r = [kind |-> tx[s].kind, categories |-> tx[s].categories,
             artworks |-> tx[s].artworks, adjust |-> tx[s].adjust,
             totals |-> Totals(s), at |-> tx[s].at, raced |-> tx[s].raced]
    BY <1>1 DEF SetTotals, IsRecord
  <2> HIDE DEF r
  <2>3. t.kind = tx[s].kind /\ t.categories = tx[s].categories
    BY <2>2
  <2> HIDE DEF t
  <2>4. TreeRows(t.categories)
    BY <2>3 DEF SInv
  <2> QED BY <1>1, <1>2, <2>1, <2>3, <2>4, OneStatementMoves
<1> QED BY <1>3, <1>4, <1>5

LEMMA AdjustStatementStep ==
    ASSUME SInv, XInv', NEW s \in Sessions, NEW c \in CategoryIds, AdjustRow(s, c)
    PROVE  SInv'
<1> DEFINE seen == CategoriesSeen(s)[c]
           row == Adjusted(s, c)
           r == SetCategory(s, c, row)
           rest == RestOfCalls(tx[s].adjust, c)
           t == [r EXCEPT !.adjust = rest]
<1>1. /\ tx[s].adjust # <<>> /\ c \in Head(tx[s].adjust).rows
      /\ row.artwork_count >= 0 /\ UNCHANGED vars
  BY DEF AdjustRow, Adjusts
<1>2. /\ TablesOK(categories, artworks)
      /\ TransactionOK(tx[s], categories, artworks) /\ IsRecord(tx[s])
      /\ StatementOK(tx[s], categories, artworks)
  BY DEF SInv, XInv, TransactionOK
<1>3. r = [kind |-> tx[s].kind, categories |-> WithRow(tx[s].categories, c, row),
           artworks |-> tx[s].artworks, adjust |-> tx[s].adjust,
           totals |-> tx[s].totals, at |-> tx[s].at, raced |-> tx[s].raced]
  BY <1>2, CounterWritten
<1>4. tx' = [tx EXCEPT ![s] = t]
  <2>1. r.adjust = tx[s].adjust
    BY <1>3
  <2>2. tx' = [tx EXCEPT ![s] = [r EXCEPT !.adjust =
                    IF Head(tx[s].adjust).rows \ {c} = {} THEN Tail(r.adjust)
                    ELSE [r.adjust EXCEPT ![1].rows = Head(tx[s].adjust).rows \ {c}]]]
    BY DEF AdjustRow
  <2> HIDE DEF r
  <2> QED BY <2>1, <2>2 DEF RestOfCalls
<1>5. row = [seen EXCEPT !.artwork_count = @ + Head(tx[s].adjust).delta]
  BY DEF Adjusted
<1> HIDE DEF seen, row, r, rest
<1>6. /\ t.kind = tx[s].kind /\ t.artworks = tx[s].artworks /\ t.adjust = rest
      /\ t.categories = WithRow(tx[s].categories, c, row)
  BY <1>3
<1> HIDE DEF t
<1>7. PICK n : seen = RowWith(c, n)
  BY RowSeenOfTree DEF seen
<1>8. n = Seen(tx[s], categories, c)
  <2>1. seen = IF c \in DOMAIN tx[s].categories THEN tx[s].categories[c] ELSE categories[c]
    BY RowSeen DEF seen, SInv
  <2>2. seen.artwork_count = Seen(tx[s], categories, c)
    BY <2>1 DEF Seen
  <2>3. seen.artwork_count = n
    BY <1>7, RowsWith
  <2> QED BY <2>2, <2>3
<1>9. /\ row = RowWith(c, n + Head(tx[s].adjust).delta)
      /\ n + Head(tx[s].adjust).delta >= 0
  <2>1. row = [seen EXCEPT !.artwork_count = n + Head(tx[s].adjust).delta]
    BY <1>5, <1>7, RowsWith
  <2>2. row = RowWith(c, n + Head(tx[s].adjust).delta)
    BY <1>7, <2>1, CounterSet
  <2> QED BY <1>1, <2>2, RowsWith
<1>10. TreeRows(t.categories)
  BY <1>6, <1>9, LockedOneMore
<1>11. StatementOK(t, categories, artworks)
  <2>1. tx[s].adjust[1] = Head(tx[s].adjust) /\ FirstCallLoses(tx[s].adjust, c, rest)
    BY <1>1, <1>2, FirstCallShrinks DEF rest, TransactionOK, CallsOK
  <2>2. Seen(tx[s], categories, c) + tx[s].adjust[1].delta >= 0
    BY <1>8, <1>9, <2>1
  <2>3. DOMAIN t.categories = DOMAIN tx[s].categories \cup {c}
    BY <1>6 DEF WithRow
  <2>4. FirstCallLoses(tx[s].adjust, c, t.adjust)
    BY <1>6, <2>1
  <2> QED BY <1>2, <1>6, <2>2, <2>3, <2>4, AdjustStatement
<1> QED BY <1>1, <1>4, <1>10, <1>11, OneStatementMoves

LEMMA RecountStatementStep ==
    ASSUME SInv, XInv', NEW s \in Sessions, NEW c \in CategoryIds, RecountRow(s, c)
    PROVE  SInv'
<1> DEFINE seen == CategoriesSeen(s)[c]
           row == [seen EXCEPT !.artwork_count = tx[s].totals[c]]
           r == SetCategory(s, c, row)
           rest == Restrict(tx[s].totals, DOMAIN tx[s].totals \ {c})
           t == [r EXCEPT !.totals = rest]
<1>1. c \in DOMAIN tx[s].totals /\ UNCHANGED vars
  BY DEF RecountRow
<1>2. TransactionOK(tx[s], categories, artworks) /\ IsRecord(tx[s])
  BY DEF SInv, XInv, TransactionOK
<1>3. r = [kind |-> tx[s].kind, categories |-> WithRow(tx[s].categories, c, row),
           artworks |-> tx[s].artworks, adjust |-> tx[s].adjust,
           totals |-> tx[s].totals, at |-> tx[s].at, raced |-> tx[s].raced]
  BY <1>2, CounterWritten
<1>4. tx' = [tx EXCEPT ![s] = t]
  <2>1. r.totals = tx[s].totals
    BY <1>3
  <2>2. tx' = [tx EXCEPT ![s] =
                [r EXCEPT !.totals = Restrict(r.totals, DOMAIN r.totals \ {c})]]
    BY DEF RecountRow
  <2> HIDE DEF r
  <2> QED BY <2>1, <2>2
<1>5. row = [seen EXCEPT !.artwork_count = tx[s].totals[c]]
  OBVIOUS
<1> HIDE DEF seen, row, r, rest
<1>6. /\ t.kind = tx[s].kind /\ t.artworks = tx[s].artworks
      /\ t.categories = WithRow(tx[s].categories, c, row)
  BY <1>3
<1> HIDE DEF t
<1>7. PICK n : seen = RowWith(c, n)
  BY RowSeenOfTree DEF seen
<1>8. TreeRows(t.categories)
  <2>1. row = RowWith(c, tx[s].totals[c])
    BY <1>5, <1>7, CounterSet
  <2> QED BY <1>6, <2>1, LockedOneMore
<1>9. tx[s].kind # "write"
  BY <1>1, <1>2, PlanAndBound, LenProperties DEF TransactionOK, PhaseOK, Recounting
<1>10. StatementOK(t, categories, artworks)
  BY <1>6, <1>9 DEF SInv, StatementOK
<1> QED BY <1>1, <1>4, <1>8, <1>10, OneStatementMoves

LEMMA EndedStatement ==
    ASSUME SInv, XInv', NEW s \in Sessions, Ended(s)
    PROVE  SInv'
<1>1. tx' = [tx EXCEPT ![s] = Idle] /\ UNCHANGED vars
  BY DEF Ended
<1>2. TreeRows(Idle.categories) /\ StatementOK(Idle, categories, artworks)
  BY IdleStatement
<1> HIDE DEF Idle
<1> QED BY <1>1, <1>2, OneStatementMoves

LEMMA CommitStatement ==
    ASSUME SInv, XInv', NEW s \in Sessions, Commit(s)
    PROVE  SInv'
<1> DEFINE v == tx[s]
           cats2 == Over(v.categories, categories)
           rows2 == Merged(v.artworks, artworks)
<1>1. /\ TablesOK(categories, artworks) /\ TransactionOK(v, categories, artworks)
      /\ TreeRows(categories) /\ TreeRows(v.categories)
  BY DEF SInv, XInv
<1>2. /\ categories' = cats2 /\ artworks' = rows2
      /\ tx' = [o \in Sessions |-> IF o = s THEN Idle
                                   ELSE [tx[o] EXCEPT !.raced = @ \/ RacedBy(s, o)]]
  BY DEF Commit, CategoriesSeen, ArtworksSeen, Merged
<1>3. TreeRows(cats2)
  BY <1>1, MergedTreeRows
<1>4. ASSUME NEW o \in Sessions \ {s}
      PROVE  TreeRows(tx'[o].categories) /\ StatementOK(tx'[o], cats2, rows2)
  <2>1. /\ TransactionOK(tx[o], categories, artworks) /\ Apart(tx[o], v)
        /\ StatementOK(tx[o], categories, artworks) /\ TreeRows(tx[o].categories)
        /\ IsRecord(tx[o])
    BY DEF SInv, XInv, TransactionOK
  <2> DEFINE raced == (tx[o].raced \/ RacedBy(s, o))
             u == [tx[o] EXCEPT !.raced = raced]
  <2>2. tx'[o] = u
    BY <1>2
  <2> HIDE DEF raced, cats2, rows2
  <2>3. /\ u.kind = tx[o].kind /\ u.categories = tx[o].categories
        /\ u.artworks = tx[o].artworks /\ u.adjust = tx[o].adjust
    BY <2>1 DEF IsRecord
  <2> HIDE DEF u, v
  <2>4. StatementOK(u, cats2, rows2)
    BY <1>1, <2>1, <2>3, OtherStatement DEF cats2, rows2
  <2> QED BY <2>1, <2>2, <2>3, <2>4
<1> HIDE DEF cats2, rows2
<1>5. tx'[s] = Idle
  BY <1>2
<1>6. \A o \in Sessions : /\ TreeRows(tx'[o].categories)
                          /\ StatementOK(tx'[o], categories', artworks')
  BY <1>2, <1>4, <1>5, IdleStatement
<1> QED BY <1>2, <1>3, <1>6 DEF SInv

LEMMA SessionStatement ==
    ASSUME SInv, XInv', NEW s \in Sessions, Start(s) \/ Step(s) \/ Rollback(s)
    PROVE  SInv'
<1>1. ASSUME Start(s) PROVE SInv'
  <2>1. XInv
    BY DEF SInv
  <2> QED BY <1>1, <2>1, StatementWrites, WriteStatementBegins, TouchStatementBegins, OthersBegin
          DEF Start
<1>2. ASSUME Step(s) PROVE SInv'
  BY <1>2, SeedStatementStep, AdjustStatementStep, RecountStatementStep, CommitStatement DEF Step
<1>3. ASSUME Rollback(s) PROVE SInv'
  BY <1>3, EndedStatement DEF Rollback
<1> QED BY <1>1, <1>2, <1>3

LEMMA SInvAlways == TxSpec => []SInv
<1>1. TxInit => SInv
  BY InitSInv
<1>2. ASSUME SInv, [TxNext]_txVars PROVE SInv'
  <2>1. XInv'
    BY <1>2, SessionMoves, StutterXInv DEF TxNext, SInv
  <2>2. CASE TxNext
    BY <1>2, <2>1, <2>2, SessionStatement DEF TxNext
  <2>3. CASE UNCHANGED txVars
    BY <1>2, <2>1, <2>3 DEF txVars, vars, SInv
  <2> QED BY <1>2, <2>2, <2>3
<1> QED BY <1>1, <1>2, PTL DEF TxSpec

(* adjust_artwork_count on a table with the columns of the tree. *)
LEMMA AdjustedTable ==
    ASSUME NEW cats, DOMAIN cats = CategoryIds, TreeRows(cats),
           NEW target \in CategoryIds, NEW delta
    PROVE  AdjustArtworkCount(cats, target, delta) =
            [c \in CategoryIds |->
                RowWith(c, IF target \in Above(c) THEN cats[c].artwork_count + delta
                                                  ELSE cats[c].artwork_count)]
<1> DEFINE hit == {target} \cup {cats[target].parent_id}
           adjusted(c) == [cats[c] EXCEPT !.artwork_count = cats[c].artwork_count + delta]
           count(c) == IF target \in Above(c) THEN cats[c].artwork_count + delta
                                              ELSE cats[c].artwork_count
<1>1. AdjustArtworkCount(cats, target, delta) =
            [c \in CategoryIds |-> IF c \in hit THEN adjusted(c) ELSE cats[c]]
  BY DEF AdjustArtworkCount
<1> HIDE DEF adjusted
<1>2. ASSUME NEW c \in CategoryIds
      PROVE  (IF c \in hit THEN adjusted(c) ELSE cats[c]) = RowWith(c, count(c))
  <2>1. /\ cats[c] = RowWith(c, cats[c].artwork_count)
        /\ cats[target] = RowWith(target, cats[target].artwork_count)
    BY DEF TreeRows
  <2>2. c \in hit <=> target \in Above(c)
    <3>1. cats[target].parent_id = Tree[target].parent_id
      BY <2>1, RowsWith
    <3> QED BY <3>1 DEF Above
  <2>3. adjusted(c) = RowWith(c, cats[c].artwork_count + delta)
    BY <2>1, CounterSet DEF adjusted
  <2> QED BY <2>1, <2>2, <2>3
<1> HIDE DEF hit, count
<1>3. AdjustArtworkCount(cats, target, delta) = [c \in CategoryIds |-> RowWith(c, count(c))]
  BY <1>1, <1>2
<1> QED BY <1>3 DEF count

(* Counters that have moved by what the two rows count are those that      *)
(* artworks_sync_counts would have left.                                   *)
LEMMA SyncFromCounts ==
    ASSUME TablesOK(categories, artworks), TreeRows(categories),
           TablesOK(categories', artworks'), TreeRows(categories'),
           NEW r \in CategoryIds \cup {NULL}, NEW t \in CategoryIds \cup {NULL},
           \A c \in CategoryIds : categories'[c].artwork_count =
                categories[c].artwork_count - Share(r, Above(c)) + Share(t, Above(c)),
           r # NULL /\ r # t => \A c \in CountersOf(r) : categories[c].artwork_count >= 1
    PROVE  SyncCounts(r, t)
<1> DEFINE removed == IF r # NULL /\ r # t THEN AdjustArtworkCount(categories, r, -1)
                      ELSE categories
           added == IF t # NULL /\ t # r THEN AdjustArtworkCount(removed, t, 1)
                    ELSE removed
           less(c) == categories[c].artwork_count - (IF r # t THEN Share(r, Above(c)) ELSE 0)
<1>1. /\ DOMAIN categories = CategoryIds /\ NULL \notin CategoryIds
      /\ \A c \in CategoryIds : /\ categories[c].artwork_count \in Nat
                                /\ categories[c] = RowWith(c, categories[c].artwork_count)
                                /\ NULL \notin Above(c)
  BY NullIsNoValue DEF TablesOK, TreeRows, CategoryRow, Above
<1>2. removed = [c \in CategoryIds |-> RowWith(c, less(c))]
  <2>1. CASE r # NULL /\ r # t
    <3>1. removed = [c \in CategoryIds |->
            RowWith(c, IF r \in Above(c) THEN categories[c].artwork_count + (-1)
                                         ELSE categories[c].artwork_count)]
      BY <1>1, <2>1, AdjustedTable
    <3>2. \A c \in CategoryIds : less(c) =
            IF r \in Above(c) THEN categories[c].artwork_count + (-1)
                              ELSE categories[c].artwork_count
      BY <1>1, <2>1 DEF Share
    <3> HIDE DEF removed, less
    <3> QED BY <3>1, <3>2
  <2>2. CASE ~(r # NULL /\ r # t)
    <3>1. removed = categories
      BY <2>2
    <3>2. \A c \in CategoryIds : less(c) = categories[c].artwork_count
      BY <1>1, <2>2 DEF Share
    <3>3. categories = [c \in CategoryIds |-> categories[c]]
      BY DEF TablesOK
    <3> HIDE DEF removed, less
    <3>4. \A c \in CategoryIds : categories[c] = RowWith(c, less(c))
      BY <1>1, <3>2
    <3> QED BY <3>1, <3>3, <3>4
  <2> QED BY <2>1, <2>2
<1> HIDE DEF removed
<1>3. /\ DOMAIN removed = CategoryIds /\ TreeRows(removed)
      /\ \A c \in CategoryIds : removed[c].artwork_count = less(c)
  <2> HIDE DEF less
  <2>1. \A c \in CategoryIds : removed[c].artwork_count = less(c)
    BY <1>2, RowsWith
  <2> QED BY <1>2, <2>1 DEF TreeRows
<1>4. CountNonNegative(removed)
  <2>1. ASSUME NEW c \in CategoryIds PROVE less(c) >= 0
    <3>1. CASE r # NULL /\ r # t /\ r \in Above(c)
      <4>1. c \in CountersOf(r)
        BY <3>1, CountersAreAbove
      <4>2. categories[c].artwork_count >= 1
        BY <3>1, <4>1
      <4> QED BY <1>1, <4>2 DEF Share
    <3>2. CASE ~(r # NULL /\ r # t /\ r \in Above(c))
      BY <1>1, <3>2 DEF Share
    <3> QED BY <3>1, <3>2
  <2> HIDE DEF less
  <2> QED BY <1>3, <2>1 DEF CountNonNegative
<1>5. categories' = added
  <2> DEFINE count(c) == categories'[c].artwork_count
  <2>1. categories' = [c \in CategoryIds |-> RowWith(c, count(c))]
    BY DEF TablesOK, TreeRows
  <2>2. CASE t # NULL /\ t # r
    <3>1. added = [c \in CategoryIds |->
            RowWith(c, IF t \in Above(c) THEN removed[c].artwork_count + 1
                                         ELSE removed[c].artwork_count)]
      BY <1>3, <2>2, AdjustedTable
    <3>2. \A c \in CategoryIds : count(c) =
            IF t \in Above(c) THEN removed[c].artwork_count + 1 ELSE removed[c].artwork_count
      BY <1>1, <1>3, <2>2 DEF Share
    <3> HIDE DEF added, count
    <3> QED BY <2>1, <3>1, <3>2
  <2>3. CASE ~(t # NULL /\ t # r)
    <3>1. added = removed
      BY <2>3
    <3>2. \A c \in CategoryIds : count(c) = less(c)
      <4>1. CASE r = t
        BY <1>1, <4>1 DEF Share
      <4>2. CASE r # t
        BY <1>1, <2>3, <4>2 DEF Share
      <4> QED BY <4>1, <4>2
    <3> HIDE DEF added, count, less
    <3> QED BY <1>2, <2>1, <3>1, <3>2
  <2> QED BY <2>2, <2>3
<1> QED BY <1>4, <1>5 DEF SyncCounts, removed

(* What recount_artwork_counts finds for a category in the tables. *)
LEMMA RecountedIsMedia ==
    ASSUME TablesOK(categories, artworks), NEW c \in CategoryIds
    PROVE  Cardinality(ActiveIn(IF IsRoot(c) THEN Children(c) ELSE {c})) = Media(artworks, c)
<1>1. /\ DOMAIN categories = CategoryIds
      /\ \A d \in CategoryIds : categories[d].parent_id = Tree[d].parent_id
      /\ \A a \in DOMAIN artworks : artworks[a] \in LeafRow
  BY DEF TablesOK, RowsOfTree
<1>2. Children(c) = {d \in CategoryIds : Tree[d].parent_id = c}
  BY <1>1 DEF Children
<1>3. CASE IsRoot(c)
  <2>1. \A a \in DOMAIN artworks : artworks[a].category_id # c
    BY <1>1, <1>3 DEF LeafRow, IsRoot
  <2>2. ActiveIn(Children(c)) = ActiveRows(artworks, Above(c))
    BY <1>2, <2>1 DEF ActiveIn, ActiveRows, Above
  <2> QED BY <1>3, <2>2 DEF Media
<1>4. CASE ~IsRoot(c)
  <2>1. {d \in CategoryIds : Tree[d].parent_id = c} = {}
    BY <1>1, <1>4, TreeIsOneLevel, NullIsNoValue DEF IsRoot
  <2>2. ActiveIn({c}) = ActiveRows(artworks, Above(c))
    BY <2>1 DEF ActiveIn, ActiveRows, Above
  <2> QED BY <1>4, <2>2 DEF Media
<1> QED BY <1>3, <1>4

(* A transaction that has written no row of artworks leaves the table.     *)
LEMMA MergedNothing ==
    ASSUME NEW cats, NEW rows, TablesOK(cats, rows), NEW new, VersionsOK(new), DOMAIN new = {}
    PROVE  Merged(new, rows) = rows
<1>1. /\ DOMAIN Merged(new, rows) = DOMAIN rows
      /\ \A a \in DOMAIN rows : Merged(new, rows)[a] = rows[a]
      /\ TablesOK(cats, Merged(new, rows))
  BY MergedRows
<1> QED BY <1>1 DEF TablesOK

(* One that has written row a, and what that does to the counters.         *)
LEMMA MergedRow ==
    ASSUME NEW cats, NEW rows, TablesOK(cats, rows),
           NEW new, VersionsOK(new), NEW a, DOMAIN new = {a}
    PROVE  /\ new[a] # NULL => Merged(new, rows) = WithRow(rows, a, new[a])
           /\ new[a] = NULL => Merged(new, rows) = Without(rows, {a})
           /\ \A c \in CategoryIds : Net(new, rows, c) =
                Share(Counting(new[a]), Above(c)) - Share(CountsFor(rows, a), Above(c))
<1> DEFINE all == Merged(new, rows)
           old == IF a \in DOMAIN rows THEN rows[a] ELSE NULL
<1>1. /\ DOMAIN all = {b \in DOMAIN new : new[b] # NULL} \cup (DOMAIN rows \ DOMAIN new)
      /\ \A b \in DOMAIN all : all[b] = IF b \in DOMAIN new THEN new[b] ELSE rows[b]
      /\ all = [b \in DOMAIN all |-> all[b]]
  BY MergedRows DEF TablesOK
<1> HIDE DEF all
<1>2. ASSUME new[a] # NULL PROVE Merged(new, rows) = WithRow(rows, a, new[a])
  <2>1. all = WithRow(rows, a, new[a])
    BY <1>1, <1>2 DEF WithRow
  <2> QED BY <2>1 DEF all
<1>3. ASSUME new[a] = NULL PROVE Merged(new, rows) = Without(rows, {a})
  <2>1. DOMAIN all = DOMAIN rows \ {a} /\ \A b \in DOMAIN all : all[b] = rows[b]
    BY <1>1, <1>3
  <2>2. all = Without(rows, {a})
    BY <1>1, <2>1 DEF Without, Restrict
  <2> QED BY <2>2 DEF all
<1>4. ASSUME NEW c \in CategoryIds
      PROVE  Net(new, rows, c) =
                Share(Counting(new[a]), Above(c)) - Share(CountsFor(rows, a), Above(c))
  <2>1. new = WithRow(Nothing, a, new[a])
    <3>1. new = [b \in {a} |-> new[b]]
      BY DEF VersionsOK
    <3>2. WithRow(Nothing, a, new[a]) = [b \in {a} |-> new[a]]
      BY DEF WithRow, Nothing
    <3>3. \A b \in {a} : new[b] = new[a]
      OBVIOUS
    <3> DEFINE row == new[a]
    <3>4. [b \in {a} |-> new[b]] = [b \in {a} |-> row]
      BY <3>3
    <3> QED BY <3>1, <3>2, <3>4
  <2>2. VersionsOK(Nothing) /\ DOMAIN Nothing = {}
    BY FS_EmptySet DEF VersionsOK, Nothing
  <2>3. Net(Nothing, rows, c) = 0
    BY <2>2, NetOfNothing
  <2>4. Net(new, rows, c) = Net(Nothing, rows, c) + Weight(new[a], c) - Weight(old, c)
    <3>0. a \notin DOMAIN Nothing
      BY <2>2
    <3>1. Net(WithRow(Nothing, a, new[a]), rows, c) =
            Net(Nothing, rows, c) + Weight(new[a], c)
                - Weight(IF a \in DOMAIN rows THEN rows[a] ELSE NULL, c)
      BY <2>2, <3>0, NetOfOneMore
    <3> QED BY <2>1, <3>1
  <2>5. NULL \notin Above(c)
    BY NullIsNoValue DEF Above
  <2>6. Weight(new[a], c) = Share(Counting(new[a]), Above(c))
    BY <2>5 DEF Weight, Share, Counting, CountedAs
  <2>7. Weight(old, c) = Share(CountsFor(rows, a), Above(c))
    BY <2>5, RowsAreRecords DEF Weight, Share, CountsFor, CountedAs, TablesOK
  <2>8. Weight(new[a], c) \in {0, 1} /\ Weight(old, c) \in {0, 1}
    BY DEF Weight
  <2> HIDE DEF old
  <2> QED BY <2>3, <2>4, <2>6, <2>7, <2>8
<1> QED BY <1>2, <1>3, <1>4

LEMMA CommitIsStatement ==
    ASSUME SInv, SInv', NEW s \in Sessions, Commit(s),
           tx[s].kind \in {"write", "recount"}, ~tx[s].raced
    PROVE  Next \/ UNCHANGED vars
<1> DEFINE v == tx[s]
<1>1. /\ TablesOK(categories, artworks) /\ TransactionOK(v, categories, artworks)
      /\ StatementOK(v, categories, artworks) /\ VersionsOK(v.artworks)
      /\ TreeRows(categories) /\ TreeRows(categories') /\ TablesOK(categories', artworks')
  BY DEF SInv, XInv, TransactionOK
<1>2. categories' = Over(v.categories, categories) /\ artworks' = Merged(v.artworks, artworks)
  BY DEF Commit, CategoriesSeen, ArtworksSeen, Merged
<1>3. Finished(v) /\ v.adjust = <<>>
  <2>1. DOMAIN Nothing = {}
    BY DEF Nothing
  <2> QED BY <1>1, <2>1 DEF Commit, Settled, Complete, Script, Finished, Recounting, TransactionOK, PhaseOK
<1>4. \A c \in CategoryIds : categories'[c].artwork_count = Seen(v, categories, c)
  BY <1>1, <1>2, CommittedTables
<1>5. /\ categories = [c \in CategoryIds |-> RowWith(c, categories[c].artwork_count)]
      /\ categories' = [c \in CategoryIds |-> RowWith(c, categories'[c].artwork_count)]
  BY <1>1 DEF TablesOK, TreeRows
<1> HIDE DEF v
<1>6. CASE v.kind = "recount"
  <2>1. DOMAIN v.artworks = {}
    BY <1>1, <1>6 DEF StatementOK
  <2>2. artworks' = artworks
    BY <1>1, <1>2, <2>1, MergedNothing
  <2>3. \A c \in CategoryIds : categories'[c].artwork_count = Media(artworks, c)
    <3> TAKE c \in CategoryIds
    <3>1. Seen(v, categories, c) = Media(artworks, c) + Net(v.artworks, artworks, c)
      BY <1>1, <1>3, <1>6, CommittedRecount DEF v, Recounting
    <3>2. Net(v.artworks, artworks, c) = 0
      BY <2>1, NetOfNothing
    <3>3. Media(artworks, c) \in Nat
      BY <1>1, MediaFinite DEF TablesOK
    <3> QED BY <1>4, <3>1, <3>2, <3>3
  <2> DEFINE found(c) == Cardinality(ActiveIn(IF IsRoot(c) THEN Children(c) ELSE {c}))
             recounted(c) == [categories[c] EXCEPT !.artwork_count = found(c)]
  <2>4. RecountedTable = [c \in CategoryIds |-> recounted(c)]
    BY <1>1 DEF RecountedTable, TablesOK
  <2>5. ASSUME NEW c \in CategoryIds PROVE recounted(c) = RowWith(c, Media(artworks, c))
    <3>1. categories[c] = RowWith(c, categories[c].artwork_count)
      BY <1>1 DEF TablesOK, TreeRows
    <3>2. found(c) = Media(artworks, c)
      BY <1>1, RecountedIsMedia
    <3>3. recounted(c) = [categories[c] EXCEPT !.artwork_count = Media(artworks, c)]
      BY <3>2
    <3> HIDE DEF recounted
    <3> QED BY <3>1, <3>3, CounterSet
  <2> HIDE DEF recounted, found
  <2>6. categories' = RecountedTable
    BY <1>5, <2>3, <2>4, <2>5
  <2>7. Recount
    BY <2>2, <2>6 DEF Recount
  <2> QED BY <2>7 DEF Next
<1>7. CASE v.kind = "write"
  <2>1. ~Recounting(v) /\ v.kind # "reset"
    BY <1>1, <1>7, PlanAndBound, LenProperties DEF TransactionOK, PhaseOK, Recounting
  <2>2. \A c \in CategoryIds : categories'[c].artwork_count =
            categories[c].artwork_count + Net(v.artworks, artworks, c)
    BY <1>1, <1>3, <1>4, <2>1, CommittedCounter
  <2>3. \A c \in CategoryIds : categories[c].artwork_count \in Nat
    BY <1>1 DEF TablesOK, CategoryRow
  <2>4. CASE DOMAIN v.artworks = {}
    <3>1. artworks' = artworks
      BY <1>1, <1>2, <2>4, MergedNothing
    <3>2. \A c \in CategoryIds : Net(v.artworks, artworks, c) = 0
      BY <2>4, NetOfNothing
    <3>3. \A c \in CategoryIds : categories'[c].artwork_count = categories[c].artwork_count
      <4> TAKE c \in CategoryIds
      <4> QED BY <2>2, <2>3, <3>2
    <3>4. \A c \in CategoryIds : categories'[c] = categories[c]
      <4> TAKE c \in CategoryIds
      <4>1. /\ categories'[c] = RowWith(c, categories'[c].artwork_count)
            /\ categories[c] = RowWith(c, categories[c].artwork_count)
        BY <1>1 DEF TablesOK, TreeRows
      <4> QED BY <3>3, <4>1
    <3>5. categories' = categories
      BY <1>1, <3>4 DEF TablesOK
    <3> QED BY <3>1, <3>5 DEF vars
  <2>5. CASE DOMAIN v.artworks # {}
    <3>1. PICK a : DOMAIN v.artworks = {a}
      BY <1>1, <1>7, <2>5 DEF StatementOK
    <3> DEFINE new == v.artworks[a]
               r == CountsFor(artworks, a)
               t == Counting(new)
    <3>2. /\ a \in ArtworkIds /\ new \in LeafRow \cup {NULL}
          /\ a \in DOMAIN artworks \/ new # NULL
          /\ TakesFrom(r, t, v, categories)
      BY <1>1, <1>7, <3>1 DEF VersionsOK, StatementOK
    <3>3. /\ new # NULL => artworks' = WithRow(artworks, a, new)
          /\ new = NULL => artworks' = Without(artworks, {a})
          /\ \A c \in CategoryIds : Net(v.artworks, artworks, c) =
                Share(t, Above(c)) - Share(r, Above(c))
      BY <1>1, <1>2, <3>1, MergedRow
    <3>4. r \in CategoryIds \cup {NULL} /\ t \in CategoryIds \cup {NULL}
      <4>1. a \in DOMAIN artworks => artworks[a] \in LeafRow
        BY <1>1 DEF TablesOK
      <4> QED BY <3>2, <4>1, CountingRows DEF CountsFor
    <3> HIDE DEF r, t, new
    <3>5. \A c \in CategoryIds : categories'[c].artwork_count =
                categories[c].artwork_count - Share(r, Above(c)) + Share(t, Above(c))
      BY <2>2, <2>3, <3>3 DEF Share
    <3>6. r # NULL /\ r # t => \A c \in CountersOf(r) : categories[c].artwork_count >= 1
      BY <1>3, <3>2 DEF TakesFrom, Untaken
    <3>7. SyncCounts(r, t)
      BY <1>1, <3>4, <3>5, <3>6, SyncFromCounts
    <3>8. ASSUME new # NULL
          PROVE  /\ new = [category_id |-> new.category_id, is_active |-> new.is_active]
                 /\ new.category_id \in CategoryIds /\ new.is_active \in BOOLEAN
                 /\ RequireSubcategory(new.category_id)
                 /\ t = CountedAs(new)
      <4>1. new \in LeafRow
        BY <3>2, <3>8
      <4>2. /\ new = [category_id |-> new.category_id, is_active |-> new.is_active]
            /\ new.category_id \in CategoryIds /\ new.is_active \in BOOLEAN
            /\ Tree[new.category_id].parent_id # NULL
        BY <4>1 DEF LeafRow, ArtworkRow
      <4>3. RequireSubcategory(new.category_id)
        BY <1>1, <4>2 DEF RequireSubcategory, IsRoot, TablesOK, RowsOfTree
      <4> QED BY <3>8, <4>2, <4>3 DEF t, Counting
    <3>9. CASE a \notin DOMAIN artworks
      <4>1. new # NULL /\ r = NULL
        BY <3>2, <3>9 DEF r, CountsFor
      <4> DEFINE c == new.category_id
                 b == new.is_active
      <4>2. new = [category_id |-> c, is_active |-> b] /\ c \in CategoryIds /\ b \in BOOLEAN
            /\ RequireSubcategory(c) /\ t = CountedAs(new)
        BY <3>8, <4>1
      <4> HIDE DEF c, b
      <4>3. InsertArtwork(a, c, b)
        BY <3>3, <3>7, <3>9, <4>1, <4>2 DEF InsertArtwork
      <4> QED BY <3>2, <4>2, <4>3 DEF Next
    <3>10. CASE a \in DOMAIN artworks /\ new # NULL
      <4>1. r = CountedAs(artworks[a])
        BY <3>10 DEF r, CountsFor
      <4> DEFINE c == new.category_id
                 b == new.is_active
      <4>2. new = [category_id |-> c, is_active |-> b] /\ c \in CategoryIds /\ b \in BOOLEAN
            /\ RequireSubcategory(c) /\ t = CountedAs(new)
        BY <3>8, <3>10
      <4> HIDE DEF c, b
      <4>3. UpdateArtwork(a, c, b)
        BY <3>3, <3>7, <3>10, <4>1, <4>2 DEF UpdateArtwork
      <4> QED BY <3>2, <4>2, <4>3 DEF Next
    <3>11. CASE a \in DOMAIN artworks /\ new = NULL
      <4>1. r = CountedAs(artworks[a]) /\ t = NULL
        BY <3>11 DEF r, t, CountsFor, Counting
      <4>2. EraseArtwork(a)
        BY <3>3, <3>7, <3>11, <4>1 DEF EraseArtwork
      <4> QED BY <3>2, <4>2 DEF Next
    <3> QED BY <3>2, <3>9, <3>10, <3>11
  <2> QED BY <2>4, <2>5
<1> QED BY <1>6, <1>7 DEF v

(* Nothing but a commit changes what is committed, and ends only its own   *)
(* transaction.                                                            *)
LEMMA OnlyCommitsWrite ==
    ASSUME TxNext, ~UNCHANGED vars
    PROVE  \E p \in Sessions : Commit(p)
<1>1. PICK p \in Sessions : Start(p) \/ Step(p) \/ Rollback(p)
  BY DEF TxNext
<1> QED
  BY <1>1 DEF Start, Step, Rollback, Ended, Begin, Insert, SoftDelete, Erase, Update,
     Touch, RecountStart, SeedStart, ResetStart, SeedCategory, SeedMedium, SeedRecount,
     AdjustRow, RecountRow

LEMMA OwnCommitEnds ==
    ASSUME XInv, NEW p \in Sessions, Commit(p), NEW s \in Sessions,
           tx[s].kind # "none", tx'[s].kind = "none"
    PROVE  s = p
<1>1. SUFFICES ASSUME s # p PROVE FALSE
  OBVIOUS
<1> DEFINE raced == (tx[s].raced \/ RacedBy(p, s))
<1>2. tx'[s] = [tx[s] EXCEPT !.raced = raced]
  BY <1>1 DEF Commit
<1>3. IsRecord(tx[s])
  BY DEF XInv, TransactionOK
<1> HIDE DEF raced
<1>4. tx'[s].kind = tx[s].kind
  BY <1>2, <1>3 DEF IsRecord
<1> QED BY <1>4

(* However the steps of transactions interleave, what one of a single      *)
(* statement commits is one step of Catalogue, unless it is a recount and  *)
(* was raced (002_triggers.sql:40-100).                                    *)
THEOREM EveryCommitIsAStatement == TxSpec => CommitsAreStatements
<1> DEFINE Good == \A s \in Sessions :
            tx[s].kind \in {"write", "recount"} /\ tx'[s].kind = "none" /\ ~tx[s].raced
                => Next \/ UNCHANGED vars
<1>1. ASSUME SInv, SInv', [TxNext]_txVars PROVE [Good]_txVars
  <2>1. CASE UNCHANGED vars
    BY <2>1
  <2>2. CASE TxNext /\ ~UNCHANGED vars
    <3>1. PICK p \in Sessions : Commit(p)
      BY <2>2, OnlyCommitsWrite
    <3> SUFFICES ASSUME NEW s \in Sessions, tx[s].kind \in {"write", "recount"},
                        tx'[s].kind = "none", ~tx[s].raced
                 PROVE  Next \/ UNCHANGED vars
      OBVIOUS
    <3>2. s = p
      BY <1>1, <3>1, OwnCommitEnds DEF SInv
    <3> QED BY <1>1, <3>1, <3>2, CommitIsStatement
  <2> QED BY <1>1, <2>1, <2>2 DEF txVars
<1> QED BY <1>1, SInvAlways, PTL DEF TxSpec, CommitsAreStatements

----------------------------------------------------------------------------
(***************************************************************************)
(* Who waits for whom, for any number of sessions: whatever they hold and  *)
(* wait for, one of them can go on, or Postgres fails one.  Nobody waits   *)
(* for a lock that no open transaction holds, or for itself, so that the   *)
(* deadlock detector misses nothing.                                       *)
(***************************************************************************)

(* The counters s has yet to lock in the statement it is in. *)
Wants(s) ==
    {c \in CategoryIds : \/ tx[s].adjust # <<>> /\ c \in Head(tx[s].adjust).rows
                         \/ c \in DOMAIN tx[s].totals
                         \/ SeedNext(s, "category", c)}

Deadlocked(s) ==
    \E D \in SUBSET Sessions :
        /\ s \in D
        /\ \A d \in D :
            /\ Wants(d) # {}
            /\ \A c \in Wants(d) : \E o \in D \ {d} : c \in DOMAIN tx[o].categories

(* The sequence of the ids has come to its end. *)
Exhausted(s) ==
    /\ \E c \in CategoryIds : SeedNext(s, "medium", c)
    /\ ArtworkIds = DOMAIN artworks \cup UNION {DOMAIN tx[o].artworks : o \in Sessions}

(* Step(s) is possible. *)
CanGoOn(s) ==
    \/ \E c \in CategoryIds :
        \/ SeedNext(s, "category", c) /\ CategoryFree(s, c)
        \/ Adjusts(s, c) /\ Adjusted(s, c).artwork_count >= 0
        \/ c \in DOMAIN tx[s].totals /\ CategoryFree(s, c)
    \/ \E a \in ArtworkIds, c \in CategoryIds :
        /\ SeedNext(s, "medium", c)
        /\ a \notin DOMAIN artworks \cup DOMAIN tx[s].artworks
        /\ ArtworkFree(s, a)
    \/ Script(s) /\ Settled(s) /\ tx[s].at = Len(SeedPlan) + 1
    \/ tx[s].kind # "none" /\ Settled(s) /\ Complete(s)

NoStandstill ==
    (\E s \in Sessions : tx[s].kind # "none") =>
        \E s \in Sessions : CanGoOn(s) \/ Refused(s) \/ Deadlocked(s) \/ Exhausted(s)

(* Whoever can neither go on nor is failed waits for rows, all of them     *)
(* locked by somebody else.                                                *)
LEMMA StuckSessionsWait ==
    ASSUME XInv, NEW s \in Sessions, tx[s].kind # "none",
           ~CanGoOn(s), ~Refused(s), ~Exhausted(s)
    PROVE  /\ Wants(s) # {}
           /\ \A c \in Wants(s) : ~CategoryFree(s, c)
<1>1. TransactionOK(tx[s], categories, artworks)
  BY DEF XInv
<1>2. /\ tx[s].adjust \in Seq(Call)
      /\ DOMAIN tx[s].totals \subseteq CategoryIds
      /\ tx[s].totals = [c \in DOMAIN tx[s].totals |-> tx[s].totals[c]]
      /\ tx[s].at \in 1 .. Len(SeedPlan) + 2
      /\ tx[s].adjust # <<>> => DOMAIN tx[s].totals = {}
  BY <1>1 DEF TransactionOK, CallsOK, CountersOK, PhaseOK
<1>3. tx[s].adjust # <<>> => Head(tx[s].adjust) \in Call
  BY <1>2, HeadTailProperties
<1>4. ASSUME NEW c \in CategoryIds, CategoryFree(s, c), c \in Wants(s) PROVE FALSE
  <2>1. CASE tx[s].adjust # <<>> /\ c \in Head(tx[s].adjust).rows
    <3>1. Adjusts(s, c)
      BY <1>4, <2>1 DEF Adjusts
    <3>2. Adjusted(s, c).artwork_count \in Int
      <4>1. CategoriesSeen(s)[c] \in CategoryRow
        BY <1>1, RowSeen DEF XInv, TransactionOK, CountersOK, TablesOK
      <4> QED BY <1>3, <2>1, <4>1 DEF Adjusted, CategoryRow, Call
    <3>3. Adjusted(s, c).artwork_count >= 0 \/ Adjusted(s, c).artwork_count < 0
      BY <3>2
    <3> QED BY <3>1, <3>3 DEF CanGoOn, Refused
  <2>2. CASE c \in DOMAIN tx[s].totals
    BY <1>4, <2>2 DEF CanGoOn
  <2>3. CASE SeedNext(s, "category", c)
    BY <1>4, <2>3 DEF CanGoOn
  <2> QED BY <1>4, <2>1, <2>2, <2>3 DEF Wants
<1>5. Wants(s) # {}
  <2>1. CASE tx[s].adjust # <<>>
    <3>1. Head(tx[s].adjust).rows \in (SUBSET CategoryIds) \ {{}}
      BY <1>3, <2>1 DEF Call
    <3> QED BY <2>1, <3>1 DEF Wants
  <2>2. CASE DOMAIN tx[s].totals # {}
    BY <1>2, <2>2 DEF Wants
  <2>3. CASE tx[s].adjust = <<>> /\ DOMAIN tx[s].totals = {}
    <3>1. Settled(s)
      BY <1>2, <2>3 DEF Settled, Nothing
    <3>2. Script(s) /\ tx[s].at \in 1 .. Len(SeedPlan)
      <4>1. Script(s) /\ tx[s].at # Len(SeedPlan) + 1 /\ tx[s].at # Len(SeedPlan) + 2
        BY <3>1 DEF CanGoOn, Complete
      <4> QED BY <1>2, <4>1, PlanAndBound
    <3>3. SeedPlan[tx[s].at] \in [insert : {"category", "medium"}, category : CategoryIds]
      <4>1. SeedPlan \in Seq([insert : {"category", "medium"}, category : CategoryIds])
        BY PlanAndBound
      <4> QED BY <3>2, <4>1, ElementOfSeq
    <3>4. PICK c \in CategoryIds, what \in {"category", "medium"} :
            SeedPlan[tx[s].at] = [insert |-> what, category |-> c]
      BY <3>3
    <3>5. SeedNext(s, what, c)
      BY <3>1, <3>2, <3>4, PlanAndBound DEF SeedNext
    <3>6. CASE what = "category"
      BY <3>5, <3>6 DEF Wants
    <3>7. CASE what = "medium"
      <4>1. \A a \in ArtworkIds : \/ a \in DOMAIN artworks \cup DOMAIN tx[s].artworks
                                  \/ ~ArtworkFree(s, a)
        BY <3>5, <3>7 DEF CanGoOn
      <4>2. ArtworkIds \subseteq DOMAIN artworks \cup UNION {DOMAIN tx[o].artworks : o \in Sessions}
        BY <4>1 DEF ArtworkFree
      <4>3. /\ DOMAIN artworks \subseteq ArtworkIds
            /\ \A o \in Sessions : DOMAIN tx[o].artworks \subseteq ArtworkIds
        BY DEF XInv, TablesOK, TransactionOK, VersionsOK
      <4>4. ArtworkIds = DOMAIN artworks \cup UNION {DOMAIN tx[o].artworks : o \in Sessions}
        BY <4>2, <4>3
      <4> QED BY <3>5, <3>7, <4>4 DEF Exhausted
    <3> QED BY <3>6, <3>7
  <2> QED BY <2>1, <2>2, <2>3
<1>6. Wants(s) \subseteq CategoryIds
  BY DEF Wants
<1> QED BY <1>4, <1>5, <1>6

(* While a transaction is open one can go on, or is ended by Postgres: no  *)
(* set of uploads, deletes, recounts and scripts ever stands still         *)
(* unnoticed, in whatever order they lock the counters                     *)
(* (002_triggers.sql:34-37, seed.py:50-122).                               *)
THEOREM SomebodyGoesOn == TxSpec => []NoStandstill
<1>1. XInv => NoStandstill
  <2> SUFFICES ASSUME XInv, NEW s \in Sessions, tx[s].kind # "none",
                      \A o \in Sessions : ~CanGoOn(o) /\ ~Refused(o) /\ ~Exhausted(o)
               PROVE  Deadlocked(s)
    BY DEF NoStandstill
  <2> DEFINE D == {o \in Sessions : tx[o].kind # "none"}
  <2>1. ASSUME NEW d \in D
        PROVE  /\ Wants(d) # {}
               /\ \A c \in Wants(d) : \E o \in D \ {d} : c \in DOMAIN tx[o].categories
    <3>1. Wants(d) # {} /\ \A c \in Wants(d) : ~CategoryFree(d, c)
      BY StuckSessionsWait
    <3>2. ASSUME NEW c, ~CategoryFree(d, c)
          PROVE  \E o \in D \ {d} : c \in DOMAIN tx[o].categories
      <4>1. PICK o \in Sessions \ {d} : c \in DOMAIN tx[o].categories
        BY <3>2 DEF CategoryFree
      <4>2. tx[o].kind # "none"
        <5>1. tx[o].kind = "none" => tx[o] = Idle
          BY DEF XInv, TransactionOK, PhaseOK
        <5>2. DOMAIN Idle.categories = {}
          BY DEF Idle, Transaction, Nothing
        <5> QED BY <4>1, <5>1, <5>2
      <4> QED BY <4>1, <4>2
    <3> QED BY <3>1, <3>2
  <2>2. s \in D /\ D \in SUBSET Sessions
    OBVIOUS
  <2> HIDE DEF D
  <2> QED BY <2>1, <2>2 DEF Deadlocked
<1> QED BY <1>1, XInvAlways, PTL

----------------------------------------------------------------------------
(***************************************************************************)
(* What the seed script loads.  While it is under way others insert and    *)
(* delete media, commit, and take the ids it has not taken.                *)
(***************************************************************************)

Loaded(rows, c) == {a \in DOMAIN rows : rows[a] = Medium(c)}

(* Its versions are one new medium for each of these, and the end of all   *)
(* that TRUNCATE has found.                                                *)
PlanOK(t, rows) ==
    t.kind \in {"seed", "reset"} =>
        /\ \A a \in DOMAIN t.artworks :
                IF a \in DOMAIN rows THEN t.kind = "reset" /\ t.artworks[a] = NULL
                ELSE \E c \in CategoryIds : t.artworks[a] = Medium(c)
        /\ \A c \in CategoryIds :
                Cardinality(Loaded(t.artworks, c)) = Cardinality(Planned(c, t.at))

PlanInv == \A s \in Sessions : PlanOK(tx[s], artworks)

LEMMA PlannedFinite ==
    ASSUME NEW c, NEW n
    PROVE  IsFiniteSet(Planned(c, n)) /\ Cardinality(Planned(c, n)) \in Nat
<1>1. DOMAIN SeedPlan = 1 .. Len(SeedPlan) /\ Len(SeedPlan) \in Nat
  BY PlanAndBound, LenProperties
<1>2. IsFiniteSet(DOMAIN SeedPlan)
  BY <1>1, FS_Interval
<1>3. Planned(c, n) \in SUBSET DOMAIN SeedPlan
  BY DEF Planned
<1> QED BY <1>2, <1>3, FS_Subset, FS_CardinalityType

(* A step of s alone. *)
LEMMA PlanReplaced ==
    ASSUME XInv, PlanInv, NEW s \in Sessions, NEW t, PlanOK(t, artworks),
           tx' = [tx EXCEPT ![s] = t], artworks' = artworks
    PROVE  PlanInv'
<1>1. \A o \in Sessions : tx'[o] = IF o = s THEN t ELSE tx[o]
  BY DEF XInv
<1> QED BY <1>1 DEF PlanInv

(* Only the script's INSERTs of media change what it has loaded.           *)
LEMMA PlanKept ==
    ASSUME XInv, PlanInv, NEW s \in Sessions, NEW t,
           t.kind = tx[s].kind, t.artworks = tx[s].artworks,
           t.kind \in {"seed", "reset"} =>
                \A c \in CategoryIds : Planned(c, t.at) = Planned(c, tx[s].at)
    PROVE  PlanOK(t, artworks)
<1>1. PlanOK(tx[s], artworks)
  BY DEF PlanInv
<1> QED BY <1>1 DEF PlanOK

LEMMA PlanBegins ==
    ASSUME XInv, PlanInv, NEW s \in Sessions, Start(s)
    PROVE  PlanInv'
<1>1. ASSUME NEW kind, NEW t, kind \notin {"seed", "reset"}, Begin(s, kind, t), IsRecord(t)
      PROVE  PlanInv'
  <2> DEFINE u == [t EXCEPT !.kind = kind]
  <2>1. tx' = [tx EXCEPT ![s] = u] /\ artworks' = artworks
    BY <1>1 DEF Begin, vars
  <2>2. u.kind = kind
    BY <1>1 DEF IsRecord
  <2> HIDE DEF u
  <2>3. PlanOK(u, artworks)
    BY <1>1, <2>2 DEF PlanOK
  <2> QED BY <2>1, <2>3, PlanReplaced
<1>2. IsRecord(tx[s]) /\ IsRecord(Idle) /\ Idle.at = 1 /\ Idle.artworks = Nothing
  <2>1. IsRecord(tx[s])
    BY DEF XInv, TransactionOK
  <2>2. IsRecord(Idle) /\ Idle.at = 1 /\ Idle.artworks = Nothing
    BY DEF Idle, Transaction, IsRecord
  <2> QED BY <2>1, <2>2
<1>3. \A c : Planned(c, 1) = {} /\ Cardinality(Planned(c, 1)) = 0
  <2>1. \A c : Planned(c, 1) = {}
    <3>1. DOMAIN SeedPlan = 1 .. Len(SeedPlan) /\ Len(SeedPlan) \in Nat
      BY PlanAndBound, LenProperties
    <3> QED BY <3>1 DEF Planned
  <2> QED BY <2>1, FS_EmptySet
<1>4. \A a, old, new : IsRecord(SetArtwork(s, a, old, new))
  BY <1>2, RowWritten DEF IsRecord
<1>5. \A c, row : IsRecord(SetCategory(s, c, row))
  BY <1>2, CounterWritten DEF IsRecord
<1>6. IsRecord(SetTotals(s))
  BY <1>2 DEF SetTotals, IsRecord
<1>7. ASSUME SeedStart(s) PROVE PlanInv'
  <2> DEFINE u == [Idle EXCEPT !.kind = "seed"]
  <2>1. tx' = [tx EXCEPT ![s] = u] /\ artworks' = artworks
    BY <1>7 DEF SeedStart, Begin, vars
  <2>2. u.kind = "seed" /\ u.at = 1 /\ DOMAIN u.artworks = {}
    BY <1>2 DEF IsRecord, Nothing
  <2> HIDE DEF u
  <2>3. \A c : Loaded(u.artworks, c) = {}
    BY <2>2 DEF Loaded
  <2>4. PlanOK(u, artworks)
    BY <1>3, <2>2, <2>3, FS_EmptySet DEF PlanOK
  <2> QED BY <2>1, <2>4, PlanReplaced
<1>8. ASSUME ResetStart(s) PROVE PlanInv'
  <2> DEFINE nulls == [a \in DOMAIN artworks |-> NULL]
             r == [Idle EXCEPT !.artworks = nulls, !.categories = Tree]
             u == [r EXCEPT !.kind = "reset"]
  <2>1. tx' = [tx EXCEPT ![s] = u] /\ artworks' = artworks
    BY <1>8 DEF ResetStart, Begin, vars
  <2> HIDE DEF nulls
  <2>2. u.kind = "reset" /\ u.at = 1 /\ u.artworks = nulls
    BY <1>2 DEF IsRecord
  <2> HIDE DEF u
  <2>3. \A c \in CategoryIds : Loaded(u.artworks, c) = {}
    <3>1. \A c \in CategoryIds : Medium(c) \in ArtworkRow
      BY DEF Medium, ArtworkRow
    <3>2. \A c \in CategoryIds : Medium(c) # NULL
      BY <3>1, NullIsNoRow
    <3> QED BY <2>2, <3>2 DEF Loaded, nulls
  <2>4. PlanOK(u, artworks)
    BY <1>3, <2>2, <2>3 DEF PlanOK, nulls
  <2> QED BY <2>1, <2>4, PlanReplaced
<1>9. ASSUME NEW a, NEW old, NEW new, Begin(s, "write", SetArtwork(s, a, old, new))
      PROVE  PlanInv'
  BY <1>1, <1>4, <1>9
<1>10. ASSUME NEW a, NEW c, NEW b, \/ Insert(s, a, c) \/ SoftDelete(s, a)
                                  \/ Erase(s, a) \/ Update(s, a, c, b)
       PROVE  PlanInv'
  BY <1>9, <1>10 DEF Insert, SoftDelete, Erase, Update
<1>11. ASSUME NEW c, Touch(s, c) PROVE PlanInv'
  BY <1>1, <1>5, <1>11 DEF Touch
<1>12. ASSUME RecountStart(s) PROVE PlanInv'
  BY <1>1, <1>6, <1>12 DEF RecountStart
<1> QED BY <1>7, <1>8, <1>10, <1>11, <1>12 DEF Start

(* Media of two categories are told apart by the category. *)
LEMMA OneMoreLoaded ==
    ASSUME NEW new, IsFiniteSet(DOMAIN new), NEW a, a \notin DOMAIN new,
           NEW c \in CategoryIds, NEW d \in CategoryIds
    PROVE  Cardinality(Loaded(WithRow(new, a, Medium(c)), d))
            = Cardinality(Loaded(new, d)) + IF d = c THEN 1 ELSE 0
<1> DEFINE old == Loaded(new, d)
           more == Loaded(WithRow(new, a, Medium(c)), d)
<1>1. /\ DOMAIN WithRow(new, a, Medium(c)) = DOMAIN new \cup {a}
      /\ \A x \in DOMAIN new \cup {a} :
            WithRow(new, a, Medium(c))[x] = IF x = a THEN Medium(c) ELSE new[x]
  BY DEF WithRow
<1>2. more = IF d = c THEN old \cup {a} ELSE old
  <2>1. Medium(c) = Medium(d) <=> d = c
    <3>1. Medium(c).category_id = c /\ Medium(d).category_id = d
      BY DEF Medium
    <3> QED BY <3>1
  <2> DEFINE all == WithRow(new, a, Medium(c))
  <2>2. more = {x \in DOMAIN new \cup {a} : all[x] = Medium(d)}
    BY <1>1 DEF Loaded
  <2> HIDE DEF all, more
  <2>3. \A x \in DOMAIN new \cup {a} : all[x] = IF x = a THEN Medium(c) ELSE new[x]
    BY <1>1 DEF all
  <2>4. CASE d = c
    BY <2>1, <2>2, <2>3, <2>4 DEF Loaded
  <2>5. CASE d # c
    BY <2>1, <2>2, <2>3, <2>5 DEF Loaded
  <2> QED BY <2>4, <2>5
<1>3. a \notin old /\ IsFiniteSet(old) /\ Cardinality(old) \in Nat
  <2>1. old \in SUBSET DOMAIN new
    BY DEF Loaded
  <2> QED BY <2>1, FS_Subset, FS_CardinalityType
<1> HIDE DEF old, more
<1>4. Cardinality(old \cup {a}) = Cardinality(old) + 1
  BY <1>3, FS_AddElement
<1> QED BY <1>2, <1>3, <1>4 DEF old, more

(* The next statement of the script is planned. *)
LEMMA OneMorePlanned ==
    ASSUME NEW n \in 1 .. Len(SeedPlan), NEW what, NEW c,
           SeedPlan[n] = [insert |-> what, category |-> c], NEW d
    PROVE  Cardinality(Planned(d, n + 1))
            = Cardinality(Planned(d, n)) + IF what = "medium" /\ d = c THEN 1 ELSE 0
<1>1. DOMAIN SeedPlan = 1 .. Len(SeedPlan) /\ Len(SeedPlan) \in Nat
  BY PlanAndBound, LenProperties
<1>2. \A i \in 1 .. Len(SeedPlan) : i < n + 1 <=> i < n \/ i = n
  BY <1>1
<1>3. (SeedPlan[n] = [insert |-> "medium", category |-> d]) <=> (what = "medium" /\ d = c)
  OBVIOUS
<1>4. Planned(d, n + 1) = IF what = "medium" /\ d = c THEN Planned(d, n) \cup {n}
                          ELSE Planned(d, n)
  BY <1>1, <1>2, <1>3 DEF Planned
<1>5. n \notin Planned(d, n)
  BY <1>1 DEF Planned
<1>6. /\ IsFiniteSet(Planned(d, n)) /\ Cardinality(Planned(d, n)) \in Nat
      /\ Cardinality(Planned(d, n) \cup {n}) = Cardinality(Planned(d, n)) + 1
  BY <1>5, PlannedFinite, FS_AddElement
<1> QED BY <1>4, <1>6

LEMMA PlanSeedCategory ==
    ASSUME XInv, PlanInv, NEW s \in Sessions, NEW c \in CategoryIds, SeedCategory(s, c)
    PROVE  PlanInv'
<1> DEFINE r == SetCategory(s, c, CategoriesSeen(s)[c])
           t == [r EXCEPT !.at = @ + 1]
<1>1. /\ tx[s].kind \in {"seed", "reset"} /\ tx[s].at <= Len(SeedPlan)
      /\ SeedPlan[tx[s].at] = [insert |-> "category", category |-> c]
      /\ tx' = [tx EXCEPT ![s] = t] /\ artworks' = artworks
  BY DEF SeedCategory, SeedNext, Script, vars
<1>2. tx[s].at \in 1 .. Len(SeedPlan) /\ IsRecord(tx[s])
  <2>1. Len(SeedPlan) \in Nat
    BY PlanAndBound, LenProperties
  <2> QED BY <1>1, <2>1 DEF XInv, TransactionOK, PhaseOK
<1>3. IsRecord(r) /\ r.kind = tx[s].kind /\ r.artworks = tx[s].artworks /\ r.at = tx[s].at
  BY <1>2, CounterWritten DEF IsRecord
<1> HIDE DEF r
<1>4. t.kind = tx[s].kind /\ t.artworks = tx[s].artworks /\ t.at = tx[s].at + 1
  BY <1>3 DEF IsRecord
<1> HIDE DEF t
<1>5. ASSUME NEW d \in CategoryIds
      PROVE  Cardinality(Planned(d, t.at)) = Cardinality(Planned(d, tx[s].at))
  <2>1. Cardinality(Planned(d, tx[s].at + 1)) = Cardinality(Planned(d, tx[s].at)) + 0
    BY <1>1, <1>2, OneMorePlanned
  <2> QED BY <1>4, <2>1, PlannedFinite
<1>6. PlanOK(t, artworks)
  BY <1>4, <1>5 DEF PlanInv, PlanOK
<1> QED BY <1>1, <1>6, PlanReplaced

LEMMA PlanSeedMedium ==
    ASSUME XInv, PlanInv, NEW s \in Sessions, NEW a \in ArtworkIds, NEW c \in CategoryIds,
           SeedMedium(s, a, c)
    PROVE  PlanInv'
<1> DEFINE r == SetArtwork(s, a, NULL, Medium(c))
           t == [r EXCEPT !.at = @ + 1]
<1>1. /\ tx[s].kind \in {"seed", "reset"} /\ tx[s].at <= Len(SeedPlan)
      /\ SeedPlan[tx[s].at] = [insert |-> "medium", category |-> c]
      /\ a \notin DOMAIN artworks /\ a \notin DOMAIN tx[s].artworks
      /\ tx' = [tx EXCEPT ![s] = t] /\ artworks' = artworks
  BY DEF SeedMedium, SeedNext, Script, Medium, vars
<1>2. /\ tx[s].at \in 1 .. Len(SeedPlan) /\ IsRecord(tx[s])
      /\ IsFiniteSet(DOMAIN tx[s].artworks)
  <2>1. Len(SeedPlan) \in Nat
    BY PlanAndBound, LenProperties
  <2> QED BY <1>1, <2>1 DEF XInv, TransactionOK, PhaseOK, VersionsOK
<1>3. /\ IsRecord(r) /\ r.kind = tx[s].kind /\ r.at = tx[s].at
      /\ r.artworks = WithRow(tx[s].artworks, a, Medium(c))
  BY <1>2, RowWritten DEF IsRecord
<1> HIDE DEF r
<1>4. /\ t.kind = tx[s].kind /\ t.at = tx[s].at + 1
      /\ t.artworks = WithRow(tx[s].artworks, a, Medium(c))
  BY <1>3 DEF IsRecord
<1> HIDE DEF t
<1>5. PlanOK(tx[s], artworks)
  BY DEF PlanInv
<1>6. ASSUME NEW d \in CategoryIds
      PROVE  Cardinality(Loaded(t.artworks, d)) = Cardinality(Planned(d, t.at))
  <2>1. Cardinality(Loaded(t.artworks, d))
            = Cardinality(Loaded(tx[s].artworks, d)) + IF d = c THEN 1 ELSE 0
    BY <1>1, <1>2, <1>4, OneMoreLoaded
  <2>2. Cardinality(Planned(d, t.at))
            = Cardinality(Planned(d, tx[s].at)) + IF d = c THEN 1 ELSE 0
    BY <1>1, <1>2, <1>4, OneMorePlanned
  <2> QED BY <1>1, <1>5, <2>1, <2>2 DEF PlanOK
<1>7. /\ DOMAIN t.artworks = DOMAIN tx[s].artworks \cup {a}
      /\ \A x \in DOMAIN t.artworks :
            t.artworks[x] = IF x = a THEN Medium(c) ELSE tx[s].artworks[x]
  BY <1>4 DEF WithRow
<1>8. PlanOK(t, artworks)
  BY <1>1, <1>4, <1>5, <1>6, <1>7 DEF PlanOK
<1> QED BY <1>1, <1>8, PlanReplaced

LEMMA PlanSeedRecount ==
    ASSUME XInv, PlanInv, NEW s \in Sessions, SeedRecount(s)
    PROVE  PlanInv'
<1> DEFINE r == SetTotals(s)
           t == [r EXCEPT !.at = @ + 1]
<1>1. tx[s].at = Len(SeedPlan) + 1 /\ tx' = [tx EXCEPT ![s] = t] /\ artworks' = artworks
  BY DEF SeedRecount, vars
<1>2. IsRecord(tx[s])
  BY DEF XInv, TransactionOK
<1>3. IsRecord(r) /\ r.kind = tx[s].kind /\ r.artworks = tx[s].artworks /\ r.at = tx[s].at
  BY <1>2 DEF SetTotals, IsRecord
<1> HIDE DEF r
<1>4. t.kind = tx[s].kind /\ t.artworks = tx[s].artworks /\ t.at = tx[s].at + 1
  BY <1>3 DEF IsRecord
<1> HIDE DEF t
<1>5. \A c : Planned(c, t.at) = Planned(c, tx[s].at)
  <2>1. DOMAIN SeedPlan = 1 .. Len(SeedPlan) /\ Len(SeedPlan) \in Nat
    BY PlanAndBound, LenProperties
  <2>2. \A i \in DOMAIN SeedPlan : i < t.at /\ i < tx[s].at
    BY <1>1, <1>4, <2>1
  <2> QED BY <2>2 DEF Planned
<1> QED BY <1>1, <1>4, <1>5, PlanKept, PlanReplaced

LEMMA PlanCounterRow ==
    ASSUME XInv, PlanInv, NEW s \in Sessions, NEW c \in CategoryIds,
           AdjustRow(s, c) \/ RecountRow(s, c)
    PROVE  PlanInv'
<1>1. IsRecord(tx[s])
  BY DEF XInv, TransactionOK
<1>2. PICK row, adjust, totals :
        LET r == SetCategory(s, c, row) IN
        /\ \/ tx' = [tx EXCEPT ![s] = [r EXCEPT !.adjust = adjust]]
           \/ tx' = [tx EXCEPT ![s] = [r EXCEPT !.totals = totals]]
        /\ artworks' = artworks
  BY DEF AdjustRow, RecountRow, vars
<1> DEFINE r == SetCategory(s, c, row)
<1>3. IsRecord(r) /\ r.kind = tx[s].kind /\ r.artworks = tx[s].artworks /\ r.at = tx[s].at
  BY <1>1, CounterWritten DEF IsRecord
<1>4. \/ tx' = [tx EXCEPT ![s] = [r EXCEPT !.adjust = adjust]]
      \/ tx' = [tx EXCEPT ![s] = [r EXCEPT !.totals = totals]]
  BY <1>2
<1> HIDE DEF r
<1>5. PICK t : /\ tx' = [tx EXCEPT ![s] = t]
               /\ t.kind = tx[s].kind /\ t.artworks = tx[s].artworks /\ t.at = tx[s].at
  BY <1>3, <1>4 DEF IsRecord
<1> QED BY <1>2, <1>5, PlanKept, PlanReplaced

(* all is the table rows once the versions in new are committed. *)
CommittedRows(all, new, rows) ==
    /\ DOMAIN all = {a \in DOMAIN new : new[a] # NULL} \cup (DOMAIN rows \ DOMAIN new)
    /\ \A a \in DOMAIN all : all[a] = IF a \in DOMAIN new THEN new[a] ELSE rows[a]

LEMMA CommitsItsRows ==
    ASSUME NEW cats, NEW rows, TablesOK(cats, rows), NEW new, VersionsOK(new)
    PROVE  CommittedRows(Merged(new, rows), new, rows)
  BY MergedRows DEF CommittedRows

LEMMA PlanCommit ==
    ASSUME XInv, PlanInv, NEW s \in Sessions, Commit(s)
    PROVE  PlanInv'
<1> DEFINE rows2 == Merged(tx[s].artworks, artworks)
<1>1. tx[s].kind # "none" /\ artworks' = rows2
      /\ tx' = [o \in Sessions |-> IF o = s THEN Idle
                                   ELSE [tx[o] EXCEPT !.raced = @ \/ RacedBy(s, o)]]
  BY DEF Commit, ArtworksSeen, Merged
<1>2. DOMAIN rows2 \subseteq DOMAIN tx[s].artworks \cup DOMAIN artworks
  <2>1. TablesOK(categories, artworks) /\ VersionsOK(tx[s].artworks)
    BY DEF XInv, TransactionOK
  <2>2. CommittedRows(Merged(tx[s].artworks, artworks), tx[s].artworks, artworks)
    BY <2>1, CommitsItsRows
  <2> QED BY <2>2 DEF CommittedRows
<1> HIDE DEF rows2
<1> SUFFICES ASSUME NEW o \in Sessions PROVE PlanOK(tx'[o], artworks')
  BY DEF PlanInv
<1>3. CASE o = s
  <2>1. tx'[o].kind = "none"
    BY <1>1, <1>3 DEF Idle, Transaction
  <2> QED BY <2>1 DEF PlanOK
<1>4. CASE o # s
  <2> DEFINE raced == (tx[o].raced \/ RacedBy(s, o))
  <2>1. tx'[o] = [tx[o] EXCEPT !.raced = raced]
    BY <1>1, <1>4
  <2>2. IsRecord(tx[o]) /\ Apart(tx[o], tx[s])
    BY <1>4 DEF XInv, TransactionOK
  <2> HIDE DEF raced
  <2>3. tx'[o].kind = tx[o].kind /\ tx'[o].artworks = tx[o].artworks /\ tx'[o].at = tx[o].at
    BY <2>1, <2>2 DEF IsRecord
  <2>4. tx[o].kind # "reset" /\ DOMAIN tx[o].artworks \cap DOMAIN tx[s].artworks = {}
    BY <1>1, <2>2 DEF Apart
  <2>5. PlanOK(tx[o], artworks)
    BY DEF PlanInv
  <2>6. tx[o].kind \in {"seed", "reset"} =>
            \A a \in DOMAIN tx[o].artworks :
                a \notin DOMAIN artworks' /\ \E c \in CategoryIds : tx[o].artworks[a] = Medium(c)
    BY <1>1, <1>2, <2>4, <2>5 DEF PlanOK
  <2> QED BY <2>3, <2>5, <2>6 DEF PlanOK
<1> QED BY <1>3, <1>4

LEMMA PlanMoves ==
    ASSUME XInv, PlanInv, NEW s \in Sessions,
           Start(s) \/ Step(s) \/ Rollback(s)
    PROVE  PlanInv'
<1>1. ASSUME Step(s) PROVE PlanInv'
  BY <1>1, PlanSeedCategory, PlanSeedMedium, PlanSeedRecount, PlanCounterRow, PlanCommit
  DEF Step
<1>2. ASSUME Ended(s) PROVE PlanInv'
  <2>1. PlanOK(Idle, artworks)
    BY DEF PlanOK, Idle, Transaction
  <2> QED BY <1>2, <2>1, PlanReplaced DEF Ended, vars
<1> QED BY <1>1, <1>2, PlanBegins DEF Rollback

LEMMA PlanAlways == TxSpec => []PlanInv
<1>1. TxInit => PlanInv
  BY DEF TxInit, PlanInv, PlanOK, Idle, Transaction
<1>2. XInv /\ PlanInv /\ [TxNext]_txVars => PlanInv'
  <2>1. ASSUME PlanInv, UNCHANGED txVars PROVE PlanInv'
    BY <2>1 DEF txVars, vars, PlanInv
  <2> QED BY <2>1, PlanMoves DEF TxNext
<1> QED BY <1>1, <1>2, XInvAlways, PTL DEF TxSpec

LEMMA CommitLoads ==
    ASSUME XInv, PlanInv, NEW s \in Sessions, Script(s), Commit(s)
    PROVE  PlanTakesEffect(s)
<1> DEFINE new == tx[s].artworks
           rows2 == Merged(new, artworks)
           kept == IF tx[s].kind = "seed" THEN artworks ELSE Nothing
           loaded == DOMAIN artworks' \ DOMAIN kept
<1>1. /\ tx[s].kind \in {"seed", "reset"} /\ tx[s].at = Len(SeedPlan) + 2
      /\ artworks' = rows2 /\ drifted' = tx[s].raced
  BY DEF Script, Commit, Complete, ArtworksSeen, Merged
<1>2. /\ TablesOK(categories, artworks) /\ VersionsOK(new)
      /\ tx[s].kind = "reset" => DOMAIN artworks \subseteq DOMAIN new
  BY DEF XInv, TransactionOK, PhaseOK
<1>3. /\ DOMAIN rows2 = {a \in DOMAIN new : new[a] # NULL} \cup (DOMAIN artworks \ DOMAIN new)
      /\ \A a \in DOMAIN rows2 : rows2[a] = IF a \in DOMAIN new THEN new[a] ELSE artworks[a]
  <2>1. CommittedRows(Merged(tx[s].artworks, artworks), tx[s].artworks, artworks)
    BY <1>2, CommitsItsRows
  <2> QED BY <2>1 DEF CommittedRows
<1>4. PlanOK(tx[s], artworks)
  BY DEF PlanInv
<1>5. \A c \in CategoryIds : Medium(c) # NULL
  <2>1. \A c \in CategoryIds : Medium(c) \in ArtworkRow
    BY DEF Medium, ArtworkRow
  <2> QED BY <2>1, NullIsNoRow
<1> HIDE DEF new, rows2
<1>6. \A a \in DOMAIN new :
        IF a \in DOMAIN artworks THEN tx[s].kind = "reset" /\ new[a] = NULL
        ELSE \E c \in CategoryIds : new[a] = Medium(c)
  BY <1>1, <1>4 DEF PlanOK, new
<1>7. DOMAIN kept = IF tx[s].kind = "seed" THEN DOMAIN artworks ELSE {}
  BY DEF Nothing
<1>8. loaded = DOMAIN new \ DOMAIN artworks
  BY <1>1, <1>2, <1>3, <1>5, <1>6, <1>7
<1>9. /\ DOMAIN kept \subseteq DOMAIN artworks'
      /\ \A a \in DOMAIN kept : artworks'[a] = kept[a]
  BY <1>1, <1>3, <1>6, <1>7
<1> HIDE DEF kept, loaded
<1>10. \A a \in loaded : artworks'[a] = new[a] /\ \E c \in CategoryIds : new[a] = Medium(c)
  BY <1>1, <1>3, <1>5, <1>6, <1>8
<1>11. ASSUME NEW c \in CategoryIds
       PROVE  Cardinality({a \in loaded : artworks'[a] = Medium(c)})
                = Cardinality(Planned(c, Len(SeedPlan) + 1))
  <2>1. {a \in loaded : artworks'[a] = Medium(c)} = Loaded(new, c)
    <3>1. \A a \in DOMAIN new : new[a] = Medium(c) => a \in loaded
      BY <1>5, <1>6, <1>8
    <3>2. loaded \subseteq DOMAIN new
      BY <1>8
    <3> QED BY <1>10, <3>1, <3>2 DEF Loaded
  <2>2. Cardinality(Loaded(new, c)) = Cardinality(Planned(c, Len(SeedPlan) + 2))
    BY <1>1, <1>4 DEF PlanOK, new
  <2>3. Planned(c, Len(SeedPlan) + 2) = Planned(c, Len(SeedPlan) + 1)
    <3>1. DOMAIN SeedPlan = 1 .. Len(SeedPlan) /\ Len(SeedPlan) \in Nat
      BY PlanAndBound, LenProperties
    <3>2. \A i \in DOMAIN SeedPlan : i < Len(SeedPlan) + 2 /\ i < Len(SeedPlan) + 1
      BY <3>1
    <3> QED BY <3>2 DEF Planned
  <2> QED BY <2>1, <2>2, <2>3
<1>12. ~tx[s].raced => CountsExact'
  BY <1>1, CommitEnds DEF XInv, ExactUnlessDrifted
<1>13. loaded \cap DOMAIN artworks = {}
  BY <1>8
<1> QED BY <1>9, <1>10, <1>11, <1>12, <1>13 DEF PlanTakesEffect, kept, loaded

(* A script that commits has loaded exactly the media of its plan, one     *)
(* that ends otherwise nothing, whoever writes, waits or fails meanwhile   *)
(* (seed.py:42-125).                                                       *)
THEOREM SeedCommitsItsPlan == TxSpec => SeedTakesEffect
<1> DEFINE Good == \A s \in Sessions : Script(s) =>
            /\ Commit(s) => PlanTakesEffect(s)
            /\ tx'[s].kind = "none" => PlanTakesEffect(s) \/ UNCHANGED vars
<1>1. ASSUME XInv, PlanInv, [TxNext]_txVars PROVE [Good]_txVars
  <2>1. CASE UNCHANGED txVars
    BY <2>1
  <2>2. ASSUME TxNext, NEW s \in Sessions, Script(s)
        PROVE  /\ Commit(s) => PlanTakesEffect(s)
               /\ tx'[s].kind = "none" => PlanTakesEffect(s) \/ UNCHANGED vars
    <3>1. Commit(s) => PlanTakesEffect(s)
      BY <1>1, <2>2, CommitLoads
    <3>2. ASSUME tx'[s].kind = "none", ~UNCHANGED vars
          PROVE  Commit(s)
      <4>1. PICK p \in Sessions : Commit(p)
        BY <2>2, <3>2, OnlyCommitsWrite
      <4>2. s = p
        BY <1>1, <2>2, <3>2, <4>1, OwnCommitEnds DEF Script
      <4> QED BY <4>1, <4>2
    <3> QED BY <3>1, <3>2
  <2> QED BY <1>1, <2>1, <2>2
<1> QED BY <1>1, XInvAlways, PlanAlways, PTL DEF TxSpec, SeedTakesEffect
=============================================================================
