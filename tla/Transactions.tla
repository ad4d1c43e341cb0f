---------------------------- MODULE Transactions ----------------------------
(***************************************************************************)
(* What Catalogue takes as one step, a statement with its triggers, is a   *)
(* transaction of several: it changes a row of artworks, then the counters *)
(* above it one by one, each under a row lock that it keeps to its end.    *)
(* Sessions run such transactions side by side under READ COMMITTED, next  *)
(* to recounts and to the seed script, whose transaction is a long one.    *)
(*                                                                         *)
(* categories and artworks are what is committed.  A transaction adds the  *)
(* versions of rows that it has made or locked; nobody else can lock these *)
(* rows.  An UPDATE that had to wait for a row goes on from its newest     *)
(* version, so a counter is incremented from what it is by then; but what  *)
(* it is compared with, or set to, stays what the statement's snapshot     *)
(* said.  The tree of the categories does not change here.                 *)
(***************************************************************************)
EXTENDS Catalogue, Sequences

CONSTANTS Sessions,    \* connections: of the workers' pools, psql, the script
          Tree,        \* the categories, as the seed script has left them
          SeedPlan,    \* the statements it runs until the recount
          MaxBegun     \* bound: transactions in all

ASSUME TreeIsOneLevel ==
    /\ Tree \in [CategoryIds -> CategoryRow]
    /\ \A c \in CategoryIds : Tree[c].parent_id # NULL =>
            Tree[c].parent_id \in CategoryIds /\ Tree[Tree[c].parent_id].parent_id = NULL

(* The script inserts media into the subcategories it has made.            *)
ASSUME PlanAndBound ==
    /\ SeedPlan \in Seq([insert : {"category", "medium"}, category : CategoryIds])
    /\ \A i \in 1 .. Len(SeedPlan) :
            SeedPlan[i].insert = "medium" => Tree[SeedPlan[i].category].parent_id # NULL
    /\ MaxBegun \in Nat

ASSUME NullIsNoRow == NULL \notin ArtworkRow

VARIABLES tx,      \* the transaction of each session
          drifted, \* history: a load, or a raced recount, and no recount since
          begun    \* how many transactions there were

txVars == <<vars, tx, drifted, begun>>

Nothing == [x \in {} |-> NULL]

(* adjust: the calls of adjust_artwork_count to come, totals: the rows the *)
(* recount has still to update.  raced: since its snapshot such a row got  *)
(* a newer version, or another raced recount committed.  at: the script's  *)
(* next statement.                                                         *)
Transaction(kind) ==
    [kind |-> kind, categories |-> Nothing, artworks |-> Nothing,
     adjust |-> <<>>, totals |-> Nothing, at |-> 1, raced |-> FALSE]

Idle == Transaction("none")

TxTypeOK ==
    /\ TypeOK
    /\ \A s \in Sessions :
        /\ tx[s].kind \in {"none", "write", "recount", "seed", "reset"}
        /\ tx[s].categories \in [DOMAIN tx[s].categories -> CategoryRow]
        /\ tx[s].artworks \in [DOMAIN tx[s].artworks -> ArtworkRow \cup {NULL}]
        /\ tx[s].adjust \in Seq([rows : (SUBSET CategoryIds) \ {{}}, delta : {-1, 1}])
        /\ tx[s].totals \in [DOMAIN tx[s].totals -> Nat]
        /\ tx[s].at \in 1 .. Len(SeedPlan) + 2
        /\ tx[s].kind = "none" => tx[s] = Idle
        /\ \A o \in Sessions \ {s} :
            /\ DOMAIN tx[s].categories \cap DOMAIN tx[o].categories = {}
            /\ DOMAIN tx[s].artworks \cap DOMAIN tx[o].artworks = {}
    /\ drifted \in BOOLEAN
    /\ begun \in 0 .. MaxBegun

----------------------------------------------------------------------------
Over(new, old) ==
    [x \in DOMAIN new \cup DOMAIN old |-> IF x \in DOMAIN new THEN new[x] ELSE old[x]]

(* The tables as session s sees them. *)
CategoriesSeen(s) == Over(tx[s].categories, categories)

ArtworksSeen(s) ==
    LET rows == Over(tx[s].artworks, artworks)
    IN  Without(rows, {a \in DOMAIN rows : rows[a] = NULL})

(* Wrong on purpose: rows are not locked. *)
AnyCategory(s, c) == TRUE

CategoryFree(s, c) == \A o \in Sessions \ {s} : c \notin DOMAIN tx[o].categories

ArtworkFree(s, a) == \A o \in Sessions \ {s} : a \notin DOMAIN tx[o].artworks

Settled(s) == tx[s].adjust = <<>> /\ tx[s].totals = Nothing

SetCategory(s, c, row) == [tx[s] EXCEPT !.categories = WithRow(@, c, row)]

(* Wrong on purpose: the parent is forgotten. *)
TargetOnly(target) == {target}

(* The rows adjust_artwork_count updates. *)
CountersOf(target) == {target, Tree[target].parent_id} \ {NULL}

(* One medium may be there.  A COPY or a restore may have left a counter   *)
(* off; bound: one of them, by one.                                        *)
TxInit ==
    /\ \/ artworks = Nothing
       \/ \E a \in ArtworkIds, c \in {d \in CategoryIds : Tree[d].parent_id # NULL} :
            artworks = [x \in {a} |-> [category_id |-> c, is_active |-> TRUE]]
    /\ LET above == UNION {CountersOf(artworks[a].category_id) : a \in DOMAIN artworks}
           exact == [c \in CategoryIds |-> IF c \in above THEN 1 ELSE 0]
       IN  \E c \in CategoryIds, n \in 0 .. 1 :
            categories = [d \in CategoryIds |->
                [Tree[d] EXCEPT !.artwork_count = IF d = c THEN n ELSE exact[d]]]
    /\ tx = [s \in Sessions |-> Idle]
    /\ drifted = ~CountsExact
    /\ begun = 0

Calls(from, to) ==
    LET call(target, delta) == <<[rows |-> CountersOf(target), delta |-> delta]>>
    IN  (IF from # NULL /\ from # to THEN call(from, -1) ELSE <<>>)
        \o (IF to # NULL /\ to # from THEN call(to, 1) ELSE <<>>)

(* Wrong on purpose: OLD.is_active is not looked at. *)
AdjustmentsOfAny(old, new) ==
    Calls(IF old = NULL THEN NULL ELSE old.category_id,
          IF new = NULL THEN NULL ELSE CountedAs(new))

(* artworks_sync_counts, for a row that was old and is new, NULL for none. *)
Adjustments(old, new) ==
    Calls(IF old = NULL THEN NULL ELSE CountedAs(old),
          IF new = NULL THEN NULL ELSE CountedAs(new))

(* The row is written, or deleted, and its triggers called. *)
SetArtwork(s, a, old, new) ==
    [tx[s] EXCEPT !.artworks = WithRow(@, a, new), !.adjust = Adjustments(old, new)]

(* What recount_artwork_counts finds to correct in its snapshot. *)
Totals(s) ==
    LET media == ArtworksSeen(s)
        total(c) == Cardinality({a \in DOMAIN media :
                        /\ media[a].is_active
                        /\ media[a].category_id \in (IF IsRoot(c) THEN Children(c) ELSE {c})})
    IN  [c \in {d \in CategoryIds : CategoriesSeen(s)[d].artwork_count # total(d)} |-> total(c)]

SetTotals(s) == [tx[s] EXCEPT !.totals = Totals(s)]

----------------------------------------------------------------------------
(* Statements that are transactions of their own.  One that needs a row    *)
(* somebody has locked starts, for this model, when it is free, and with   *)
(* its newest version.  TRUNCATE locks out everybody, readers too.         *)

Begin(s, kind, t) ==
    /\ tx[s].kind = "none"
    /\ \A o \in Sessions : tx[o].kind # "reset"
    /\ begun < MaxBegun
    /\ begun' = begun + 1
    /\ tx' = [tx EXCEPT ![s] = [t EXCEPT !.kind = kind]]
    /\ UNCHANGED <<vars, drifted>>

(* The INSERT of an upload; its id is new to everybody. *)
Insert(s, a, c) ==
    /\ a \notin DOMAIN artworks
    /\ ArtworkFree(s, a)
    /\ RequireSubcategory(c)
    /\ Begin(s, "write", SetArtwork(s, a, NULL, [category_id |-> c, is_active |-> TRUE]))

(* DELETE /admin/artworks/{id} *)
SoftDelete(s, a) ==
    /\ a \in DOMAIN artworks
    /\ ArtworkFree(s, a)
    /\ artworks[a].is_active
    /\ Begin(s, "write", SetArtwork(s, a, artworks[a], [artworks[a] EXCEPT !.is_active = FALSE]))

(* UPDATE in psql: the medium moves, or comes back. *)
Update(s, a, c, active) ==
    /\ a \in DOMAIN artworks
    /\ ArtworkFree(s, a)
    /\ c # artworks[a].category_id => RequireSubcategory(c)
    /\ Begin(s, "write", SetArtwork(s, a, artworks[a], [category_id |-> c, is_active |-> active]))

(* DELETE in psql. *)
Erase(s, a) ==
    /\ a \in DOMAIN artworks
    /\ ArtworkFree(s, a)
    /\ Begin(s, "write", SetArtwork(s, a, artworks[a], NULL))

(* PATCH and DELETE /admin/categories/{id}: the row is locked and written  *)
(* anew, in columns that nothing here reads.                               *)
Touch(s, c) ==
    /\ CategoryFree(s, c)
    /\ Begin(s, "write", SetCategory(s, c, categories[c]))

RecountStart(s) == Begin(s, "recount", SetTotals(s))

----------------------------------------------------------------------------
(* The seed script: one transaction.  A new id is fresh, and so is the key *)
(* of each medium, so ON CONFLICT (storage_key) never applies; the         *)
(* categories are there, so ON CONFLICT (slug) always does.                *)
SeedStart(s) == Begin(s, "seed", Idle)

(* TRUNCATE waits until no other transaction is left.  The categories come *)
(* back with the same ids; nobody can look before they do.                 *)
ResetStart(s) ==
    /\ \A o \in Sessions : tx[o].kind = "none"
    /\ Begin(s, "reset", [Idle EXCEPT !.artworks = [a \in DOMAIN artworks |-> NULL],
                                      !.categories = Tree])

Script(s) == tx[s].kind \in {"seed", "reset"}

SeedNext(s, what, c) ==
    /\ Script(s)
    /\ Settled(s)
    /\ tx[s].at <= Len(SeedPlan)
    /\ SeedPlan[tx[s].at] = [insert |-> what, category |-> c]

SeedCategory(s, c) ==
    /\ SeedNext(s, "category", c)
    /\ CategoryFree(s, c)
    /\ tx' = [tx EXCEPT ![s] = [SetCategory(s, c, CategoriesSeen(s)[c]) EXCEPT !.at = @ + 1]]
    /\ UNCHANGED <<vars, drifted, begun>>

SeedMedium(s, a, c) ==
    /\ SeedNext(s, "medium", c)
    /\ a \notin DOMAIN artworks \cup DOMAIN tx[s].artworks
    /\ ArtworkFree(s, a)
    /\ tx' = [tx EXCEPT ![s] =
                [SetArtwork(s, a, NULL, [category_id |-> c, is_active |-> TRUE]) EXCEPT !.at = @ + 1]]
    /\ UNCHANGED <<vars, drifted, begun>>

SeedRecount(s) ==
    /\ Script(s)
    /\ Settled(s)
    /\ tx[s].at = Len(SeedPlan) + 1
    /\ tx' = [tx EXCEPT ![s] = [SetTotals(s) EXCEPT !.at = @ + 1]]
    /\ UNCHANGED <<vars, drifted, begun>>

----------------------------------------------------------------------------
(* The counters, row by row, in the order the plan happens to visit them.  *)

Adjusted(s, c) ==
    [CategoriesSeen(s)[c] EXCEPT !.artwork_count = @ + Head(tx[s].adjust).delta]

Adjusts(s, c) ==
    /\ tx[s].adjust # <<>>
    /\ c \in Head(tx[s].adjust).rows
    /\ CategoryFree(s, c)

AdjustRow(s, c) ==
    /\ Adjusts(s, c)
    /\ Adjusted(s, c).artwork_count >= 0
    /\ LET left == Head(tx[s].adjust).rows \ {c}
       IN  tx' = [tx EXCEPT ![s] = [SetCategory(s, c, Adjusted(s, c)) EXCEPT !.adjust =
                    IF left = {} THEN Tail(@) ELSE [@ EXCEPT ![1].rows = left]]]
    /\ UNCHANGED <<vars, drifted, begun>>

RecountRow(s, c) ==
    /\ c \in DOMAIN tx[s].totals
    /\ CategoryFree(s, c)
    /\ tx' = [tx EXCEPT ![s] =
                [SetCategory(s, c, [CategoriesSeen(s)[c] EXCEPT !.artwork_count = tx[s].totals[c]])
                    EXCEPT !.totals = Restrict(@, DOMAIN @ \ {c})]]
    /\ UNCHANGED <<vars, drifted, begun>>

(* By the commit of s, which may put off counters that o found exact.      *)
RacedBy(s, o) ==
    /\ tx[o].kind = "recount" \/ tx[o].at = Len(SeedPlan) + 2
    /\ tx[s].raced \/ DOMAIN tx[s].categories \cap DOMAIN tx[o].totals # {}

(* Wrong on purpose: the script's statements without a transaction around. *)
AtEachStatement(s) == TRUE

(* The script commits after its recount, not before. *)
Complete(s) == Script(s) => tx[s].at = Len(SeedPlan) + 2

Commit(s) ==
    /\ tx[s].kind # "none"
    /\ Settled(s)
    /\ Complete(s)
    /\ categories' = CategoriesSeen(s)
    /\ artworks' = ArtworksSeen(s)
    /\ tx' = [o \in Sessions |-> IF o = s THEN Idle
                                 ELSE [tx[o] EXCEPT !.raced = @ \/ RacedBy(s, o)]]
    /\ drifted' = IF tx[s].kind = "write" THEN drifted ELSE tx[s].raced
    /\ UNCHANGED begun

Ended(s) ==
    /\ tx' = [tx EXCEPT ![s] = Idle]
    /\ UNCHANGED <<vars, drifted, begun>>

(* A statement_timeout, a lost connection, a script that is interrupted, a *)
(* deadlock that Postgres breaks, or a constraint: nothing of the          *)
(* transaction remains.                                                    *)
Rollback(s) ==
    /\ tx[s].kind # "none"
    /\ Ended(s)

(* categories_count_non_negative fails. *)
Refused(s) == \E c \in CategoryIds : Adjusts(s, c) /\ Adjusted(s, c).artwork_count < 0

Step(s) ==
    \/ \E c \in CategoryIds : SeedCategory(s, c) \/ AdjustRow(s, c) \/ RecountRow(s, c)
    \/ \E a \in ArtworkIds, c \in CategoryIds : SeedMedium(s, a, c)
    \/ SeedRecount(s)
    \/ Commit(s)

Start(s) ==
    \/ \E a \in ArtworkIds, c \in CategoryIds : Insert(s, a, c)
    \/ \E a \in ArtworkIds : SoftDelete(s, a) \/ Erase(s, a)
    \/ \E a \in ArtworkIds, c \in CategoryIds, b \in BOOLEAN : Update(s, a, c, b)
    \/ \E c \in CategoryIds : Touch(s, c)
    \/ RecountStart(s)
    \/ SeedStart(s)
    \/ ResetStart(s)

TxNext == \E s \in Sessions : Start(s) \/ Step(s) \/ Rollback(s)

TxSpec == TxInit /\ [][TxNext]_txVars

----------------------------------------------------------------------------
(* Properties. *)

(* Counters that are exact stay exact whatever runs side by side, a        *)
(* recount that begins then included, and a recount makes them exact.  The *)
(* exception is one that has found drift, and comes to a row that somebody *)
(* has written since: it puts counters off again, also when another        *)
(* recount has repaired them by then (002_triggers.sql:31-38, :74-100).    *)
ExactUnlessDrifted == drifted \/ CountsExact

(* A transaction of one statement takes effect like a single step of       *)
(* Catalogue, however its steps interleaved with those of others; a raced  *)
(* recount is the only exception.                                          *)
CommitsAreStatements ==
    [][ \A s \in Sessions :
            tx[s].kind \in {"write", "recount"} /\ tx'[s].kind = "none" /\ ~tx[s].raced
                => Next \/ UNCHANGED vars ]_txVars

(* With exact counters categories_count_non_negative never makes a         *)
(* statement fail, not even one that waited (001_init.sql:32).             *)
NothingRefused == ~drifted => \A s \in Sessions : ~Refused(s)

(* A medium as the script inserts it, and which of its first n - 1         *)
(* statements insert one into c.                                           *)
Medium(c) == [category_id |-> c, is_active |-> TRUE]

Planned(c, n) ==
    {i \in DOMAIN SeedPlan : i < n /\ SeedPlan[i] = [insert |-> "medium", category |-> c]}

(* kept is what was there, or nothing where it was truncated. *)
PlanTakesEffect(s) ==
    LET kept == IF tx[s].kind = "seed" THEN artworks ELSE Nothing
        loaded == DOMAIN artworks' \ DOMAIN kept
    IN  /\ DOMAIN kept \subseteq DOMAIN artworks'
        /\ \A a \in DOMAIN kept : artworks'[a] = kept[a]
        /\ loaded \cap DOMAIN artworks = {}
        /\ \A a \in loaded : \E c \in CategoryIds : artworks'[a] = Medium(c)
        /\ \A c \in CategoryIds :
                Cardinality({a \in loaded : artworks'[a] = Medium(c)})
                    = Cardinality(Planned(c, Len(SeedPlan) + 1))
        /\ ~tx[s].raced => CountsExact'

(* The seed script loads all of its plan or nothing, wherever it is        *)
(* interrupted, times out or is the victim of a deadlock, and whatever is  *)
(* written meanwhile.  Its commit adds exactly the media of the plan, as   *)
(* new rows, loses and changes none it has not truncated, theirs who       *)
(* committed meanwhile included, and leaves exact counters if nobody raced *)
(* its recount (seed.py:42-125, one transaction).                          *)
SeedTakesEffect ==
    [][ \A s \in Sessions : Script(s) =>
            /\ Commit(s) => PlanTakesEffect(s)
            /\ tx'[s].kind = "none" => PlanTakesEffect(s) \/ UNCHANGED vars ]_txVars
=============================================================================
