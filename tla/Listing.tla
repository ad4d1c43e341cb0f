------------------------------ MODULE Listing ------------------------------
(***************************************************************************)
(* The paged listings: fetch_page and build_meta behind GET /v1/artworks   *)
(* and its kin, and a client that walks the pages from the first to the    *)
(* last while media is added to and removed from the feed.                 *)
(*                                                                         *)
(* The feed holds the rows that match the filters, in the order of the     *)
(* listing.  New media usually comes first, but created_at is the start of *)
(* its transaction, and a load may set it: it can come anywhere.           *)
(*                                                                         *)
(* Each page is built from the database, as with CACHE_ENABLED=false.  The *)
(* cache may give a walk pages of different ages, and then only what       *)
(* Serving says of each of them holds.                                     *)
(***************************************************************************)
EXTENDS Integers, SequencesExt

CONSTANTS Items,
          None,                         \* no page_size in the query
          Requested,                    \* the client's page_size
          PageSizeDefault, PageSizeMax, \* PAGE_SIZE_DEFAULT, PAGE_SIZE_MAX
          MaxChanges                    \* bound: additions, and removals, in a walk

ASSUME PageSettings ==
    /\ Requested = None \/ Requested \in Nat \ {0}
    /\ PageSizeDefault \in Nat \ {0}
    /\ PageSizeMax \in Nat \ {0}
    /\ MaxChanges \in Nat

(* The sequence of ids comes to an end. *)
ASSUME FinitelyMany == IsFiniteSet(Items)

VARIABLES feed,   \* the table
          walk,   \* the client
          seen,   \* what it was given, in that order
          start,  \* history: the feed when the walk began
          added,  \* history: how often media was added since then
          removed \* history: how often media was removed since then

listingVars == <<feed, walk, seen, start, added, removed>>

(* clamp_page_size. *)
PageSize ==
    IF Requested = None THEN PageSizeDefault
    ELSE IF Requested < PageSizeMax THEN Requested
    ELSE PageSizeMax

(* Wrong on purpose: the offset in pages. *)
OffsetInPages(page) == page - 1

(* (page - 1) * size *)
Offset(page) == (page - 1) * PageSize

(* Wrong on purpose: pages counted from zero. *)
RowsFromZero(page) ==
    SubSeq(feed, page * PageSize + 1, Min({(page + 1) * PageSize, Len(feed)}))

(* LIMIT and OFFSET. *)
Rows(page) == SubSeq(feed, Offset(page) + 1, Min({Offset(page) + PageSize, Len(feed)}))

(* Wrong on purpose: there is a next page if this one is not past the end. *)
ResponseOneMore(page, data, total) == [data |-> data, has_next |-> Offset(page) < total]

(* Wrong on purpose: there is a next page if it is full. *)
ResponseNextFull(page, data, total) ==
    [data |-> data, has_next |-> (page + 1) * PageSize <= total]

(* build_meta. *)
Response(page, data, total) == [data |-> data, has_next |-> page * PageSize < total]

(* No page is asked for that lies past all the media there can be. *)
ListingTypeOK ==
    /\ feed \in Seq(Items)
    /\ IsInjective(feed)
    /\ walk \in [pc : {"idle", "asking", "counting", "done"}, page : Nat \ {0}]
    /\ walk.page = 1 \/ Offset(walk.page) < Cardinality(Items)
    /\ seen \in Seq(Items)
    /\ start \in Seq(Items)
    /\ added \in 0 .. MaxChanges /\ removed \in 0 .. MaxChanges

ListingInit ==
    /\ feed = <<>>
    /\ walk = [pc |-> "idle", page |-> 1]
    /\ seen = <<>>
    /\ start = <<>>
    /\ added = 0
    /\ removed = 0

----------------------------------------------------------------------------
StartWalk ==
    /\ walk.pc \in {"idle", "done"}
    /\ walk' = [pc |-> "asking", page |-> 1]
    /\ seen' = <<>>
    /\ start' = feed
    /\ added' = 0
    /\ removed' = 0
    /\ UNCHANGED feed

(* The client takes the page and asks for the next while there is one.     *)
Take(response) ==
    /\ seen' = seen \o response.data
    /\ walk' = IF response.has_next
               THEN [pc |-> "asking", page |-> walk.page + 1]
               ELSE [pc |-> "done", page |-> walk.page]

(* The first statement: the rows, and with each of them their total.       *)
FetchRows ==
    /\ walk.pc = "asking"
    /\ IF Rows(walk.page) # <<>> \/ Offset(walk.page) = 0
       THEN Take(Response(walk.page, Rows(walk.page), Len(feed)))
       ELSE walk' = [walk EXCEPT !.pc = "counting"] /\ UNCHANGED seen
    /\ UNCHANGED <<feed, start, added, removed>>

(* The second one, of a page past the end: the total by then. *)
FetchCount ==
    /\ walk.pc = "counting"
    /\ Take(Response(walk.page, <<>>, Len(feed)))
    /\ UNCHANGED <<feed, start, added, removed>>

(* An upload, a load, a medium or its category made active again. *)
AddItem(item, at) ==
    /\ item \notin ToSet(feed)
    /\ added < MaxChanges
    /\ feed' = InsertAt(feed, at, item)
    /\ added' = added + 1
    /\ UNCHANGED <<walk, seen, start, removed>>

(* A soft delete of a medium, or of its category. *)
RemoveItem(at) ==
    /\ removed < MaxChanges
    /\ feed' = RemoveAt(feed, at)
    /\ removed' = removed + 1
    /\ UNCHANGED <<walk, seen, start, added>>

ListingNext ==
    \/ StartWalk
    \/ FetchRows
    \/ FetchCount
    \/ \E item \in Items : \E at \in 1 .. Len(feed) + 1 : AddItem(item, at)
    \/ \E at \in DOMAIN feed : RemoveItem(at)

ListingSpec == ListingInit /\ [][ListingNext]_listingVars

----------------------------------------------------------------------------
(* Properties. *)

(* Additions push media towards later pages only, and a removal pulls one  *)
(* medium across the end of the pages read so far.  So, of what was there  *)
(* when it began, a walk misses no more than was removed on the way,       *)
(* wherever new media comes (db.py:86-93, schemas.py:150).                 *)
SkipsBounded ==
    walk.pc = "done" => Cardinality(ToSet(start) \ ToSet(seen)) <= removed

(* The other way round, an addition pushes one medium back across that     *)
(* end, or is itself one that was seen before: a walk is given no more     *)
(* twice than was added (db.py:86-93).                                     *)
RepeatsBounded ==
    Len(seen) - Cardinality(ToSet(seen)) <= added

(* In a feed that nothing happens to, the pages put together are the feed. *)
WalkIsTheFeed ==
    walk.pc = "done" /\ added = 0 /\ removed = 0 => seen = start
=============================================================================
