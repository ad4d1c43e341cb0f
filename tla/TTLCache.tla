------------------------------ MODULE TTLCache ------------------------------
(***************************************************************************)
(* app/cache.py, TTLCache: an OrderedDict from keys to (expires_at, value),*)
(* least recently used first, as a sequence of entries.  get and set never *)
(* await, so each is one step.                                             *)
(***************************************************************************)
EXTENDS Naturals, FiniteSets, SequencesExt

CONSTANTS Keys, Values, None,
          MaxSize, TTL

ASSUME NoneIsNoValue == None \notin Values
(* Keys are paths and queries, whose length the server limits.             *)
ASSUME FinitelyManyKeys == IsFiniteSet(Keys)
(* There are more of them than CACHE_MAX_ENTRIES, which is at least 1.     *)
ASSUME Bounds == MaxSize \in 1 .. Cardinality(Keys) /\ TTL \in Nat

VARIABLES data,    \* the OrderedDict, first item first
          answer,  \* what the last get returned
          since    \* history: the other keys used since k was last used

vars == <<data, answer, since>>

Entry == [key : Keys, value : Values, left : 0 .. TTL]

KeysOf(d) == {d[i].key : i \in DOMAIN d}

Place(d, k) == CHOOSE i \in DOMAIN d : d[i].key = k

EntryOf(d, k) == d[Place(d, k)]

Without(d, k) == IF k \in KeysOf(d) THEN RemoveAt(d, Place(d, k)) ELSE d

(* k is used: it has no others after it, and it comes after all others.    *)
UseOf(k) ==
    since' = [x \in Keys |-> IF x = k THEN {} ELSE since[x] \cup {k}]

(* No key has been used: as if all others had been since. *)
Init ==
    /\ data = <<>>
    /\ answer = None
    /\ since = [k \in Keys |-> Keys]

(* Wrong on purpose: a hit does not move the entry to the end. *)
HitInPlace(k) ==
    /\ k \in KeysOf(data)
    /\ EntryOf(data, k).left > 0
    /\ answer' = EntryOf(data, k).value
    /\ UseOf(k)
    /\ UNCHANGED data

Hit(k) ==
    /\ k \in KeysOf(data)
    /\ EntryOf(data, k).left > 0
    /\ answer' = EntryOf(data, k).value
    /\ data' = Append(Without(data, k), EntryOf(data, k))
    /\ UseOf(k)

Expired(k) ==
    /\ k \in KeysOf(data)
    /\ EntryOf(data, k).left = 0
    /\ answer' = None
    /\ data' = Without(data, k)
    /\ since' = [since EXCEPT ![k] = Keys]

Miss(k) ==
    /\ k \notin KeysOf(data)
    /\ answer' = None
    /\ UNCHANGED <<data, since>>

Get(k) == Hit(k) \/ Expired(k) \/ Miss(k)

(* Wrong on purpose: room is made before looking whether k is there.       *)
TrimmedFirst(d, k, e) ==
    Append(Without(IF Len(d) >= MaxSize THEN Tail(d) ELSE d, k), e)

(* The entry goes to the end, and popitem(last=False) drops the first if   *)
(* there is now one too many.                                              *)
Trimmed(d, k, e) ==
    LET longer == Append(Without(d, k), e)
    IN  IF Len(longer) > MaxSize THEN Tail(longer) ELSE longer

Set(k, value) ==
    /\ data' = Trimmed(data, k, [key |-> k, value |-> value, left |-> TTL])
    /\ UseOf(k)
    /\ UNCHANGED answer

Clear ==
    /\ data' = <<>>
    /\ since' = [k \in Keys |-> Keys]
    /\ UNCHANGED answer

(* time.monotonic() passes one second. *)
Tick ==
    /\ data' = [i \in DOMAIN data |->
                    [data[i] EXCEPT !.left = IF @ > 0 THEN @ - 1 ELSE 0]]
    /\ UNCHANGED <<answer, since>>

Next ==
    \/ \E k \in Keys : Get(k)
    \/ \E k \in Keys, value \in Values : Set(k, value)
    \/ Clear
    \/ Tick

Spec == Init /\ [][Next]_vars

----------------------------------------------------------------------------
(* Properties. *)

(* Least recently used: an entry is given up before its time only for      *)
(* MaxSize other keys that have all been used since it was (cache.py:37,   *)
(* :43-45).                                                                *)
LeastRecentlyUsed ==
    \A k \in Keys : Cardinality(since[k]) < MaxSize => k \in KeysOf(data)

(* The OrderedDict as a map. *)
Entries(d) == [k \in KeysOf(d) |-> [value |-> EntryOf(d, k).value,
                                    left  |-> EntryOf(d, k).left]]

Abstract == INSTANCE BoundedCache WITH entries <- Entries(data)

(* The OrderedDict implements the bounded map that the rest of the service *)
(* relies on: a get answers with the value set last and not yet expired or *)
(* nothing, a set costs at most one other entry, a clear leaves none.      *)
ImplementsBoundedCache == Abstract!Spec
=============================================================================
