----------------------------- MODULE BoundedMap -----------------------------
(***************************************************************************)
(* What the response cache is to the code that uses it: a map from keys to *)
(* entries that expire, and that may lose one other entry when a new key   *)
(* does not fit.  Which one is TTLCache's business.                        *)
(*                                                                         *)
(* An entry keeps the time it has left, expires_at - now, so that a clock  *)
(* tick ages every entry by one and 0 means expired.                       *)
(***************************************************************************)
EXTENDS Naturals, FiniteSets, Functions

CONSTANTS MaxSize,  \* CACHE_MAX_ENTRIES, at least 1
          TTL       \* CACHE_TTL_SECONDS, in ticks

ASSUME CacheSettings == MaxSize \in Nat \ {0} /\ TTL \in Nat

EmptyMap == [k \in {} |-> 0]

(* Wrong on purpose: an entry is still served at its time of expiry.       *)
HeldAtExpiry(m, k) == k \in DOMAIN m /\ m[k].left >= 0

(* get finds an entry that has not expired. *)
Live(m, k) == k \in DOMAIN m /\ m[k].left > 0

(* The map after a get: an expired entry is removed on the way. *)
Fetched(m, k) == IF Live(m, k) THEN m ELSE Restrict(m, DOMAIN m \ {k})

(* Wrong on purpose: nothing makes room for a new key. *)
StoredBeside(m, k, value) ==
    {[x \in DOMAIN m \cup {k} |->
        IF x = k THEN [value |-> value, left |-> TTL] ELSE m[x]]}

(* The maps that can be there after a set. *)
Stored(m, k, value) ==
    LET full == [x \in DOMAIN m \cup {k} |->
                    IF x = k THEN [value |-> value, left |-> TTL] ELSE m[x]]
    IN  IF Cardinality(DOMAIN full) <= MaxSize
        THEN {full}
        ELSE {Restrict(full, DOMAIN full \ {victim}) : victim \in DOMAIN m \ {k}}

(* The map one tick of the clock later. *)
Aged(m) ==
    [k \in DOMAIN m |-> [m[k] EXCEPT !.left = IF @ > 0 THEN @ - 1 ELSE 0]]
=============================================================================
