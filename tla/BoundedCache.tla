---------------------------- MODULE BoundedCache ----------------------------
(* The specification of one cache: any sequence of gets, sets and clears,  *)
(* with time passing in between.  answer is what the last get returned.    *)
EXTENDS BoundedMap

CONSTANTS Keys, Values, None

VARIABLES entries, answer

Init == entries = EmptyMap /\ answer = None

Get(k) ==
    /\ answer' = IF Live(entries, k) THEN entries[k].value ELSE None
    /\ entries' = Fetched(entries, k)

Set(k, value) ==
    /\ entries' \in Stored(entries, k, value)
    /\ UNCHANGED answer

Clear ==
    /\ entries' = EmptyMap
    /\ UNCHANGED answer

Tick ==
    /\ entries' = Aged(entries)
    /\ UNCHANGED answer

Next ==
    \/ \E k \in Keys : Get(k)
    \/ \E k \in Keys, value \in Values : Set(k, value)
    \/ Clear
    \/ Tick

Spec == Init /\ [][Next]_<<entries, answer>>
=============================================================================
