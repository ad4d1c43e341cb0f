------------------------------- MODULE Bundle -------------------------------
(***************************************************************************)
(* GET /v1/categories/{id}/bundle: build() reads the category, then its    *)
(* subcategories, then the media of all of them, in three statements that  *)
(* other requests and psql write between.                                  *)
(***************************************************************************)
EXTENDS Catalogue

CONSTANTS Limit  \* media per category, clamped to 1 .. BUNDLE_LIMIT_MAX

ASSUME LimitIsPositive == Limit \in Nat \ {0}

VARIABLES build,    \* the request
          nodes,    \* the categories read so far, with their artwork_count
          bundle,   \* what the response says
          arrived   \* history: media that became active in its category

bundleVars == <<vars, build, nodes, bundle, arrived>>

(* The media returned, what the cap left out, and meta.truncated. *)
Bundle(media, cut, truncated) == [media |-> media, cut |-> cut, truncated |-> truncated]

NoBundle == Bundle({}, {}, FALSE)

BundleInit ==
    /\ Init
    /\ build = [pc |-> "idle", category |-> NULL]
    /\ nodes = [c \in {} |-> 0]
    /\ bundle = NoBundle
    /\ arrived = {}

CountsOf(C) == [c \in C |-> categories[c].artwork_count]

----------------------------------------------------------------------------
(* CATEGORY_NODE.  A category that is not there or not active is a 404.    *)
ReadNode(c) ==
    /\ build.pc \in {"idle", "done"}
    /\ c \in DOMAIN categories
    /\ categories[c].is_active
    /\ build' = [pc |-> "node", category |-> c]
    /\ nodes' = CountsOf({c})
    /\ bundle' = NoBundle
    /\ arrived' = {}
    /\ UNCHANGED vars

(* CATEGORY_CHILDREN. *)
ReadChildren ==
    LET children == {c \in Children(build.category) : categories[c].is_active} IN
    /\ build.pc = "node"
    /\ build' = [build EXCEPT !.pc = "children"]
    /\ nodes' = [c \in DOMAIN nodes \cup children |->
                    IF c \in children THEN categories[c].artwork_count ELSE nodes[c]]
    /\ UNCHANGED <<vars, bundle, arrived>>

(* Wrong on purpose: only the subcategories are looked at. *)
SubcategoryTruncated == \E n \in DOMAIN nodes \ {build.category} : nodes[n] > Limit

(* any(n["artwork_count"] > per_category ...), of the counts read before.  *)
Truncated == \E n \in DOMAIN nodes : nodes[n] > Limit

(* BUNDLE_ARTWORKS: the newest Limit of each category; which ones these    *)
(* are depends on created_at, which is not modelled.                       *)
Capped(media) ==
    /\ media \subseteq ActiveIn(DOMAIN nodes)
    /\ \A n \in DOMAIN nodes :
            LET all == Cardinality(ActiveIn({n}))
            IN  Cardinality(media \cap ActiveIn({n})) = IF all < Limit THEN all ELSE Limit

ReadMedia ==
    /\ build.pc = "children"
    /\ build' = [pc |-> "done", category |-> NULL]
    /\ \E media \in SUBSET ActiveIn(DOMAIN nodes) :
            /\ Capped(media)
            /\ bundle' = Bundle(media, ActiveIn(DOMAIN nodes) \ media, Truncated)
    /\ nodes' = CountsOf({})
    /\ UNCHANGED <<vars, arrived>>

Arriving ==
    {a \in DOMAIN artworks' : artworks'[a].is_active
                              /\ (a \in DOMAIN artworks => artworks[a] # artworks'[a])}

(* Any statement of the catalogue. *)
Write ==
    /\ Next
    /\ arrived' = IF build.pc \in {"node", "children"} THEN arrived \cup Arriving ELSE arrived
    /\ UNCHANGED <<build, nodes, bundle>>

BundleNext ==
    \/ \E c \in CategoryIds : ReadNode(c)
    \/ ReadChildren
    \/ ReadMedia
    \/ Write

BundleSpec == BundleInit /\ [][BundleNext]_bundleVars

----------------------------------------------------------------------------
(* Properties. *)

(* A bundle of a one-level tree that is not marked truncated lacks no more *)
(* media than became active while it was built: the counters of the first  *)
(* two reads account for the rest (categories.py:133-148, on the strength  *)
(* of 002_triggers.sql).                                                   *)
NothingCutSilently ==
    build.pc = "done" /\ ~bundle.truncated /\ OneLevelTree =>
        Cardinality(bundle.cut) <= Cardinality(arrived)
=============================================================================
