----------------------------- MODULE MCPipeline -----------------------------
(* Each thing a handler can do, with and without each layer that adds to   *)
(* Vary, and with each kind of id.                                         *)
EXTENDS Pipeline

Symmetry == Permutations(Clients)

Asked(endpoint, key, result) ==
    {[endpoint |-> endpoint, key |-> key, result |-> result,
      gzip |-> x.gzip, listed |-> x.listed, id |-> x.id] :
        x \in {[gzip |-> TRUE,  listed |-> TRUE,  id |-> "ascii"],
              [gzip |-> TRUE,  listed |-> FALSE, id |-> "none"],
              [gzip |-> FALSE, listed |-> TRUE,  id |-> "ascii"],
              [gzip |-> FALSE, listed |-> FALSE, id |-> "none"],
              [gzip |-> FALSE, listed |-> TRUE,  id |-> "other"]}}

MCRequests ==
    Asked("read", "wrong", "ok") \cup Asked("read", "wrong", "raises")
    \cup Asked("health", "wrong", "ok")
    \cup Asked("admin", "wrong", "ok") \cup Asked("admin", "other", "ok")
    \cup UNION {Asked("admin", "right", result) : result \in {"ok", "conflict", "violation", "raises"}}
=============================================================================
