----------------------------- MODULE MCTTLCache -----------------------------
(* TTLCache with one more key than fits. *)
EXTENDS TTLCache, TLC

Symmetry == Permutations(Keys) \cup Permutations(Values)
=============================================================================
