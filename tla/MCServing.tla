----------------------------- MODULE MCServing -----------------------------
(* Serving with two workers. *)
EXTENDS Serving, TLC

Symmetry == Permutations(Workers) \cup Permutations(Keys)
                \cup Permutations(Readers) \cup Permutations(Writers)
=============================================================================
