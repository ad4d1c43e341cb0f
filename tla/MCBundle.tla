------------------------------ MODULE MCBundle ------------------------------
EXTENDS Bundle, TLC

Symmetry == Permutations(CategoryIds) \cup Permutations(ArtworkIds) \cup Permutations(Slugs)
=============================================================================
