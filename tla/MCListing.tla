----------------------------- MODULE MCListing -----------------------------
EXTENDS Listing, TLC

Symmetry == Permutations(Items)
=============================================================================
