----------------------------- MODULE MCMigrate -----------------------------
(* Three deploys: a release, one that adds a file to it, and one that has  *)
(* edited its second file.  Twins: the same release twice.                 *)
EXTENDS Migrate, TLC

CONSTANTS d1, d2, d3, a, b, c

MCReleases == d1 :> <<a, b>> @@ d2 :> <<a, b, c>> @@ d3 :> <<a, c>>

Twins == d1 :> <<a, b>> @@ d2 :> <<a, b>>
=============================================================================
