------------------------------ MODULE MCWorker ------------------------------
(* Three requests compete for two connections. *)
EXTENDS Worker
=============================================================================
