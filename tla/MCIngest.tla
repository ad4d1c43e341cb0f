------------------------------ MODULE MCIngest ------------------------------
(* Ingest on a root and its static subcategory, as scripts/seed.py makes   *)
(* them, and two uploads.  The live one differs in its kind only.          *)
EXTENDS Ingest, TLC

CONSTANTS root, static

SeededRow(parent, kind, slug) ==
    [parent_id |-> parent, kind |-> kind, slug |-> slug,
     is_active |-> TRUE, artwork_count |-> 0]

MCTargetWidth == "thumb" :> 1

MCSeeded == root   :> SeededRow(NULL, NULL, root)
         @@ static :> SeededRow(root, "static", static)
=============================================================================
