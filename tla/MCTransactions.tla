---------------------------- MODULE MCTransactions ----------------------------
(* Transactions on a root with both its subcategories. *)
EXTENDS Transactions, TLC

CONSTANTS root, static, live

Row(parent, kind, slug) ==
    [parent_id |-> parent, kind |-> kind, slug |-> slug,
     is_active |-> TRUE, artwork_count |-> 0]

MCTree == root   :> Row(NULL, NULL, root)
       @@ static :> Row(root, "static", static)
       @@ live   :> Row(root, "live", live)

(* seed.py:57-119 for one root and one medium. *)
MCSeedPlan == <<[insert |-> "category", category |-> root],
                [insert |-> "category", category |-> static],
                [insert |-> "medium",   category |-> static],
                [insert |-> "category", category |-> live]>>
=============================================================================
