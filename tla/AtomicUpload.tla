---------------------------- MODULE AtomicUpload ----------------------------
(***************************************************************************)
(* What POST and DELETE /admin/artworks promise, without the how: an       *)
(* upload takes effect in one step or not at all.  It is answered with     *)
(* success in the very step in which the medium becomes public, all of its *)
(* objects included, and one answered with an error does not become public *)
(* any more.  Only if the database does not get to say that it committed   *)
(* can a medium be public before the answer, and the answer an error.      *)
(***************************************************************************)
EXTENDS FiniteSets

CONSTANT Uploads

VARIABLES answer, public

vars == <<answer, public>>

Init ==
    /\ answer = [u \in Uploads |-> "none"]
    /\ public = {}

(* The request passes its checks. *)
Accept(u) ==
    /\ answer[u] = "none"
    /\ answer' = [answer EXCEPT ![u] = "pending"]
    /\ UNCHANGED public

Publish(u) ==
    /\ answer[u] = "pending"
    /\ answer' = [answer EXCEPT ![u] = "created"]
    /\ public' = public \cup {u}

(* The connection breaks between the commit and its acknowledgement. *)
PublishUnheard(u) ==
    /\ answer[u] = "pending"
    /\ public' = public \cup {u}
    /\ UNCHANGED answer

(* One request fails, or all those of a worker that dies; what became      *)
(* public unheard is taken back, if that does not fail as well.            *)
Refuse(U) ==
    /\ \A u \in U : answer[u] = "pending"
    /\ answer' = [u \in Uploads |-> IF u \in U THEN "error" ELSE answer[u]]
    /\ \E taken \in SUBSET (U \cap public) : public' = public \ taken

(* A deleted medium, or those that go with a deleted category. *)
Withdraw(U) ==
    /\ public' = public \ U
    /\ UNCHANGED answer

Next ==
    \/ \E u \in Uploads : Accept(u) \/ Publish(u) \/ PublishUnheard(u)
    \/ \E U \in SUBSET Uploads : Refuse(U)
    \/ \E U \in SUBSET public : Withdraw(U)

Answered == \A u \in Uploads : (answer[u] = "pending") ~> (answer[u] # "pending")

Safety == Init /\ [][Next]_vars

Spec == Safety /\ Answered
=============================================================================
