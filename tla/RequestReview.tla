---------------------------- MODULE RequestReview ----------------------------
(***************************************************************************)
(* The review of a request for material, as its two sides are told of it:  *)
(* the author edits it as long as it is not approved, an edit of a         *)
(* rejected one asks for another review, and a decision is about the text  *)
(* that is there.                                                          *)
(***************************************************************************)
CONSTANTS Requests, Texts

VARIABLES
  stage, \* "none", "PENDING", "APPROVED", "REJECTED" or "removed"
  text   \* what each request says

vars == <<stage, text>>

Blank == CHOOSE x \in Texts : TRUE

Init ==
  /\ stage = [r \in Requests |-> "none"]
  /\ text = [r \in Requests |-> Blank]

Move(r, from, to) == stage[r] \in from /\ stage' = [stage EXCEPT ![r] = to]
Say(r) == \E x \in Texts : text' = [text EXCEPT ![r] = x]

Submit(r) == Move(r, {"none"}, "PENDING") /\ Say(r)

Amend(r) == Move(r, {"PENDING", "REJECTED"}, "PENDING") /\ Say(r)

Decide(r) ==
  /\ \E to \in {"PENDING", "APPROVED", "REJECTED"} :
       Move(r, {"PENDING", "APPROVED", "REJECTED"}, to)
  /\ UNCHANGED text

Remove(r) ==
  /\ Move(r, {"PENDING", "APPROVED", "REJECTED"}, "removed")
  /\ text' = [text EXCEPT ![r] = Blank]

Next == \E r \in Requests : Submit(r) \/ Amend(r) \/ Decide(r) \/ Remove(r)

Spec == Init /\ [][Next]_vars
=============================================================================
