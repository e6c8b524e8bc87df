---------------------------- MODULE BoundedCall ----------------------------
(***************************************************************************)
(* What one LLM.call() promises its caller, with nothing of how it is      *)
(* kept: the model is asked at most `limit` times, the call ends exactly   *)
(* once and stays ended, and an answer is given only after the model was   *)
(* asked (or when the caller allowed no request at all).                   *)
(***************************************************************************)
EXTENDS Naturals

VARIABLES
  limit,      \* requests the caller's budgets allow; never changes
  asked,      \* chat requests sent so far
  status      \* "working", then one of Ended for good

vars == <<limit, asked, status>>

Ended == {"answered", "failed", "cancelled"}

TypeOK ==
  /\ limit \in Nat
  /\ asked \in 0..limit
  /\ status \in {"working"} \cup Ended

Init ==
  /\ limit \in Nat
  /\ asked = 0
  /\ status = "working"

Ask ==
  /\ status = "working"
  /\ asked < limit
  /\ asked' = asked + 1
  /\ UNCHANGED <<limit, status>>

Answer ==
  /\ status = "working"
  /\ asked > 0 \/ limit = 0
  /\ status' = "answered"
  /\ UNCHANGED <<limit, asked>>

GiveUp ==
  /\ status = "working"
  /\ status' \in {"failed", "cancelled"}
  /\ UNCHANGED <<limit, asked>>

Next == Ask \/ Answer \/ GiveUp

Safety == Init /\ [][Next]_vars

Spec == Safety /\ WF_vars(Next)

=============================================================================
