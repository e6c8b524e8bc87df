----------------------------- MODULE BoundedMap -----------------------------
(***************************************************************************)
(* What LLM.batch() promises its caller, with nothing of slots and queues: *)
(* every item is called at most once, at most `limit` of them at a time;   *)
(* a list holds the outcome of every item; an exception is one that a call *)
(* raised; and who cancels the batch cancels its calls, unless one of them *)
(* had failed by then.                                                     *)
(***************************************************************************)
EXTENDS Naturals, Sequences, FiniteSets

VARIABLES
  limit,      \* calls the caller allows at once; never changes
  calls,      \* what became of each item's call
  status,     \* "open", then one of Closed for good
  value       \* what the caller gets: the outcomes, or the item that failed

vars == <<limit, calls, status, value>>

Closed == {"rejected", "returned", "raised", "cancelled"}

Running == {i \in DOMAIN calls : calls[i] = "running"}
Failed == {i \in DOMAIN calls : calls[i] = "failed"}
Over == {i \in DOMAIN calls : calls[i] \in {"ok", "failed", "cancelled"}}

Init ==
  /\ limit \in Nat
  /\ calls \in Seq({"waiting"})
  /\ status = "open"
  /\ value = <<>>

Become(i, s) ==
  /\ calls' = [calls EXCEPT ![i] = s]
  /\ UNCHANGED <<limit, status, value>>

(* Also after the batch has raised: nobody stops the calls that wait.      *)
Start(i) ==
  /\ calls[i] = "waiting"
  /\ status # "rejected"
  /\ Cardinality(Running) < limit
  /\ Become(i, "running")

Finish(i) ==
  /\ calls[i] = "running"
  /\ Become(i, "ok") \/ Become(i, "failed")

Close(s, v) ==
  /\ status = "open"
  /\ status' = s
  /\ value' = v

(* Before anything was sent.                                               *)
Refuse ==
  /\ \A i \in DOMAIN calls : calls[i] = "waiting"
  /\ Close("rejected", value)
  /\ UNCHANGED <<limit, calls>>

List ==
  /\ \A i \in DOMAIN calls : calls[i] \in {"ok", "failed"}
  /\ Close("returned", calls)
  /\ UNCHANGED <<limit, calls>>

Throw ==
  /\ \E i \in Failed : Close("raised", <<i>>)
  /\ UNCHANGED <<limit, calls>>

Cancel ==
  /\ Close("cancelled", value)
  /\ \/ calls' = [i \in DOMAIN calls |-> IF i \in Over THEN calls[i] ELSE "cancelled"]
     \/ Failed # {} /\ UNCHANGED calls
  /\ UNCHANGED limit

Progress ==
  Refuse \/ List \/ Throw \/ \E i \in DOMAIN calls : Start(i) \/ Finish(i)

Next == Progress \/ Cancel

Safety == Init /\ [][Next]_vars

Spec == Safety /\ WF_vars(Progress)

=============================================================================
