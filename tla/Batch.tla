------------------------------- MODULE Batch -------------------------------
(***************************************************************************)
(* LocalLLM.batch (pool.py:246-361): one call per item, at most            *)
(* `concurrency` of them at a time, gathered into a list.                  *)
(*                                                                         *)
(* What asyncio gives is modelled as the code relies on it: a semaphore    *)
(* that serves waiters in order, gather() that hands on the first          *)
(* exception while its other tasks run on, and that cancels its tasks when *)
(* it is cancelled itself.                                                 *)
(***************************************************************************)
EXTENDS Naturals, Sequences, FiniteSets

CONSTANTS
  Batches,       \* the argument records batch() may be given, see Argument
  Outcomes       \* how a call may end: "ok" and/or "failed"

(* items: whether each item is well formed: a message list, or a dict with *)
(* a "messages" key.                                                       *)
Argument ==
  [items : Seq(BOOLEAN), concurrency : Nat, return_exceptions : BOOLEAN]

ASSUME BatchesAssumption == Batches \subseteq Argument
ASSUME OutcomesAssumption == Outcomes \subseteq {"ok", "failed"}

VARIABLES
  arg,        \* the arguments of this batch
  batch,      \* the coroutine: "called", "gathering", or how it ended
  task,       \* what became of the call of each item
  permits,    \* the semaphore's value
  ended,      \* the items whose tasks ended, in that order
  result      \* what was returned, or the item whose exception was raised

vars == <<arg, batch, task, permits, ended, result>>

Items == DOMAIN arg.items
Finished == {"ok", "failed", "cancelled"}
Calling == {i \in Items : task[i] = "calling"}

Init ==
  /\ arg \in Batches
  /\ batch = "called"
  /\ task = [i \in Items |-> "none"]
  /\ permits = 0
  /\ ended = <<>>
  /\ result = <<>>

-----------------------------------------------------------------------------
Valid == arg.concurrency >= 1 /\ \A i \in Items : arg.items[i]

(* ValueError or TypeError before a task exists.                           *)
Reject ==
  /\ batch = "called"
  /\ ~Valid
  /\ batch' = "rejected"
  /\ UNCHANGED <<arg, task, permits, ended, result>>

Gather ==
  /\ batch = "called"
  /\ Valid
  /\ batch' = "gathering"
  /\ task' = [i \in Items |-> "queued"]
  /\ permits' = arg.concurrency
  /\ UNCHANGED <<arg, ended, result>>

(* A task passes `async with semaphore`: in item order.                    *)
StartCall(i) ==
  /\ task[i] = "queued"
  /\ permits > 0
  /\ \A j \in Items : j < i => task[j] # "queued"
  /\ task' = [task EXCEPT ![i] = "calling"]
  /\ permits' = permits - 1
  /\ UNCHANGED <<arg, batch, ended, result>>

(* Mutants of EndCall: a call that raises keeps its slot; a slot is given  *)
(* back twice.                                                             *)
EndCallKeepsSlot(i) ==
  /\ task[i] = "calling"
  /\ \E how \in Outcomes :
       /\ task' = [task EXCEPT ![i] = how]
       /\ permits' = IF how = "ok" THEN permits + 1 ELSE permits
  /\ ended' = Append(ended, i)
  /\ UNCHANGED <<arg, batch, result>>

EndCallTwice(i) ==
  /\ task[i] = "calling"
  /\ \E how \in Outcomes : task' = [task EXCEPT ![i] = how]
  /\ permits' = permits + 2
  /\ ended' = Append(ended, i)
  /\ UNCHANGED <<arg, batch, result>>

(* The call returns or raises; either way the semaphore is left.           *)
EndCall(i) ==
  /\ task[i] = "calling"
  /\ \E how \in Outcomes : task' = [task EXCEPT ![i] = how]
  /\ permits' = permits + 1
  /\ ended' = Append(ended, i)
  /\ UNCHANGED <<arg, batch, result>>

(* Positions in ended.                                                     *)
Failures == {k \in DOMAIN ended : task[ended[k]] = "failed"}

(* Without return_exceptions the first task to fail ends the batch.  No    *)
(* other task is told.                                                     *)
Raise ==
  /\ batch = "gathering"
  /\ ~arg.return_exceptions
  /\ \E k \in Failures :
       /\ \A m \in Failures : k <= m
       /\ result' = <<ended[k]>>
  /\ batch' = "raised"
  /\ UNCHANGED <<arg, task, permits, ended>>

(* Mutant of Return: outcomes in the order the calls ended.                *)
ReturnAsCompleted ==
  /\ batch = "gathering"
  /\ \A i \in Items : task[i] \in Finished
  /\ Failures = {} \/ arg.return_exceptions
  /\ batch' = "returned"
  /\ result' = [k \in DOMAIN ended |-> task[ended[k]]]
  /\ UNCHANGED <<arg, task, permits, ended>>

Return ==
  /\ batch = "gathering"
  /\ \A i \in Items : task[i] \in Finished
  /\ Failures = {} \/ arg.return_exceptions
  /\ batch' = "returned"
  /\ result' = [i \in Items |-> task[i]]
  /\ UNCHANGED <<arg, task, permits, ended>>

(* Mutant of CancelBatch: nobody cancels the tasks.                        *)
CancelBatchOnly ==
  /\ batch = "gathering"
  /\ batch' = "cancelled"
  /\ UNCHANGED <<arg, task, permits, ended, result>>

(* The awaiting coroutine is cancelled: gather() cancels every task that   *)
(* has not ended; those inside the semaphore leave it.                     *)
CancelBatch ==
  /\ batch = "gathering"
  /\ batch' = "cancelled"
  /\ task' = [i \in Items |-> IF task[i] \in Finished THEN task[i] ELSE "cancelled"]
  /\ permits' = permits + Cardinality(Calling)
  /\ UNCHANGED <<arg, ended, result>>

(* It is cancelled after gather() took note of a failure and before it     *)
(* resumed: gather() is over, so its tasks are not told.                   *)
CancelTooLate ==
  /\ batch = "gathering"
  /\ ~arg.return_exceptions
  /\ Failures # {}
  /\ batch' = "cancelled"
  /\ UNCHANGED <<arg, task, permits, ended, result>>

Progress ==
  \/ Reject \/ Gather \/ Raise \/ Return
  \/ \E i \in Items : StartCall(i) \/ EndCall(i)

Next == Progress \/ CancelBatch \/ CancelTooLate

(* Calls end (GenLoop, Contract) and the event loop runs what is ready.    *)
Spec == Init /\ [][Next]_vars /\ WF_vars(Progress)

-----------------------------------------------------------------------------
(* Properties.                                                             *)

(* The state is that of one batch() and its tasks.                         *)
TypeOK ==
  /\ arg \in Batches
  /\ batch \in {"called", "rejected", "gathering", "raised", "returned", "cancelled"}
  /\ task \in [Items -> {"none", "queued", "calling"} \cup Finished]
  /\ permits \in 0..arg.concurrency
  /\ ended \in Seq(Items)
  /\ batch \in {"called", "rejected"} => \A i \in Items : task[i] = "none"
  /\ batch = "returned" => \A i \in Items : task[i] \in Finished

(* The server never sees more than `concurrency` calls of a batch, and no  *)
(* slot is lost, however the calls that held it ended, not even when the   *)
(* batch is cancelled or has raised while calls run on.                    *)
SlotsConserved ==
  batch \notin {"called", "rejected"} =>
    permits + Cardinality(Calling) = arg.concurrency

(* return_exceptions=True never loses a result: the batch ends only when   *)
(* every call has, and the list holds each item's own outcome in its       *)
(* place; without it a list is returned only if every call succeeded, and  *)
(* the exception raised is the first that occurred.                        *)
ResultIsEveryOutcome ==
  /\ batch = "returned" =>
       /\ result = [i \in Items |-> task[i]]
       /\ \A i \in Items : task[i] \in {"ok", "failed"}
       /\ arg.return_exceptions \/ \A i \in Items : task[i] = "ok"
  /\ batch = "raised" =>
       /\ ~arg.return_exceptions
       /\ \E k \in DOMAIN ended :
            /\ result = <<ended[k]>>
            /\ task[ended[k]] = "failed"
            /\ \A m \in 1..(k - 1) : task[ended[m]] = "ok"

(* The batch ends and leaves no call behind for ever, even after it raised.*)
EverythingEnds ==
  <>[](/\ batch \notin {"called", "gathering"}
       /\ \A i \in Items : task[i] \in Finished \cup {"none"})

(* To the caller slots and the order of things do not show: an item waits  *)
(* until its call starts, and a batch is open until it ends.               *)
Shown(s) ==
  CASE s \in {"none", "queued"} -> "waiting"
    [] s = "calling" -> "running"
    [] OTHER -> s

Status == IF batch \in {"called", "gathering"} THEN "open" ELSE batch

Map ==
  INSTANCE BoundedMap WITH limit <- arg.concurrency,
                           calls <- [i \in Items |-> Shown(task[i])],
                           status <- Status, value <- result

(* A batch keeps the promise of BoundedMap, its liveness included: it      *)
(* never has more calls out than it may, its list and its exception are    *)
(* what the calls gave, a cancellation reaches them, and it ends.          *)
Promise == Map!Spec

(* pool.py:275-276: "the first exception propagates and cancels remaining  *)
(* tasks": once the batch has raised no further call goes out.             *)
NoCallAfterRaise ==
  [][batch = "raised" =>
       \A i \in Items : task[i] # "calling" => task'[i] # "calling"]_vars

=============================================================================
