---------------------------- MODULE BatchProofs ----------------------------
(***************************************************************************)
(* Theorems about batch, for any number of items and any concurrency.      *)
(***************************************************************************)
EXTENDS Batch, FiniteSetTheorems, TLAPS

Task == {"none", "queued", "calling"} \cup Finished

LEMMA ArgumentType ==
  ASSUME arg \in Batches
  PROVE  /\ arg.items \in Seq(BOOLEAN) /\ arg.concurrency \in Nat
         /\ Items = 1..Len(arg.items) /\ Len(arg.items) \in Nat
BY BatchesAssumption DEF Argument, Items

LEMMA CallingFinite == ASSUME arg \in Batches PROVE IsFiniteSet(Calling)
<1>1. IsFiniteSet(Items)
  BY ArgumentType, FS_Interval
<1> QED BY <1>1, FS_Subset DEF Calling

-----------------------------------------------------------------------------
(* Types and slots: the semaphore stays within bounds because of what the  *)
(* calls hold of it, so the two go together.                               *)

TaskInv ==
  /\ batch = "gathering" => \A i \in Items : task[i] # "none"
  /\ SlotsConserved

LEMMA InitTaskInv == Init => TypeOK /\ TaskInv
<1> SUFFICES ASSUME Init PROVE TypeOK /\ TaskInv
  OBVIOUS
<1>1. permits \in 0..arg.concurrency
  BY ArgumentType DEF Init
<1> QED BY <1>1 DEF Init, TypeOK, TaskInv, SlotsConserved, Calling, Finished

LEMMA NextTaskInv == TypeOK /\ TaskInv /\ [Next]_vars => TypeOK' /\ TaskInv'
<1> SUFFICES ASSUME TypeOK, TaskInv, [Next]_vars PROVE TypeOK' /\ TaskInv'
  OBVIOUS
<1> USE DEF Items
<1>1. /\ arg \in Batches /\ arg' = arg /\ permits \in Nat
      /\ task \in [Items -> Task] /\ ended \in Seq(Items)
  BY DEF TypeOK, Next, Progress, Reject, Gather, StartCall, EndCall, Raise,
         Return, CancelBatch, CancelTooLate, vars, Task
<1>2. arg.concurrency \in Nat /\ IsFiniteSet(Calling) /\ Cardinality(Calling) \in Nat
  BY <1>1, ArgumentType, CallingFinite, FS_CardinalityType
<1>3. CASE Reject
  BY <1>3 DEF Reject, TypeOK, TaskInv, SlotsConserved, Calling
<1>4. CASE Gather
  <2>1. Calling' = {} /\ permits' = arg.concurrency
    BY <1>4 DEF Gather, Calling
  <2>2. Cardinality(Calling') = 0
    BY <2>1, FS_EmptySet
  <2> QED BY <1>1, <1>2, <1>4, <2>1, <2>2
             DEF Gather, TypeOK, TaskInv, SlotsConserved
<1>5. ASSUME NEW i \in Items, StartCall(i) PROVE TypeOK' /\ TaskInv'
  <2>1. Calling' = Calling \cup {i} /\ i \notin Calling
    BY <1>1, <1>5 DEF StartCall, Calling
  <2>2. Cardinality(Calling') = Cardinality(Calling) + 1
    BY <1>2, <2>1, FS_AddElement
  <2>3. permits' = permits - 1 /\ permits > 0 /\ batch' = batch /\ ended' = ended
    BY <1>5 DEF StartCall
  <2>4. batch \notin {"called", "rejected", "returned"}
    BY <1>5 DEF StartCall, TypeOK, TaskInv, Finished
  <2>5. permits' + Cardinality(Calling') = arg.concurrency /\ permits' \in 0..arg.concurrency
    BY <1>1, <1>2, <2>2, <2>3, <2>4 DEF TaskInv, SlotsConserved, TypeOK
  <2> QED BY <1>1, <1>5, <2>3, <2>4, <2>5
             DEF StartCall, TypeOK, TaskInv, SlotsConserved
<1>6. ASSUME NEW i \in Items, EndCall(i) PROVE TypeOK' /\ TaskInv'
  <2>1. PICK how \in Outcomes : task' = [task EXCEPT ![i] = how]
    BY <1>6 DEF EndCall
  <2>2. how \in {"ok", "failed"}
    BY OutcomesAssumption
  <2>3. Calling' = Calling \ {i} /\ i \in Calling
    BY <1>1, <1>6, <2>1, <2>2 DEF EndCall, Calling
  <2>4. Cardinality(Calling') = Cardinality(Calling) - 1
    BY <1>2, <2>3, FS_RemoveElement
  <2>5. permits' = permits + 1 /\ batch' = batch /\ ended' = Append(ended, i)
    BY <1>6 DEF EndCall
  <2>6. batch \notin {"called", "rejected", "returned"}
    BY <1>6 DEF EndCall, TypeOK, Finished
  <2>7. Cardinality(Calling') \in Nat
    BY <1>2, <2>3, FS_Subset, FS_CardinalityType
  <2>8. permits' + Cardinality(Calling') = arg.concurrency
    BY <1>1, <1>2, <2>4, <2>5, <2>6 DEF TaskInv, SlotsConserved
  <2>9. permits' \in 0..arg.concurrency
    BY <1>1, <1>2, <2>5, <2>7, <2>8
  <2>10. ended' \in Seq(Items)
    BY <1>1, <2>5
  <2>11. task' \in [Items -> Task]
    BY <1>1, <2>1, <2>2 DEF Task, Finished
  <2>12. batch = "gathering" => \A j \in Items : task'[j] # "none"
    BY <1>1, <2>1, <2>2 DEF TaskInv
  <2> QED BY <1>1, <2>5, <2>6, <2>8, <2>9, <2>10, <2>11, <2>12
             DEF TypeOK, TaskInv, SlotsConserved, Task
<1>7. CASE Raise
  BY <1>7 DEF Raise, TypeOK, TaskInv, SlotsConserved, Calling
<1>8. CASE Return
  <2>1. Calling = {} /\ Calling' = Calling
    BY <1>8 DEF Return, Calling, Finished
  <2> QED BY <1>8, <2>1 DEF Return, TypeOK, TaskInv, SlotsConserved
<1>9. CASE CancelBatch
  <2>1. Calling' = {}
    BY <1>1, <1>9 DEF CancelBatch, Calling, Finished
  <2>2. Cardinality(Calling') = 0
    BY <2>1, FS_EmptySet
  <2>3. permits' = arg.concurrency
    BY <1>9 DEF CancelBatch, TaskInv, SlotsConserved
  <2>4. task' \in [Items -> Task]
    BY <1>1, <1>9 DEF CancelBatch, Task, Finished
  <2>5. permits' + Cardinality(Calling') = arg.concurrency /\ permits' \in 0..arg.concurrency
    BY <1>2, <2>2, <2>3
  <2> QED BY <1>1, <1>9, <2>4, <2>5 DEF CancelBatch, TypeOK, TaskInv, SlotsConserved, Task
<1>10. CASE CancelTooLate
  BY <1>10 DEF CancelTooLate, TypeOK, TaskInv, SlotsConserved, Calling
<1>11. CASE UNCHANGED vars
  BY <1>11 DEF vars, TypeOK, TaskInv, SlotsConserved, Calling
<1> QED
  BY <1>3, <1>4, <1>5, <1>6, <1>7, <1>8, <1>9, <1>10, <1>11 DEF Next, Progress

(* A batch and its tasks are always in one of the states above; a list is  *)
(* returned only when no call is under way.                                *)
THEOREM TypeCorrect == Spec => []TypeOK
BY InitTaskInv, NextTaskInv, PTL DEF Spec

(* Never more than `concurrency` calls of a batch at once, and no slot is  *)
(* lost, also when calls fail, when the batch has raised or is cancelled.  *)
THEOREM SlotsAreConserved == Spec => []SlotsConserved
<1>1. TaskInv => SlotsConserved
  BY DEF TaskInv
<1> QED BY <1>1, InitTaskInv, NextTaskInv, PTL DEF Spec

-----------------------------------------------------------------------------
(* Outcomes: `ended` lists exactly the calls that returned or raised, and  *)
(* only a cancelled batch has cancelled calls.                             *)

EndedInv ==
  /\ \A k \in DOMAIN ended : task[ended[k]] \in {"ok", "failed"}
  /\ \A i \in Items : task[i] \in {"ok", "failed"} =>
       \E k \in DOMAIN ended : ended[k] = i
  /\ batch # "cancelled" => \A i \in Items : task[i] # "cancelled"

OutcomeInv == EndedInv /\ ResultIsEveryOutcome

LEMMA InitOutcomeInv == Init => OutcomeInv
BY DEF Init, OutcomeInv, EndedInv, ResultIsEveryOutcome

(* Steps that leave the calls alone, up to ones that had not ended.        *)
LEMMA EndedStutter ==
  ASSUME TypeOK, EndedInv, arg' = arg, ended' = ended,
         \A i \in Items : \/ task'[i] = task[i]
                          \/ /\ task[i] \notin {"ok", "failed"}
                             /\ task'[i] \notin {"ok", "failed"},
         batch' # "cancelled" =>
           batch # "cancelled" /\ \A i \in Items : task'[i] # "cancelled"
  PROVE  EndedInv'
<1>1. \A k \in DOMAIN ended : ended[k] \in Items
  BY DEF TypeOK
<1> QED BY <1>1 DEF EndedInv, Items

LEMMA NextOutcomeInv == TypeOK /\ OutcomeInv /\ [Next]_vars => OutcomeInv'
<1> SUFFICES ASSUME TypeOK, OutcomeInv, [Next]_vars PROVE OutcomeInv'
  OBVIOUS
<1>1. /\ task \in [Items -> Task] /\ ended \in Seq(Items)
      /\ EndedInv /\ ResultIsEveryOutcome
      /\ \A k \in DOMAIN ended : ended[k] \in Items /\ k \in Nat
  BY DEF TypeOK, Task, OutcomeInv
<1>2. CASE Reject
  <2>1. EndedInv'
    BY <1>1, <1>2, EndedStutter DEF Reject, EndedInv
  <2> QED BY <1>2, <2>1 DEF Reject, OutcomeInv, ResultIsEveryOutcome
<1>3. CASE Gather
  <2>1. \A i \in Items : task[i] = "none" /\ task'[i] = "queued"
    BY <1>3 DEF Gather, TypeOK
  <2>2. EndedInv'
    BY <1>1, <1>3, <2>1, EndedStutter DEF Gather, EndedInv
  <2> QED BY <1>3, <2>2 DEF Gather, OutcomeInv, ResultIsEveryOutcome
<1>4. ASSUME NEW i \in Items, StartCall(i) PROVE OutcomeInv'
  <2>1. /\ batch' = batch /\ arg' = arg /\ ended' = ended /\ result' = result
        /\ task[i] = "queued" /\ task' = [task EXCEPT ![i] = "calling"]
    BY <1>4 DEF StartCall
  <2>2. EndedInv'
    BY <1>1, <2>1, EndedStutter DEF EndedInv
  <2>3. batch # "returned"
    BY <2>1 DEF TypeOK, Finished
  <2>4. \A k \in DOMAIN ended : task'[ended[k]] = task[ended[k]]
    BY <1>1, <2>1 DEF EndedInv
  <2>5. \A k \in DOMAIN ended : 1..(k - 1) \subseteq DOMAIN ended
    BY <1>1
  <2>6. ResultIsEveryOutcome'
    BY <1>1, <2>1, <2>3, <2>4, <2>5 DEF ResultIsEveryOutcome
  <2> QED BY <2>2, <2>6 DEF OutcomeInv
<1>5. ASSUME NEW i \in Items, EndCall(i) PROVE OutcomeInv'
  <2>1. PICK how \in {"ok", "failed"} : task' = [task EXCEPT ![i] = how]
    BY <1>5, OutcomesAssumption DEF EndCall
  <2>2. /\ batch' = batch /\ arg' = arg /\ ended' = Append(ended, i)
        /\ result' = result /\ task[i] = "calling"
    BY <1>5 DEF EndCall
  <2>3. /\ Len(ended) \in Nat /\ DOMAIN ended = 1..Len(ended)
        /\ DOMAIN ended' = 1..(Len(ended) + 1)
        /\ \A k \in DOMAIN ended : ended'[k] = ended[k]
        /\ ended'[Len(ended) + 1] = i
    BY <1>1, <2>2
  <2>4. \A k \in DOMAIN ended : task'[ended[k]] = task[ended[k]]
    BY <1>1, <2>1, <2>2 DEF EndedInv
  <2>5. task'[i] = how /\ \A j \in Items : j # i => task'[j] = task[j]
    BY <1>1, <2>1
  <2>6. EndedInv'
    <3>1. \A k \in DOMAIN ended' : task'[ended'[k]] \in {"ok", "failed"}
      <4> TAKE k \in DOMAIN ended'
      <4>1. CASE k \in DOMAIN ended
        BY <2>3, <2>4, <4>1, <1>1 DEF EndedInv
      <4>2. CASE k = Len(ended) + 1
        BY <2>3, <2>5, <4>2
      <4> QED BY <2>3, <4>1, <4>2
    <3>2. \A j \in Items : task'[j] \in {"ok", "failed"} =>
            \E k \in DOMAIN ended' : ended'[k] = j
      <4> TAKE j \in Items
      <4>1. CASE j = i
        BY <2>3, <4>1
      <4>2. CASE j # i
        BY <1>1, <2>3, <2>5, <4>2 DEF EndedInv
      <4> QED BY <4>1, <4>2
    <3>3. batch # "cancelled" => \A j \in Items : task'[j] # "cancelled"
      BY <1>1, <2>5 DEF EndedInv
    <3> QED BY <2>2, <3>1, <3>2, <3>3 DEF EndedInv, Items
  <2>7. batch # "returned"
    BY <2>2 DEF TypeOK, Finished
  <2>8. \A k \in DOMAIN ended : 1..(k - 1) \subseteq DOMAIN ended
    BY <2>3
  <2>9. ResultIsEveryOutcome'
    <3> SUFFICES ASSUME batch = "raised"
                 PROVE  /\ ~arg.return_exceptions
                        /\ \E k \in DOMAIN ended' :
                             /\ result = <<ended'[k]>>
                             /\ task'[ended'[k]] = "failed"
                             /\ \A m \in 1..(k - 1) : task'[ended'[m]] = "ok"
      BY <2>2, <2>7 DEF ResultIsEveryOutcome
    <3>1. PICK k \in DOMAIN ended :
            /\ result = <<ended[k]>>
            /\ task[ended[k]] = "failed"
            /\ \A m \in 1..(k - 1) : task[ended[m]] = "ok"
      BY <1>1 DEF ResultIsEveryOutcome
    <3>2. result = <<ended'[k]>> /\ task'[ended'[k]] = "failed"
      BY <2>3, <2>4, <3>1
    <3>3. \A m \in 1..(k - 1) : task'[ended'[m]] = "ok"
      BY <2>3, <2>4, <2>8, <3>1
    <3>4. k \in DOMAIN ended'
      BY <2>3
    <3>5. ~arg.return_exceptions
      BY <1>1 DEF ResultIsEveryOutcome
    <3> QED BY <3>2, <3>3, <3>4, <3>5
  <2> QED BY <2>6, <2>9 DEF OutcomeInv
<1>6. CASE Raise
  <2>1. PICK k \in Failures : (\A m \in Failures : k <= m) /\ result' = <<ended[k]>>
    BY <1>6 DEF Raise
  <2>2. k \in DOMAIN ended /\ task[ended[k]] = "failed"
    BY <2>1 DEF Failures
  <2>3. \A m \in 1..(k - 1) : task[ended[m]] = "ok"
    <3> TAKE m \in 1..(k - 1)
    <3>1. m \in DOMAIN ended /\ ~(k <= m)
      BY <1>1, <2>2
    <3>2. m \notin Failures
      BY <2>1, <3>1
    <3> QED BY <1>1, <3>1, <3>2 DEF Failures, EndedInv
  <2>4. EndedInv'
    BY <1>1, <1>6, EndedStutter DEF Raise, EndedInv
  <2> QED BY <1>6, <2>1, <2>2, <2>3, <2>4 DEF Raise, OutcomeInv, ResultIsEveryOutcome
<1>7. CASE Return
  <2>1. \A i \in Items : task[i] \in {"ok", "failed"}
    BY <1>1, <1>7 DEF Return, EndedInv, Finished
  <2>2. arg.return_exceptions \/ \A i \in Items : task[i] = "ok"
    BY <1>1, <1>7, <2>1 DEF Return, EndedInv, Failures
  <2>3. EndedInv'
    BY <1>1, <1>7, EndedStutter DEF Return, EndedInv
  <2> QED BY <1>7, <2>1, <2>2, <2>3 DEF Return, OutcomeInv, ResultIsEveryOutcome, Items
<1>8. CASE CancelBatch
  <2>1. \A i \in Items :
          task'[i] = IF task[i] \in Finished THEN task[i] ELSE "cancelled"
    BY <1>8 DEF CancelBatch
  <2>2. EndedInv'
    BY <1>1, <1>8, <2>1, EndedStutter DEF CancelBatch, Finished
  <2> QED BY <1>8, <2>2 DEF CancelBatch, OutcomeInv, ResultIsEveryOutcome
<1>9. CASE CancelTooLate
  <2>1. EndedInv'
    BY <1>1, <1>9, EndedStutter DEF CancelTooLate
  <2> QED BY <1>9, <2>1 DEF CancelTooLate, OutcomeInv, ResultIsEveryOutcome
<1>10. CASE UNCHANGED vars
  BY <1>10 DEF vars, OutcomeInv, EndedInv, ResultIsEveryOutcome, Items
<1> QED
  BY <1>2, <1>3, <1>4, <1>5, <1>6, <1>7, <1>8, <1>9, <1>10 DEF Next, Progress

(* A list that is returned holds every item's own outcome in its place,    *)
(* and an exception that is raised is the first that occurred.             *)
THEOREM ResultsAreOutcomes == Spec => []ResultIsEveryOutcome
<1>1. OutcomeInv => ResultIsEveryOutcome
  BY DEF OutcomeInv
<1> QED
  BY <1>1, InitTaskInv, NextTaskInv, InitOutcomeInv, NextOutcomeInv, PTL DEF Spec

-----------------------------------------------------------------------------
(* A batch does what BoundedMap promises: each step is a step of the       *)
(* promise or does not show in it.                                         *)

Calls == [i \in Items |-> Shown(task[i])]

LEMMA ShownStates ==
  ASSUME NEW s \in Task
  PROVE  /\ Shown(s) = "waiting" <=> s \in {"none", "queued"}
         /\ Shown(s) = "running" <=> s = "calling"
         /\ s \in Finished => Shown(s) = s
         /\ Shown(s) \in Finished <=> s \in Finished
BY DEF Shown, Task, Finished

LEMMA MapSets ==
  ASSUME task \in [Items -> Task]
  PROVE  /\ Calls \in [Items -> {"waiting", "running"} \cup Finished]
         /\ Map!Running = Calling
         /\ Map!Failed = {i \in Items : task[i] = "failed"}
         /\ Map!Over = {i \in Items : task[i] \in Finished}
<1>1. /\ DOMAIN Calls = Items
      /\ \A i \in Items : /\ Calls[i] = Shown(task[i])
                          /\ Calls[i] \in {"waiting", "running"} \cup Finished
                          /\ Calls[i] = "running" <=> task[i] = "calling"
                          /\ Calls[i] = "failed" <=> task[i] = "failed"
                          /\ Calls[i] \in Finished <=> task[i] \in Finished
  BY DEF Calls, Shown, Task, Finished
<1>2. Map!Running = {i \in Items : Calls[i] = "running"}
  BY <1>1 DEF Map!Running, Calls
<1>3. Map!Failed = {i \in Items : Calls[i] = "failed"}
  BY <1>1 DEF Map!Failed, Calls
<1>4. Map!Over = {i \in Items : Calls[i] \in {"ok", "failed", "cancelled"}}
  BY <1>1 DEF Map!Over, Calls
<1>5. Calls \in [Items -> {"waiting", "running"} \cup Finished]
  BY <1>1 DEF Calls
<1> QED BY <1>1, <1>2, <1>3, <1>4, <1>5 DEF Calling, Finished

LEMMA MapInit == Init => Map!Init
<1> SUFFICES ASSUME Init PROVE Map!Init
  OBVIOUS
<1>1. arg.concurrency \in Nat /\ Items = 1..Len(arg.items) /\ Len(arg.items) \in Nat
  BY ArgumentType DEF Init
<1>2. Calls = [i \in Items |-> "waiting"]
  BY DEF Init, Calls, Shown
<1>3. Calls \in Seq({"waiting"})
  BY <1>1, <1>2
<1>4. Status = "open" /\ result = <<>>
  BY DEF Init, Status
<1> QED BY <1>1, <1>3, <1>4 DEF Map!Init, Calls

(* A step that does to the call of one item what the promise does.         *)
LEMMA OneCall ==
  ASSUME task \in [Items -> Task], NEW i \in Items, NEW s,
         arg' = arg, batch' = batch, result' = result,
         task' = [task EXCEPT ![i] = s]
  PROVE  Map!Become(i, Shown(s))
<1>1. Calls' = [Calls EXCEPT ![i] = Shown(s)]
  BY DEF Calls, Items
<1>2. Status' = Status
  BY DEF Status
<1> QED BY <1>1, <1>2 DEF Map!Become, Calls

LEMMA MapNext ==
  TypeOK /\ TaskInv /\ OutcomeInv /\ [Next]_vars => [Map!Next]_(Map!vars)
<1> SUFFICES ASSUME TypeOK, TaskInv, OutcomeInv, [Next]_vars
             PROVE  [Map!Next]_(Map!vars)
  OBVIOUS
<1>1. /\ task \in [Items -> Task] /\ ended \in Seq(Items)
      /\ SlotsConserved /\ EndedInv /\ arg \in Batches /\ permits \in Nat
      /\ batch \in {"called", "rejected", "gathering", "raised", "returned", "cancelled"}
  BY DEF TypeOK, Task, OutcomeInv, TaskInv
<1>2. /\ DOMAIN Calls = Items
      /\ \A i \in Items : Calls[i] = Shown(task[i])
      /\ Map!Running = Calling
      /\ Map!Failed = {i \in Items : task[i] = "failed"}
      /\ Map!Over = {i \in Items : task[i] \in Finished}
  BY <1>1, MapSets DEF Calls
<1>3. batch = "gathering" => Status = "open"
  BY DEF Status
<1>4. CASE Reject
  <2>1. /\ batch' = "rejected" /\ batch = "called"
        /\ arg' = arg /\ task' = task /\ result' = result
    BY <1>4 DEF Reject
  <2>2. Status = "open" /\ Status' = "rejected" /\ Calls' = Calls
    BY <2>1 DEF Status, Calls, Items
  <2>3. \A i \in Items : Calls[i] = "waiting"
    BY <1>1, <1>2, <2>1, ShownStates DEF TypeOK
  <2>4. Map!Refuse
    BY <1>2, <2>1, <2>2, <2>3 DEF Map!Refuse, Map!Close, Calls
  <2> QED BY <2>4 DEF Map!Next, Map!Progress
<1>5. CASE Gather
  <2>1. /\ batch' = "gathering" /\ batch = "called" /\ arg' = arg /\ result' = result
        /\ task' = [i \in Items |-> "queued"]
    BY <1>5 DEF Gather
  <2>2. Status' = Status
    BY <2>1 DEF Status
  <2>3. \A i \in Items : task[i] = "none"
    BY <2>1 DEF TypeOK
  <2>4. Calls' = Calls
    BY <2>1, <2>3 DEF Calls, Items, Shown
  <2> QED BY <2>1, <2>2, <2>4 DEF Map!vars, Calls
<1>6. ASSUME NEW i \in Items, StartCall(i) PROVE [Map!Next]_(Map!vars)
  <2>1. /\ task[i] = "queued" /\ permits > 0
        /\ task' = [task EXCEPT ![i] = "calling"]
        /\ arg' = arg /\ batch' = batch /\ result' = result
    BY <1>6 DEF StartCall
  <2>2. Map!Become(i, "running")
    <3>1. Map!Become(i, Shown("calling"))
      BY <1>1, <2>1, OneCall
    <3> QED BY <3>1 DEF Shown
  <2>3. batch \notin {"called", "rejected"}
    BY <2>1 DEF TypeOK
  <2>4. Status # "rejected"
    BY <1>1, <2>3 DEF Status
  <2>5. Map!Cardinality(Map!Running) < arg.concurrency
    <3>1. IsFiniteSet(Calling) /\ Cardinality(Calling) \in Nat /\ arg.concurrency \in Nat
      BY <1>1, CallingFinite, ArgumentType, FS_CardinalityType
    <3>2. permits + Cardinality(Calling) = arg.concurrency
      BY <1>1, <2>3 DEF SlotsConserved
    <3>3. Cardinality(Calling) < arg.concurrency
      BY <1>1, <2>1, <3>1, <3>2
    <3>4. Map!Cardinality(Calling) = Cardinality(Calling)
      BY DEF Map!Cardinality, Cardinality
    <3> QED BY <1>2, <3>3, <3>4
  <2>6. Calls[i] = "waiting"
    BY <1>1, <1>2, <2>1, ShownStates
  <2>7. Map!Start(i)
    BY <2>2, <2>4, <2>5, <2>6 DEF Map!Start, Calls
  <2> QED BY <1>2, <2>7 DEF Map!Next, Map!Progress, Calls
<1>7. ASSUME NEW i \in Items, EndCall(i) PROVE [Map!Next]_(Map!vars)
  <2>1. PICK how \in {"ok", "failed"} : task' = [task EXCEPT ![i] = how]
    BY <1>7, OutcomesAssumption DEF EndCall
  <2>2. task[i] = "calling" /\ arg' = arg /\ batch' = batch /\ result' = result
    BY <1>7 DEF EndCall
  <2>3. Map!Become(i, how)
    <3>1. Map!Become(i, Shown(how))
      BY <1>1, <2>1, <2>2, OneCall
    <3> QED BY <3>1 DEF Shown
  <2>4. Calls[i] = "running"
    BY <1>1, <1>2, <2>2, ShownStates
  <2>5. Map!Finish(i)
    BY <2>3, <2>4 DEF Map!Finish, Calls
  <2> QED BY <1>2, <2>5 DEF Map!Next, Map!Progress, Calls
<1>8. CASE Raise
  <2>1. PICK k \in Failures : result' = <<ended[k]>>
    BY <1>8 DEF Raise
  <2>2. ended[k] \in Items /\ task[ended[k]] = "failed"
    BY <1>1, <2>1 DEF Failures
  <2>3. batch = "gathering" /\ batch' = "raised" /\ arg' = arg /\ task' = task
    BY <1>8 DEF Raise
  <2>4. Status = "open" /\ Status' = "raised" /\ Calls' = Calls
    BY <2>3 DEF Status, Calls, Items
  <2>5. Map!Throw
    BY <1>2, <2>1, <2>2, <2>3, <2>4 DEF Map!Throw, Map!Close, Calls
  <2> QED BY <2>5 DEF Map!Next, Map!Progress
<1>9. CASE Return
  <2>1. /\ batch = "gathering" /\ batch' = "returned" /\ arg' = arg /\ task' = task
        /\ result' = [i \in Items |-> task[i]]
        /\ \A i \in Items : task[i] \in Finished
    BY <1>9 DEF Return
  <2>2. \A i \in Items : task[i] \in {"ok", "failed"}
    BY <1>1, <2>1 DEF EndedInv, Finished
  <2>3. \A i \in Items : Calls[i] = task[i]
    BY <1>1, <1>2, <2>1, ShownStates
  <2>4. result' = Calls
    BY <1>2, <2>1, <2>3 DEF Calls
  <2>5. Status = "open" /\ Status' = "returned" /\ Calls' = Calls
    BY <2>1 DEF Status, Calls, Items
  <2>6. Map!List
    BY <1>2, <2>1, <2>2, <2>3, <2>4, <2>5 DEF Map!List, Map!Close, Calls
  <2> QED BY <2>6 DEF Map!Next, Map!Progress
<1>10. CASE CancelBatch
  <2>1. /\ batch = "gathering" /\ batch' = "cancelled" /\ arg' = arg /\ result' = result
        /\ task' = [i \in Items |-> IF task[i] \in Finished THEN task[i] ELSE "cancelled"]
    BY <1>10 DEF CancelBatch
  <2>2. Status = "open" /\ Status' = "cancelled"
    BY <2>1 DEF Status
  <2>3. Calls' = [i \in DOMAIN Calls |-> IF i \in Map!Over THEN Calls[i] ELSE "cancelled"]
    <3>1. Calls' = [i \in Items |-> Shown(task'[i])]
      BY <2>1 DEF Calls, Items
    <3>2. ASSUME NEW i \in Items
          PROVE  Shown(task'[i]) = IF i \in Map!Over THEN Calls[i] ELSE "cancelled"
      <4>1. CASE task[i] \in Finished
        <5>1. task'[i] = task[i] /\ i \in Map!Over
          BY <1>2, <2>1, <4>1
        <5> QED BY <1>2, <5>1
      <4>2. CASE task[i] \notin Finished
        <5>1. task'[i] = "cancelled" /\ i \notin Map!Over
          BY <1>2, <2>1, <4>2
        <5> QED BY <5>1 DEF Shown
      <4> QED BY <4>1, <4>2
    <3> QED BY <1>2, <3>1, <3>2
  <2>4. Map!Cancel
    BY <2>1, <2>2, <2>3 DEF Map!Cancel, Map!Close, Calls
  <2> QED BY <2>4 DEF Map!Next
<1>11. CASE CancelTooLate
  <2>1. /\ batch = "gathering" /\ batch' = "cancelled" /\ arg' = arg /\ task' = task
        /\ result' = result /\ Failures # {}
    BY <1>11 DEF CancelTooLate
  <2>2. Status = "open" /\ Status' = "cancelled" /\ Calls' = Calls
    BY <2>1 DEF Status, Calls, Items
  <2>3. Map!Failed # {}
    <3>1. PICK k \in Failures : TRUE
      BY <2>1
    <3>2. ended[k] \in Items /\ task[ended[k]] = "failed"
      BY <1>1, <3>1 DEF Failures
    <3> QED BY <1>2, <3>2
  <2>4. Map!Cancel
    BY <2>1, <2>2, <2>3 DEF Map!Cancel, Map!Close, Calls
  <2> QED BY <2>4 DEF Map!Next
<1>12. CASE UNCHANGED vars
  BY <1>12 DEF vars, Map!vars, Status, Items
<1> QED
  BY <1>4, <1>5, <1>6, <1>7, <1>8, <1>9, <1>10, <1>11, <1>12 DEF Next, Progress

(* A batch implements the safety half of BoundedMap: however its calls end *)
(* and whenever it is cancelled, its caller sees a map that calls every    *)
(* item at most once, within the limit, and gives what the calls gave.     *)
THEOREM BatchIsBoundedMap == Spec => Map!Safety
BY InitTaskInv, NextTaskInv, InitOutcomeInv, NextOutcomeInv, MapInit, MapNext,
   PTL DEF Spec, Map!Safety

-----------------------------------------------------------------------------
(* Why a batch and its calls come to an end: what is left are the stages   *)
(* of batch(), then the calls that wait for a slot, then those that have   *)
(* one.  Each step uses up one of them and leaves those before it alone.   *)
(* That calls with a slot end, and others then get it, is the other half   *)
(* of EverythingEnds.                                                      *)

Queued == {i \in Items : task[i] = "queued"}

StagesLeft == IF batch = "called" THEN 2 ELSE IF batch = "gathering" THEN 1 ELSE 0

Measured ==
  StagesLeft \in Nat /\ Cardinality(Queued) \in Nat /\ Cardinality(Calling) \in Nat

ComesCloser ==
  \/ StagesLeft' < StagesLeft
  \/ /\ StagesLeft' = StagesLeft
     /\ \/ Cardinality(Queued)' < Cardinality(Queued)
        \/ Cardinality(Queued)' = Cardinality(Queued) /\ Cardinality(Calling)' < Cardinality(Calling)

LEMMA SetsCounted ==
  ASSUME TypeOK
  PROVE  /\ IsFiniteSet(Queued) /\ Cardinality(Queued) \in Nat
         /\ IsFiniteSet(Calling) /\ Cardinality(Calling) \in Nat
<1>1. IsFiniteSet(Items)
  BY ArgumentType, FS_Interval DEF TypeOK
<1>2. Queued \subseteq Items /\ Calling \subseteq Items
  BY DEF Queued, Calling
<1> QED BY <1>1, <1>2, FS_Subset, FS_CardinalityType

LEMMA StepComesCloser == TypeOK /\ [Next]_vars => [ComesCloser]_vars
<1> SUFFICES ASSUME TypeOK, Next PROVE ComesCloser
  BY DEF vars
<1>1. task \in [Items -> Task]
  BY DEF TypeOK, Task
<1>2. CASE Reject \/ Gather \/ Raise \/ Return \/ CancelBatch \/ CancelTooLate
  <2>1. \/ batch = "called" /\ batch' \in {"rejected", "gathering"}
        \/ batch = "gathering" /\ batch' \in {"raised", "returned", "cancelled"}
    BY <1>2 DEF Reject, Gather, Raise, Return, CancelBatch, CancelTooLate
  <2> QED BY <2>1 DEF ComesCloser, StagesLeft
<1>3. ASSUME NEW i \in Items, StartCall(i) PROVE ComesCloser
  <2>1. Queued' = Queued \ {i} /\ i \in Queued /\ batch' = batch
    BY <1>1, <1>3 DEF StartCall, Queued, Items
  <2>2. Cardinality(Queued') = Cardinality(Queued) - 1
    BY <2>1, SetsCounted, FS_RemoveElement
  <2> QED BY <2>1, <2>2, SetsCounted DEF ComesCloser, StagesLeft
<1>4. ASSUME NEW i \in Items, EndCall(i) PROVE ComesCloser
  <2>1. PICK how \in Outcomes : task' = [task EXCEPT ![i] = how]
    BY <1>4 DEF EndCall
  <2>2. how \in {"ok", "failed"} /\ task[i] = "calling" /\ arg' = arg /\ batch' = batch
    BY <1>4, OutcomesAssumption DEF EndCall
  <2>3. Queued' = Queued /\ Calling' = Calling \ {i} /\ i \in Calling
    BY <1>1, <2>1, <2>2 DEF Queued, Calling, Items
  <2>4. Cardinality(Calling') = Cardinality(Calling) - 1
    BY <2>3, SetsCounted, FS_RemoveElement
  <2> QED BY <2>2, <2>3, <2>4, SetsCounted DEF ComesCloser, StagesLeft
<1> QED BY <1>2, <1>3, <1>4 DEF Next, Progress

(* However calls end, and whenever the batch is cancelled, every step uses *)
(* up something there is only so much of.                                  *)
THEOREM EveryStepComesCloser == Spec => []Measured /\ [][ComesCloser]_vars
<1>1. TypeOK => Measured
  BY SetsCounted DEF Measured, StagesLeft
<1> QED BY <1>1, InitTaskInv, NextTaskInv, StepComesCloser, PTL DEF Spec

=============================================================================
