--------------------------- MODULE GenLoopProofs ---------------------------
(***************************************************************************)
(* Theorems about the generation loop, for every set of arguments, replies *)
(* and tools, and about its loop guard, for every threshold and every text *)
(* that repeats itself.                                                    *)
(***************************************************************************)
EXTENDS GenLoop, LoopText, SequenceTheorems, FiniteSetTheorems, WellFoundedInduction, TLAPS

-----------------------------------------------------------------------------
(* Normalize returns tool calls.  It is a recursive function, so the fact  *)
(* is an induction on its argument.                                        *)

(* Induction up to a bound, for a set rather than for a predicate.         *)
LEMMA BoundedInduction ==
  ASSUME NEW L \in Nat, NEW T,
         0 \in T,
         \A n \in 0..(L - 1) : n \in T => n + 1 \in T
  PROVE  \A n \in 0..L : n \in T
<1> DEFINE Bad  == {n \in 0..L : n \notin T}
           Less == {ss \in Nat \X Nat : ss[1] < ss[2]}
<1>1. SUFFICES ASSUME Bad # {} PROVE FALSE
  OBVIOUS
<1>2. IsWellFoundedOn(Less, Nat)
  BY NatLessThanWellFounded DEF OpToRel
<1>3. Bad \subseteq Nat
  OBVIOUS
<1>4. PICK x \in Bad : \A y \in Bad : ~(<<y, x>> \in Less)
  <2>1. \E x \in Bad : \A y \in Bad : ~(<<y, x>> \in Less)
    <3> HIDE DEF Bad, Less
    <3> QED BY <1>1, <1>2, <1>3, WFMin
  <2> QED BY <2>1
<1>5. x \in 1..L
  OBVIOUS
<1>6. x - 1 \in 0..(L - 1) /\ <<x - 1, x>> \in Less /\ (x - 1) + 1 = x
  BY <1>5
<1>7. x - 1 \in T
  BY <1>4, <1>5, <1>6
<1> QED BY <1>5, <1>6, <1>7

(* The body of Normalize's recursion, and what it means for g to satisfy   *)
(* its equations up to n.                                                  *)
Kept(calls, s, n) ==
  IF calls[n].name = NoName THEN s ELSE Append(s, Identified(calls[n], n - 1))

KeptUpTo(g, calls, n) ==
  g = [i \in 0..n |-> IF i = 0 THEN <<>> ELSE Kept(calls, g[i - 1], i)]

LEMMA KeptExists ==
  ASSUME NEW L \in Nat, NEW calls
  PROVE  \E g : KeptUpTo(g, calls, L)
<1> DEFINE T == {n \in 0..L : \E g : KeptUpTo(g, calls, n)}
<1>1. 0 \in T
  <2>1. KeptUpTo([i \in 0..0 |-> <<>>], calls, 0)
    BY DEF KeptUpTo
  <2> QED BY <2>1
<1>2. ASSUME NEW n \in 0..(L - 1), n \in T PROVE n + 1 \in T
  <2>1. PICK g : KeptUpTo(g, calls, n)
    BY <1>2
  <2> DEFINE h == [i \in 0..(n + 1) |->
                     IF i = n + 1 THEN Kept(calls, g[n], n + 1) ELSE g[i]]
  <2>2. \A i \in 0..n : h[i] = g[i]
    OBVIOUS
  <2>3. \A i \in 0..(n + 1) :
          h[i] = IF i = 0 THEN <<>> ELSE Kept(calls, h[i - 1], i)
    <3> TAKE i \in 0..(n + 1)
    <3>1. CASE i = n + 1
      <4>1. i # 0 /\ i - 1 = n /\ n \in 0..n
        BY <3>1
      <4>2. h[i] = Kept(calls, g[n], i)
        BY <3>1
      <4> QED BY <4>1, <4>2, <2>2
    <3>2. CASE i \in 0..n
      <4>1. h[i] = IF i = 0 THEN <<>> ELSE Kept(calls, g[i - 1], i)
        BY <3>2, <2>1, <2>2 DEF KeptUpTo
      <4>2. i # 0 => i - 1 \in 0..n
        BY <3>2
      <4> QED BY <4>1, <4>2, <2>2
    <3> QED BY <3>1, <3>2
  <2>4. KeptUpTo(h, calls, n + 1)
    <3> HIDE DEF h
    <3>1. h = [i \in 0..(n + 1) |-> h[i]]
      BY DEF h
    <3> QED BY <3>1, <2>3 DEF KeptUpTo
  <2> QED BY <2>4
<1>3. \A n \in 0..L : n \in T
  <2> HIDE DEF T
  <2> QED BY <1>1, <1>2, BoundedInduction
<1> QED BY <1>3

LEMMA KeptType ==
  ASSUME NEW L \in Nat, NEW calls, NEW g, KeptUpTo(g, calls, L), NEW S,
         \A i \in 1..L : calls[i].name # NoName => Identified(calls[i], i - 1) \in S
  PROVE  g[L] \in Seq(S)
<1> DEFINE T == {n \in 0..L : g[n] \in Seq(S)}
<1>1. 0 \in T
  BY DEF KeptUpTo
<1>2. ASSUME NEW n \in 0..(L - 1), n \in T PROVE n + 1 \in T
  <2>1. g[n + 1] = Kept(calls, g[n], n + 1)
    BY DEF KeptUpTo
  <2>2. g[n] \in Seq(S)
    BY <1>2
  <2>3. n + 1 \in 1..L /\ (n + 1) - 1 = n
    OBVIOUS
  <2>4. CASE calls[n + 1].name = NoName
    BY <2>1, <2>2, <2>3, <2>4 DEF Kept
  <2>5. CASE calls[n + 1].name # NoName
    <3>1. Identified(calls[n + 1], n) \in S
      BY <2>3, <2>5
    <3>2. Append(g[n], Identified(calls[n + 1], n)) \in Seq(S)
      BY <2>2, <3>1, AppendProperties
    <3>3. g[n + 1] = Append(g[n], Identified(calls[n + 1], n))
      BY <2>1, <2>3, <2>5, Zenon DEF Kept
    <3>4. g[n + 1] \in Seq(S)
      BY <3>2, <3>3, Zenon
    <3> QED BY <2>3, <3>4
  <2> QED BY <2>4, <2>5
<1>3. \A n \in 0..L : n \in T
  <2> HIDE DEF T
  <2> QED BY <1>1, <1>2, BoundedInduction
<1> QED BY <1>3

(* What normalize_tool_calls returns is named and identified, for raw      *)
(* calls of a reply and for calls already normalised.                      *)
LEMMA NormalizeType ==
  ASSUME NEW calls \in Seq(RawCall) \cup Seq(ToolCall)
  PROVE  Normalize(calls) \in Seq(ToolCall)
<1> DEFINE L == Len(calls)
           g == CHOOSE f : KeptUpTo(f, calls, L)
<1>1. L \in Nat
  OBVIOUS
<1>2. \A i \in 1..L : calls[i].name # NoName => Identified(calls[i], i - 1) \in ToolCall
  <2> TAKE i \in 1..L
  <2> HAVE calls[i].name # NoName
  <2>1. calls[i] \in RawCall \/ calls[i] \in ToolCall
    BY ElementOfSeq
  <2>2. calls[i].name \in Names /\ calls[i].id \in CallId \cup {NoId}
    BY <2>1 DEF RawCall, ToolCall, CallId
  <2>3. SlotId(i - 1) \in CallId
    BY <1>1 DEF SlotId, CallId
  <2> QED BY <2>2, <2>3 DEF Identified, ToolCall
<1>3. KeptUpTo(g, calls, L)
  BY <1>1, KeptExists
<1>4. g[L] \in Seq(ToolCall)
  <2> HIDE DEF g, L
  <2> QED BY <1>1, <1>2, <1>3, KeptType
<1>5. Normalize(calls) = g[L]
  BY DEF Normalize, KeptUpTo, Kept
<1> QED BY <1>4, <1>5

-----------------------------------------------------------------------------
(* Types.                                                                  *)

LEMMA InitTypeOK == Init => TypeOK
<1> SUFFICES ASSUME Init PROVE TypeOK
  OBVIOUS
<1>1. args \in ArgumentRecord
  BY ArgumentsAssumption DEF Init
<1>2. args.rounds \in Nat \cup {-1} /\ args.loops \in Nat /\ args.jsons \in Nat
  BY <1>1 DEF ArgumentRecord
<1>3. reply \in Reply
  BY DEF Init, Blank, Reply
<1>4. toolRound <= args.rounds \/ (toolRound = 0 /\ args.rounds = -1)
  BY <1>2 DEF Init
<1> QED BY <1>2, <1>3, <1>4 DEF Init, TypeOK, Pcs, Outcomes

(* The records a step reads have the types their names say.                *)
LEMMA ArgumentTypes ==
  ASSUME TypeOK
  PROVE  /\ args.rounds \in Nat \cup {-1} /\ args.rounds \in Int
         /\ args.loops \in Nat
         /\ args.jsons \in Nat
         /\ args.structured \in BOOLEAN
<1>1. args \in ArgumentRecord
  BY ArgumentsAssumption DEF TypeOK
<1> QED BY <1>1 DEF ArgumentRecord

LEMMA FixTypes ==
  LoopFix \in Message /\ JsonFix \in Message /\ Prompt \in Message
BY DEF LoopFix, JsonFix, Prompt, Message

LEMMA RoundTypes ==
  ASSUME msgs \in Seq(Message), toolCalls \in Seq(ToolCall),
         execs \in Seq(Execution)
  PROVE  /\ AssistantMessage(Normalize(toolCalls)) \in Message
         /\ ToolMessages(execs) \in Seq(Message)
         /\ Append(msgs, AssistantMessage(Normalize(toolCalls)))
              \o ToolMessages(execs) \in Seq(Message)
<1>1. Normalize(toolCalls) \in Seq(ToolCall)
  BY NormalizeType
<1>2. AssistantMessage(Normalize(toolCalls)) \in Message
  BY <1>1 DEF AssistantMessage, Message
<1>3. Append(msgs, AssistantMessage(Normalize(toolCalls))) \in Seq(Message)
  BY <1>2, AppendProperties
<1>4. ToolMessages(execs) \in Seq(Message)
  <2>1. \A i \in 1..Len(execs) : execs[i] \in Execution
    BY ElementOfSeq
  <2>2. \A i \in 1..Len(execs) : [role |-> "tool", exec |-> execs[i]] \in Message
    BY <2>1 DEF Message
  <2>3. Len(execs) \in Nat
    BY LenProperties
  <2> QED BY <2>2, <2>3 DEF ToolMessages
<1> QED BY <1>2, <1>3, <1>4, ConcatProperties

LEMMA NextTypeOK == TypeOK /\ [Next]_vars => TypeOK'
<1> SUFFICES ASSUME TypeOK, [Next]_vars PROVE TypeOK'
  OBVIOUS
<1> USE DEF budget, round, End, Pcs, Outcomes
<1>0. /\ args.rounds \in Nat \cup {-1} /\ args.rounds \in Int
      /\ args.loops \in Nat /\ args.jsons \in Nat
  BY ArgumentTypes
<1>1. CASE Setup
  <2>1. <<Prompt>> \in Seq(Message)
    BY FixTypes
  <2> QED BY <1>0, <1>1, <2>1 DEF Setup, TypeOK
<1>2. CASE SetupFails
  BY <1>2 DEF SetupFails, TypeOK
<1>3. CASE Send
  BY <1>0, <1>3 DEF Send, TypeOK
<1>4. CASE NoRequest
  BY <1>0, <1>4 DEF NoRequest, TypeOK, Blank, Reply
<1>5. CASE TransportFails
  BY <1>5 DEF TransportFails, TypeOK
<1>6. ASSUME NEW r \in Replies, FinalReply(r) PROVE TypeOK'
  BY <1>0, <1>6, RepliesAssumption DEF FinalReply, TypeOK
<1>7. ASSUME NEW r \in Replies, RoundsExhausted(r) PROVE TypeOK'
  BY <1>0, <1>7, RepliesAssumption DEF RoundsExhausted, TypeOK
<1>8. ASSUME NEW r \in Replies, ToolReply(r) PROVE TypeOK'
  <2>1. r \in Reply
    BY RepliesAssumption
  <2>2. r.calls \in Seq(RawCall)
    BY <2>1 DEF Reply
  <2>3. toolCalls' \in Seq(ToolCall)
    BY <1>8, <2>2, NormalizeType DEF ToolReply
  <2>4. queue' \in Seq(ToolCall)
    BY <1>8, <2>3, NormalizeType DEF ToolReply
  <2>5. execs' \in Seq(Execution)
    BY <1>8 DEF ToolReply
  <2> QED BY <1>0, <1>8, <2>1, <2>3, <2>4, <2>5 DEF ToolReply, TypeOK
<1>9. CASE RunTool
  <2>1. Head(queue) \in ToolCall /\ queue' \in Seq(ToolCall)
    BY <1>9, HeadTailProperties DEF RunTool, TypeOK
  <2>2. execs' \in Seq(Execution)
    <3>1. PICK result \in Results(Head(queue).name) :
            execs' = Append(execs, [id |-> Head(queue).id,
                                    name |-> Head(queue).name,
                                    result |-> result])
      BY <1>9 DEF RunTool
    <3>2. result \in {"value", "failed", "unknown"}
      BY DEF Results
    <3>3. [id |-> Head(queue).id, name |-> Head(queue).name,
           result |-> result] \in Execution
      BY <2>1, <3>2 DEF ToolCall, Execution
    <3> QED BY <3>1, <3>3, AppendProperties DEF TypeOK
  <2>3. ran' \in Nat
    BY <1>9 DEF RunTool, TypeOK
  <2> QED BY <1>0, <1>9, <2>1, <2>2, <2>3 DEF RunTool, TypeOK
<1>10. CASE FinishTools
  <2>1. msgs' \in Seq(Message)
    BY <1>10, RoundTypes DEF FinishTools, TypeOK
  <2>2. toolCalls' \in Seq(ToolCall) /\ execs' \in Seq(Execution)
    BY <1>10 DEF FinishTools
  <2>3. toolRound' \in Nat /\ toolRound' <= args.rounds
    BY <1>0, <1>10 DEF FinishTools, TypeOK
  <2> QED BY <1>0, <1>10, <2>1, <2>2, <2>3 DEF FinishTools, TypeOK
<1>11. CASE LoopRetry
  <2>1. msgs' \in Seq(Message)
    BY <1>11, FixTypes, AppendProperties DEF LoopRetry, Again, TypeOK
  <2>2. loopUsed' \in 0..args.loops
    BY <1>0, <1>11 DEF LoopRetry, TypeOK
  <2> QED BY <1>0, <1>11, <2>1, <2>2 DEF LoopRetry, Again, TypeOK
<1>12. CASE LoopFails
  BY <1>12 DEF LoopFails, TypeOK
<1>13. CASE JsonRetry
  <2>1. msgs' \in Seq(Message)
    BY <1>13, FixTypes, AppendProperties DEF JsonRetry, Again, TypeOK
  <2>2. jsonUsed' \in 0..args.jsons
    BY <1>0, <1>13 DEF JsonRetry, TypeOK
  <2> QED BY <1>0, <1>13, <2>1, <2>2 DEF JsonRetry, Again, TypeOK
<1>14. CASE JsonFails
  BY <1>14 DEF JsonFails, TypeOK
<1>15. CASE Return
  BY <1>15 DEF Return, TypeOK
<1>16. CASE Cancel
  <2>1. ran' \in Nat
    <3>1. ran' = ran \/ ran' = ran + 1
      BY <1>16, Zenon DEF Cancel
    <3>2. ran \in Nat
      BY DEF TypeOK
    <3> QED BY <3>1, <3>2
  <2>2. /\ pc' = "done" /\ outcome' = "cancelled"
        /\ UNCHANGED <<args, loopUsed, jsonUsed, toolCalls, queue, execs,
                      toolRound, msgs, reply, asked>>
    BY <1>16 DEF Cancel
  <2> QED BY <2>1, <2>2 DEF TypeOK
<1>17. CASE UNCHANGED vars
  BY <1>17 DEF vars, TypeOK
<1> QED
  BY <1>1, <1>2, <1>3, <1>4, <1>5, <1>6, <1>7, <1>8, <1>9, <1>10, <1>11,
     <1>12, <1>13, <1>14, <1>15, <1>16, <1>17 DEF Next, Step, Ended

(* Every reachable state is well typed and overdraws no budget: the        *)
(* invariant of the whole generation loop (pool.py:1456-1636).             *)
THEOREM TypeCorrect == Spec => []TypeOK
BY InitTypeOK, NextTypeOK, PTL DEF Spec, Safety

-----------------------------------------------------------------------------
(* Requests.                                                               *)

PerAttempt == args.rounds + 1
Attempts == loopUsed + jsonUsed   \* attempts before this one

(* RequestsBounded does not mention the attempt in progress.  The          *)
(* strengthening does: finished attempts have spent PerAttempt requests at *)
(* most, this one as many as its tool rounds, plus the one in flight.      *)
BudgetInv ==
  /\ TypeOK
  /\ pc \in {"setup", "ask"} => asked <= Attempts * PerAttempt + toolRound
  /\ pc \in {"wait", "tools"} => asked <= Attempts * PerAttempt + toolRound + 1
  /\ pc \in {"judge", "done"} => asked <= Attempts * PerAttempt + PerAttempt
  /\ pc \in {"wait", "tools", "judge"} => asked > 0 \/ args.rounds = -1

LEMMA OneMoreAttempt ==
  ASSUME NEW a \in Nat, NEW k \in Nat
  PROVE  (a + 1) * k = a * k + k /\ a * k \in Nat
OBVIOUS

LEMMA FewerAttempts ==
  ASSUME NEW a \in Nat, NEW b \in Nat, NEW k \in Nat, a <= b
  PROVE  a * k <= b * k
<1>1. b - a \in Nat /\ b = a + (b - a)
  OBVIOUS
<1>2. b * k = a * k + (b - a) * k
  OBVIOUS
<1>3. a * k \in Nat /\ (b - a) * k \in Nat
  BY <1>1
<1> QED BY <1>2, <1>3

(* The quantities of BudgetInv are numbers, and an iteration of the inner  *)
(* loop is one of PerAttempt.                                              *)
LEMMA BudgetTypes ==
  ASSUME TypeOK
  PROVE  /\ Attempts \in Nat /\ PerAttempt \in Nat
         /\ Attempts * PerAttempt \in Nat
         /\ asked \in Nat /\ toolRound \in Nat
         /\ toolRound <= PerAttempt
         /\ toolRound <= args.rounds => toolRound + 1 <= PerAttempt
<1>1. /\ args.rounds \in Nat \cup {-1} /\ args.rounds \in Int
      /\ args.loops \in Nat /\ args.jsons \in Nat
  BY ArgumentTypes
<1>2. /\ toolRound \in Nat /\ asked \in Nat
      /\ loopUsed \in 0..args.loops /\ jsonUsed \in 0..args.jsons
      /\ toolRound <= args.rounds \/ (toolRound = 0 /\ args.rounds = -1)
  BY DEF TypeOK
<1>3. loopUsed \in Nat /\ jsonUsed \in Nat
  BY <1>1, <1>2
<1>4. Attempts \in Nat /\ PerAttempt \in Nat
  BY <1>1, <1>3 DEF Attempts, PerAttempt
<1>5. Attempts * PerAttempt \in Nat
  BY <1>4, OneMoreAttempt
<1> QED BY <1>1, <1>2, <1>4, <1>5 DEF PerAttempt

(* What an attempt in progress may use up is within Limit.                 *)
LEMMA LimitCovers ==
  ASSUME TypeOK
  PROVE  /\ Limit \in Nat
         /\ Attempts * PerAttempt + PerAttempt <= Limit
<1>1. Attempts \in Nat /\ PerAttempt \in Nat
  BY BudgetTypes
<1>2. /\ args.loops \in Nat /\ args.jsons \in Nat /\ args.rounds \in Int
  BY ArgumentTypes
<1>3. loopUsed \in 0..args.loops /\ jsonUsed \in 0..args.jsons
  BY DEF TypeOK
<1> DEFINE All == 1 + args.loops + args.jsons
<1>4. All \in Nat /\ Attempts + 1 \in Nat /\ Attempts + 1 <= All
  BY <1>1, <1>2, <1>3 DEF Attempts
<1>5. (Attempts + 1) * PerAttempt <= All * PerAttempt
  <2> HIDE DEF All
  <2> QED BY <1>1, <1>4, FewerAttempts
<1>6. Limit = All * PerAttempt
  <2>1. Limit = PerAttempt * All
    BY DEF Limit, PerAttempt
  <2> HIDE DEF All
  <2> QED BY <2>1, <1>1, <1>4
<1>7. All * PerAttempt \in Nat
  <2> HIDE DEF All
  <2> QED BY <1>1, <1>4, OneMoreAttempt
<1>8. (Attempts + 1) * PerAttempt = Attempts * PerAttempt + PerAttempt
  BY <1>1, OneMoreAttempt
<1> QED BY <1>5, <1>6, <1>7, <1>8

LEMMA InitBudgetInv == Init => BudgetInv
<1> SUFFICES ASSUME Init PROVE BudgetInv
  OBVIOUS
<1>1. TypeOK
  BY InitTypeOK
<1>2. Attempts * PerAttempt \in Nat
  BY <1>1, BudgetTypes
<1>3. pc = "setup" /\ asked = 0 /\ toolRound = 0
  BY DEF Init
<1> QED BY <1>1, <1>2, <1>3 DEF BudgetInv

(* A retry starts an attempt at tool round 0 and charges one budget.       *)
LEMMA RetryBudget ==
  ASSUME BudgetInv, TypeOK', pc = "judge", pc' = "ask", toolRound' = 0,
         asked' = asked, Attempts' = Attempts + 1, PerAttempt' = PerAttempt
  PROVE  BudgetInv'
<1>1. /\ Attempts \in Nat /\ PerAttempt \in Nat
      /\ Attempts * PerAttempt \in Nat /\ asked \in Nat
  BY BudgetTypes DEF BudgetInv
<1>2. asked <= Attempts * PerAttempt + PerAttempt
  BY DEF BudgetInv
<1>3. Attempts' * PerAttempt' = Attempts * PerAttempt + PerAttempt
  BY <1>1, OneMoreAttempt
<1> QED BY <1>1, <1>2, <1>3 DEF BudgetInv

(* A step that leaves the budgets alone disturbs only pc, toolRound and    *)
(* asked.                                                                  *)
LEMMA SameAttempt ==
  ASSUME UNCHANGED budget
  PROVE  Attempts' = Attempts /\ PerAttempt' = PerAttempt
BY DEF budget, Attempts, PerAttempt

LEMMA NextBudgetInv == BudgetInv /\ [Next]_vars => BudgetInv'
<1> SUFFICES ASSUME BudgetInv, [Next]_vars PROVE BudgetInv'
  OBVIOUS
<1>1. TypeOK /\ TypeOK'
  BY NextTypeOK DEF BudgetInv
<1>2. /\ Attempts \in Nat /\ PerAttempt \in Nat
      /\ Attempts * PerAttempt \in Nat
      /\ asked \in Nat /\ toolRound \in Nat
      /\ toolRound <= PerAttempt
      /\ toolRound <= args.rounds => toolRound + 1 <= PerAttempt
  BY <1>1, BudgetTypes
<1> DEFINE Spent == Attempts * PerAttempt
<1>3. Spent \in Nat
  BY <1>2
<1>4. /\ pc \in {"setup", "ask"} => asked <= Spent + toolRound
      /\ pc \in {"wait", "tools"} => asked <= Spent + toolRound + 1
      /\ pc \in {"judge", "done"} => asked <= Spent + PerAttempt
      /\ pc \in {"wait", "tools", "judge"} => asked > 0 \/ args.rounds = -1
  BY DEF BudgetInv
<1>5. ASSUME UNCHANGED budget,
             /\ pc' \in {"setup", "ask"} => asked' <= Spent + toolRound'
             /\ pc' \in {"wait", "tools"} => asked' <= Spent + toolRound' + 1
             /\ pc' \in {"judge", "done"} => asked' <= Spent + PerAttempt
             /\ pc' \in {"wait", "tools", "judge"} => asked' > 0 \/ args.rounds = -1
      PROVE  BudgetInv'
  <2>1. Attempts' = Attempts /\ PerAttempt' = PerAttempt /\ args' = args
    BY <1>5, SameAttempt DEF budget
  <2> QED BY <1>1, <1>5, <2>1 DEF BudgetInv
<1>6. pc \in Pcs /\ (pc \in {"wait", "tools"} => toolRound <= args.rounds)
  <2>1. pc \in Pcs /\ args.rounds \in Int /\ toolRound \in Nat
    BY <1>1, ArgumentTypes DEF TypeOK
  <2>2. pc \in {"wait", "tools"} => toolRound <= args.rounds
    BY <1>1, <2>1 DEF TypeOK
  <2> QED BY <2>1, <2>2
<1> HIDE DEF Spent
<1>7. ASSUME UNCHANGED <<budget, toolRound, asked>>, pc' = "done"
      PROVE  BudgetInv'
  <2>1. asked <= Spent + PerAttempt
    BY <1>2, <1>3, <1>4, <1>6 DEF Pcs
  <2> QED BY <1>5, <1>7, <2>1
<1>8. CASE Setup
  <2>1. UNCHANGED <<budget, toolRound, asked>> /\ pc = "setup" /\ pc' = "ask"
    BY <1>8 DEF Setup
  <2> QED BY <1>4, <1>5, <2>1
<1>9. CASE SetupFails
  BY <1>7, <1>9 DEF SetupFails, End
<1>10. CASE Send
  <2>1. UNCHANGED <<budget, toolRound>> /\ pc = "ask" /\ pc' = "wait"
        /\ asked' = asked + 1
    BY <1>10 DEF Send
  <2> QED BY <1>2, <1>3, <1>4, <1>5, <2>1
<1>11. CASE NoRequest
  <2>1. UNCHANGED <<budget, toolRound, asked>> /\ pc = "ask" /\ pc' = "judge"
        /\ toolRound > args.rounds
    BY <1>11 DEF NoRequest
  <2>2. args.rounds = -1
    <3>1. toolRound <= args.rounds \/ args.rounds = -1
      BY <1>1 DEF TypeOK
    <3>2. args.rounds \in Int
      BY <1>1, ArgumentTypes
    <3> QED BY <1>2, <2>1, <3>1, <3>2
  <2> QED BY <1>2, <1>3, <1>4, <1>5, <2>1, <2>2
<1>12. CASE TransportFails
  BY <1>7, <1>12 DEF TransportFails, End
<1>13. ASSUME NEW r \in Replies, FinalReply(r) PROVE BudgetInv'
  <2>1. UNCHANGED <<budget, toolRound, asked>> /\ pc = "wait" /\ pc' = "judge"
    BY <1>13 DEF FinalReply
  <2>2. asked <= Spent + PerAttempt
    BY <1>2, <1>3, <1>4, <1>6, <2>1
  <2> QED BY <1>4, <1>5, <2>1, <2>2
<1>14. ASSUME NEW r \in Replies, RoundsExhausted(r) PROVE BudgetInv'
  BY <1>7, <1>14 DEF RoundsExhausted, End
<1>15. ASSUME NEW r \in Replies, ToolReply(r) PROVE BudgetInv'
  <2>1. UNCHANGED <<budget, toolRound, asked>> /\ pc = "wait" /\ pc' = "tools"
    BY <1>15 DEF ToolReply
  <2> QED BY <1>4, <1>5, <2>1
<1>16. CASE RunTool
  <2>1. UNCHANGED <<budget, toolRound, asked, pc>> /\ pc = "tools"
    BY <1>16 DEF RunTool
  <2> QED BY <1>4, <1>5, <2>1
<1>17. CASE FinishTools
  <2>1. UNCHANGED <<budget, asked>> /\ pc = "tools" /\ pc' = "ask"
        /\ toolRound' = toolRound + 1
    BY <1>17 DEF FinishTools
  <2> QED BY <1>2, <1>3, <1>4, <1>5, <2>1
<1>18. CASE LoopRetry
  <2>1. /\ pc = "judge" /\ pc' = "ask" /\ toolRound' = 0 /\ asked' = asked
        /\ args' = args /\ loopUsed' = loopUsed + 1 /\ jsonUsed' = jsonUsed
    BY <1>18 DEF LoopRetry, Again
  <2>2. loopUsed \in Int /\ jsonUsed \in Int
    BY <1>1, ArgumentTypes DEF TypeOK
  <2>3. Attempts' = Attempts + 1 /\ PerAttempt' = PerAttempt
    BY <2>1, <2>2 DEF Attempts, PerAttempt
  <2> QED BY <1>1, <2>1, <2>3, RetryBudget
<1>19. CASE LoopFails
  BY <1>7, <1>19 DEF LoopFails, End
<1>20. CASE JsonRetry
  <2>1. /\ pc = "judge" /\ pc' = "ask" /\ toolRound' = 0 /\ asked' = asked
        /\ args' = args /\ jsonUsed' = jsonUsed + 1 /\ loopUsed' = loopUsed
    BY <1>20 DEF JsonRetry, Again
  <2>2. loopUsed \in Int /\ jsonUsed \in Int
    BY <1>1, ArgumentTypes DEF TypeOK
  <2>3. Attempts' = Attempts + 1 /\ PerAttempt' = PerAttempt
    BY <2>1, <2>2 DEF Attempts, PerAttempt
  <2> QED BY <1>1, <2>1, <2>3, RetryBudget
<1>21. CASE JsonFails
  BY <1>7, <1>21 DEF JsonFails, End
<1>22. CASE Return
  BY <1>7, <1>22 DEF Return, End
<1>23. CASE Cancel
  BY <1>7, <1>23 DEF Cancel, End
<1>24. CASE UNCHANGED vars
  <2>1. UNCHANGED <<budget, toolRound, asked, pc>>
    BY <1>24 DEF vars, budget
  <2> QED BY <1>4, <1>5, <2>1
<1> QED
  BY <1>8, <1>9, <1>10, <1>11, <1>12, <1>13, <1>14, <1>15, <1>16, <1>17,
     <1>18, <1>19, <1>20, <1>21, <1>22, <1>23, <1>24 DEF Next, Step, Ended

LEMMA BudgetInvariant == Spec => []BudgetInv
BY InitBudgetInv, NextBudgetInv, PTL DEF Spec, Safety

LEMMA BudgetBounds == BudgetInv => RequestsBounded
<1> SUFFICES ASSUME BudgetInv PROVE RequestsBounded
  OBVIOUS
<1>1. /\ Attempts \in Nat /\ PerAttempt \in Nat
      /\ Attempts * PerAttempt \in Nat
      /\ asked \in Nat /\ toolRound \in Nat
      /\ toolRound <= PerAttempt
      /\ toolRound <= args.rounds => toolRound + 1 <= PerAttempt
  BY BudgetTypes DEF BudgetInv
<1>2. Limit \in Nat /\ Attempts * PerAttempt + PerAttempt <= Limit
  BY LimitCovers DEF BudgetInv
<1>3. pc \in Pcs /\ (pc \in {"wait", "tools"} => toolRound <= args.rounds)
  <2>1. pc \in Pcs /\ args.rounds \in Int
    BY ArgumentTypes DEF BudgetInv, TypeOK
  <2>2. pc \in {"wait", "tools"} => toolRound <= args.rounds
    BY <1>1, <2>1 DEF BudgetInv, TypeOK
  <2> QED BY <2>1, <2>2
<1>4. asked <= Attempts * PerAttempt + PerAttempt
  BY <1>1, <1>3 DEF BudgetInv, Pcs
<1> QED BY <1>1, <1>2, <1>4 DEF RequestsBounded

(* However the model behaves, a call asks it at most                       *)
(* (max_tool_rounds + 1) * (1 + max_loop_retries + max_json_fix_retries)   *)
(* times.                                                                  *)
THEOREM RequestsAreBounded == Spec => []RequestsBounded
BY BudgetInvariant, BudgetBounds, PTL

-----------------------------------------------------------------------------
(* Outcomes and history.                                                   *)

LEMMA NextOutcome == TypeOK /\ OutcomeJustified /\ [Next]_vars => OutcomeJustified'
<1> SUFFICES ASSUME TypeOK, OutcomeJustified, [Next]_vars PROVE OutcomeJustified'
  OBVIOUS
<1> USE DEF End
<1>1. pc = "done" <=> outcome # "none"
  BY DEF TypeOK
<1>2. ASSUME outcome' \in {"none", "setup", "transport", "cancelled"}
      PROVE  OutcomeJustified'
  BY <1>2 DEF OutcomeJustified
<1>3. ASSUME outcome' = outcome, pc # "done" PROVE OutcomeJustified'
  BY <1>1, <1>2, <1>3
<1>4. CASE Setup
  BY <1>3, <1>4 DEF Setup
<1>5. CASE SetupFails
  BY <1>2, <1>5 DEF SetupFails
<1>6. CASE Send
  BY <1>3, <1>6 DEF Send
<1>7. CASE NoRequest
  BY <1>3, <1>7 DEF NoRequest
<1>8. CASE TransportFails
  BY <1>2, <1>8 DEF TransportFails
<1>9. ASSUME NEW r \in Replies, FinalReply(r) PROVE OutcomeJustified'
  BY <1>3, <1>9 DEF FinalReply
<1>10. ASSUME NEW r \in Replies, RoundsExhausted(r) PROVE OutcomeJustified'
  <2>1. outcome' = "tool rounds" /\ reply'.calls # <<>>
    BY <1>10 DEF RoundsExhausted
  <2>2. toolRound' = args'.rounds
    <3>1. pc = "wait" /\ toolRound >= args.rounds /\ UNCHANGED <<args, toolRound>>
      BY <1>10 DEF RoundsExhausted, budget
    <3>2. args.rounds \in Int /\ toolRound \in Nat
      BY ArgumentTypes DEF TypeOK
    <3>3. args.rounds >= 0 /\ (toolRound <= args.rounds \/ args.rounds = -1)
      BY <3>1 DEF TypeOK
    <3> QED BY <3>1, <3>2, <3>3
  <2> QED BY <2>1, <2>2 DEF OutcomeJustified
<1>11. ASSUME NEW r \in Replies, ToolReply(r) PROVE OutcomeJustified'
  BY <1>3, <1>11 DEF ToolReply
<1>12. CASE RunTool
  BY <1>3, <1>12 DEF RunTool
<1>13. CASE FinishTools
  BY <1>3, <1>13 DEF FinishTools
<1>14. CASE LoopRetry
  BY <1>3, <1>14 DEF LoopRetry, Again
<1>15. CASE LoopFails
  <2>1. outcome' = "loop" /\ reply'.loops /\ UNCHANGED <<args, loopUsed>>
        /\ loopUsed >= args.loops
    BY <1>15 DEF LoopFails, budget
  <2>2. loopUsed \in 0..args.loops /\ args.loops \in Nat
    BY ArgumentTypes DEF TypeOK
  <2>3. loopUsed' = args'.loops
    BY <2>1, <2>2
  <2> QED BY <2>1, <2>3 DEF OutcomeJustified
<1>16. CASE JsonRetry
  BY <1>3, <1>16 DEF JsonRetry, Again
<1>17. CASE JsonFails
  <2>1. outcome' = "json" /\ Unparsable /\ UNCHANGED <<args, reply, jsonUsed>>
        /\ jsonUsed >= args.jsons
    BY <1>17 DEF JsonFails, budget
  <2>2. jsonUsed \in 0..args.jsons /\ args.jsons \in Nat
    BY ArgumentTypes DEF TypeOK
  <2>3. jsonUsed' = args'.jsons
    BY <2>1, <2>2
  <2> QED BY <2>1, <2>3 DEF OutcomeJustified, Unparsable
<1>18. CASE Return
  <2>1. /\ pc = "judge" /\ ~reply.loops /\ (args.structured => reply.parses)
        /\ outcome' = IF args.structured THEN "parsed" ELSE "text"
        /\ UNCHANGED <<args, reply>>
    BY <1>18 DEF Return, budget
  <2>2. reply.calls = <<>> /\ args.structured \in BOOLEAN
    BY <2>1, ArgumentTypes DEF TypeOK
  <2> QED BY <2>1, <2>2 DEF OutcomeJustified
<1>19. CASE Cancel
  BY <1>2, <1>19 DEF Cancel
<1>20. CASE UNCHANGED vars
  BY <1>20 DEF vars, OutcomeJustified
<1> QED
  BY <1>4, <1>5, <1>6, <1>7, <1>8, <1>9, <1>10, <1>11, <1>12, <1>13, <1>14,
     <1>15, <1>16, <1>17, <1>18, <1>19, <1>20 DEF Next, Step, Ended

(* A call returns only what the loop guard and the parser let through, and *)
(* blames a budget only when that budget is spent.                         *)
THEOREM OutcomesAreJustified == Spec => []OutcomeJustified
<1>1. Init => OutcomeJustified
  BY DEF Init, OutcomeJustified
<1> QED BY <1>1, NextOutcome, TypeCorrect, PTL DEF Spec, Safety

(* new is old with something after it.                                      *)
Prolongs(old, new) == Len(old) <= Len(new) /\ SubSeq(new, 1, Len(old)) = old

LEMMA ConcatKeeps ==
  ASSUME NEW S, NEW s \in Seq(S), NEW t \in Seq(S)
  PROVE  Prolongs(s, s \o t)
<1>1. Len(s \o t) = Len(s) + Len(t) /\ Len(s) \in Nat /\ Len(t) \in Nat
  BY ConcatProperties, LenProperties
<1>2. CASE s = <<>>
  BY <1>1, <1>2, SubSeqEmpty DEF Prolongs
<1>3. CASE s # <<>>
  <2>1. 1 \in 1..Len(s) /\ Len(s) \in 1..Len(s)
    BY <1>1, <1>3, EmptySeq
  <2>2. SubSeq(s \o t, 1, Len(s)) = SubSeq(s, 1, Len(s))
    BY <2>1, SubSeqOfConcat1
  <2> QED BY <1>1, <2>2, SubSeqFull DEF Prolongs
<1> QED BY <1>2, <1>3

LEMMA AppendKeeps ==
  ASSUME NEW S, NEW s \in Seq(S), NEW e \in S
  PROVE  Prolongs(s, Append(s, e))
<1>1. Append(s, e) = s \o <<e>> /\ <<e>> \in Seq(S)
  BY AppendIsConcat
<1> QED BY <1>1, ConcatKeeps

LEMMA NextHistory == TypeOK /\ [Next]_vars => Prolongs(msgs, msgs')
<1> SUFFICES ASSUME TypeOK, [Next]_vars PROVE Prolongs(msgs, msgs')
  OBVIOUS
<1>1. msgs \in Seq(Message)
  BY DEF TypeOK
<1>2. ASSUME msgs' = msgs PROVE Prolongs(msgs, msgs')
  <2>1. msgs \o <<>> = msgs /\ <<>> \in Seq(Message)
    BY <1>1, ConcatEmptySeq
  <2> QED BY <1>1, <1>2, <2>1, ConcatKeeps
<1>3. CASE Setup \/ FinishTools \/ LoopRetry \/ JsonRetry
  <2>1. CASE Setup
    <3>1. msgs = <<>> /\ msgs' = <<Prompt>>
      BY <2>1 DEF Setup, TypeOK
    <3>2. <<Prompt>> \in Seq(Message)
      BY FixTypes
    <3>3. msgs' = msgs \o <<Prompt>>
      BY <3>1, <3>2, ConcatEmptySeq
    <3> QED BY <1>1, <3>2, <3>3, ConcatKeeps
  <2>2. CASE FinishTools
    <3> DEFINE said == AssistantMessage(Normalize(toolCalls))
               heard == ToolMessages(execs)
    <3>1. toolCalls \in Seq(ToolCall) /\ execs \in Seq(Execution)
      BY DEF TypeOK
    <3>2. said \in Message /\ heard \in Seq(Message)
      BY <1>1, <3>1, RoundTypes
    <3>3. msgs' = Append(msgs, said) \o heard
      BY <2>2 DEF FinishTools
    <3>4. msgs' = msgs \o (<<said>> \o heard)
      <4> HIDE DEF said, heard
      <4>1. Append(msgs, said) = msgs \o <<said>> /\ <<said>> \in Seq(Message)
        BY <1>1, <3>2, AppendIsConcat
      <4> QED BY <1>1, <3>2, <3>3, <4>1, ConcatAssociative
    <3>5. <<said>> \o heard \in Seq(Message)
      <4> HIDE DEF said, heard
      <4> QED BY <3>2, ConcatProperties
    <3> QED BY <1>1, <3>4, <3>5, ConcatKeeps
  <2>3. CASE LoopRetry \/ JsonRetry
    <3>1. PICK fix \in {LoopFix, JsonFix} : msgs' = Append(msgs, fix)
      BY <2>3 DEF LoopRetry, JsonRetry, Again
    <3>2. fix \in Message
      BY FixTypes
    <3> QED BY <1>1, <3>1, <3>2, AppendKeeps
  <2> QED BY <1>3, <2>1, <2>2, <2>3
<1>4. CASE ~(Setup \/ FinishTools \/ LoopRetry \/ JsonRetry)
  BY <1>2, <1>4
  DEF Next, Step, Ended, SetupFails, Send, NoRequest, TransportFails, FinalReply,
      RoundsExhausted, ToolReply, RunTool, LoopFails, JsonFails, Return,
      Cancel, vars
<1> QED BY <1>3, <1>4

(* The conversation only ever grows at its end.                            *)
THEOREM HistoryIsKept == Spec => HistoryKept
<1>1. TypeOK /\ [Next]_vars =>
        [Len(msgs) <= Len(msgs') /\ SubSeq(msgs', 1, Len(msgs)) = msgs]_vars
  BY NextHistory DEF Prolongs
<1> QED BY <1>1, TypeCorrect, PTL DEF Spec, Safety, HistoryKept

-----------------------------------------------------------------------------
(* Counting in a sequence.                                                 *)

(* Where the elements of s that are in S stand, and how many there are.    *)
Where(s, S) == {i \in DOMAIN s : s[i] \in S}
HowMany(s, S) == Cardinality(Where(s, S))

LEMMA CountType ==
  ASSUME NEW T, NEW s \in Seq(T), NEW S
  PROVE  IsFiniteSet(Where(s, S)) /\ HowMany(s, S) \in Nat
<1>1. DOMAIN s = 1..Len(s) /\ Len(s) \in Nat
  BY LenProperties
<1>2. IsFiniteSet(1..Len(s))
  BY <1>1, FS_Interval
<1>3. Where(s, S) \in SUBSET (1..Len(s))
  BY <1>1 DEF Where
<1>4. IsFiniteSet(Where(s, S))
  BY <1>2, <1>3, FS_Subset
<1> QED BY <1>4, FS_CardinalityType DEF HowMany

LEMMA CountNone ==
  ASSUME NEW s, NEW S, \A i \in DOMAIN s : s[i] \notin S
  PROVE  HowMany(s, S) = 0
<1>1. Where(s, S) = {}
  BY DEF Where
<1> QED BY <1>1, FS_EmptySet DEF HowMany

LEMMA CountAppend ==
  ASSUME NEW T, NEW s \in Seq(T), NEW e \in T, NEW S
  PROVE  HowMany(Append(s, e), S) = HowMany(s, S) + (IF e \in S THEN 1 ELSE 0)
<1> DEFINE t == Append(s, e)
           n == Len(s) + 1
<1>1. /\ DOMAIN s = 1..Len(s) /\ Len(s) \in Nat
      /\ DOMAIN t = 1..n
      /\ \A i \in 1..Len(s) : t[i] = s[i]
      /\ t[n] = e
  <2>1. t \in Seq(T) /\ Len(t) = n /\ t[n] = e /\ \A i \in 1..Len(s) : t[i] = s[i]
    BY AppendProperties
  <2>2. DOMAIN t = 1..Len(t)
    BY <2>1, LenProperties
  <2> QED BY <2>1, <2>2, LenProperties
<1>2. Where(t, S) = IF e \in S THEN Where(s, S) \cup {n} ELSE Where(s, S)
  <2> HIDE DEF t
  <2> QED BY <1>1 DEF Where
<1>3. n \notin Where(s, S)
  BY <1>1 DEF Where
<1>4. IsFiniteSet(Where(s, S)) /\ HowMany(s, S) \in Nat
  BY CountType
<1>5. Cardinality(Where(s, S) \cup {n}) = Cardinality(Where(s, S)) + 1
  <2> HIDE DEF n
  <2> QED BY <1>3, <1>4, FS_AddElement
<1> QED BY <1>2, <1>4, <1>5 DEF HowMany

LEMMA CountConcat ==
  ASSUME NEW T, NEW s \in Seq(T), NEW t \in Seq(T), NEW S
  PROVE  HowMany(s \o t, S) = HowMany(s, S) + HowMany(t, S)
<1> DEFINE n == Len(s)
           W == Where(s, S)
           V == Where(t, S)
           U == {i + n : i \in V}
           F == [i \in V |-> i + n]
<1>1. /\ n \in Nat /\ Len(t) \in Nat
      /\ DOMAIN s = 1..n /\ DOMAIN t = 1..Len(t)
      /\ DOMAIN (s \o t) = 1..(n + Len(t))
  BY LenProperties, ConcatProperties
<1>2. \A i \in 1..(n + Len(t)) :
        (s \o t)[i] = IF i <= n THEN s[i] ELSE t[i - n]
  BY ConcatProperties
<1>3. W \subseteq 1..n /\ V \subseteq 1..Len(t)
  BY <1>1 DEF Where
<1>4. Where(s \o t, S) = W \cup U
  <2> DEFINE r == s \o t
  <2>1. DOMAIN r = 1..(n + Len(t))
        /\ \A i \in 1..(n + Len(t)) : r[i] = IF i <= n THEN s[i] ELSE t[i - n]
    BY <1>1, <1>2
  <2> HIDE DEF r, n
  <2>2. ASSUME NEW i \in Where(r, S) PROVE i \in W \cup U
    <3>1. i \in 1..(n + Len(t)) /\ r[i] \in S
      BY <2>1 DEF Where
    <3>2. CASE i <= n
      BY <1>1, <2>1, <3>1, <3>2 DEF Where
    <3>3. CASE i > n
      <4>1. i - n \in 1..Len(t) /\ t[i - n] \in S /\ (i - n) + n = i
        BY <1>1, <2>1, <3>1, <3>3
      <4>2. i - n \in V
        BY <1>1, <4>1 DEF Where
      <4> QED BY <4>1, <4>2
    <3> QED BY <1>1, <3>1, <3>2, <3>3
  <2>3. ASSUME NEW i \in W PROVE i \in Where(r, S)
    BY <1>1, <2>1 DEF Where
  <2>4. ASSUME NEW j \in V PROVE j + n \in Where(r, S)
    <3>1. j \in 1..Len(t) /\ t[j] \in S
      BY <1>1 DEF Where
    <3>2. j + n \in 1..(n + Len(t)) /\ ~(j + n <= n) /\ (j + n) - n = j
      BY <1>1, <3>1
    <3> QED BY <2>1, <3>1, <3>2 DEF Where
  <2>5. Where(r, S) = W \cup U
    BY <2>2, <2>3, <2>4
  <2> QED BY <2>5 DEF r
<1>5. W \cap U = {}
  <2>1. ASSUME NEW j \in V PROVE j + n \notin 1..n
    <3>1. j \in 1..Len(t)
      BY <1>3
    <3> HIDE DEF n, V
    <3> QED BY <1>1, <3>1
  <2> HIDE DEF n, W, V
  <2> QED BY <1>3, <2>1
<1>6. IsFiniteSet(W) /\ IsFiniteSet(V) /\ Cardinality(W) \in Nat /\ Cardinality(V) \in Nat
  BY CountType DEF HowMany
<1>7. IsFiniteSet(U) /\ Cardinality(U) = Cardinality(V)
  <2> HIDE DEF n, V
  <2>1. F \in Bijection(V, U)
    <3>1. F \in [V -> U]
      OBVIOUS
    <3>2. \A a, b \in V : F[a] = F[b] => a = b
      BY <1>1, <1>3
    <3>3. \A u \in U : \E a \in V : F[a] = u
      OBVIOUS
    <3> HIDE DEF F, U
    <3> QED BY <3>1, <3>2, <3>3 DEF Bijection, Injection, Surjection, IsInjective
  <2> HIDE DEF F, U
  <2>2. ExistsBijection(V, U)
    BY <2>1 DEF ExistsBijection
  <2> QED BY <1>6, <2>2, FS_Bijection
<1>8. Cardinality(W \cup U) = Cardinality(W) + Cardinality(U)
  <2> HIDE DEF W, U
  <2>1. Cardinality(W \cup U) = Cardinality(W) + Cardinality(U) - Cardinality(W \cap U)
    BY <1>6, <1>7, FS_Union
  <2>2. Cardinality(W \cap U) = 0
    BY <1>5, FS_EmptySet
  <2> QED BY <1>6, <1>7, <2>1, <2>2
<1> QED BY <1>4, <1>7, <1>8 DEF HowMany

-----------------------------------------------------------------------------
(* Counting messages.                                                      *)

With(role) == {m \in Message : m.role = role}

LEMMA CountIsHowMany ==
  ASSUME NEW s \in Seq(Message), NEW role
  PROVE  Cardinality({i \in DOMAIN s : s[i].role = role}) = HowMany(s, With(role))
<1>1. \A i \in DOMAIN s : s[i] \in Message
  BY LenProperties, ElementOfSeq
<1>2. {i \in DOMAIN s : s[i].role = role} = Where(s, With(role))
  BY <1>1 DEF Where, With
<1> QED BY <1>2 DEF HowMany

(* The messages and the executions that stand for an effect.               *)
Told == {m \in Message : m.role = "tool" /\ m.exec.result # "unknown"}
Known == {e \in Execution : e.result # "unknown"}

LEMMA EffectsAreHowMany ==
  ASSUME NEW s \in Seq(Message), NEW done \in Seq(Execution)
  PROVE  /\ Cardinality({i \in DOMAIN s :
                           s[i].role = "tool" /\ s[i].exec.result # "unknown"})
              = HowMany(s, Told)
         /\ Cardinality({i \in DOMAIN done : done[i].result # "unknown"})
              = HowMany(done, Known)
<1>1. \A i \in DOMAIN s : s[i] \in Message
  BY LenProperties, ElementOfSeq
<1>2. \A i \in DOMAIN done : done[i] \in Execution
  BY LenProperties, ElementOfSeq
<1>3. {i \in DOMAIN s : s[i].role = "tool" /\ s[i].exec.result # "unknown"}
        = Where(s, Told)
  BY <1>1 DEF Where, Told
<1>4. {i \in DOMAIN done : done[i].result # "unknown"} = Where(done, Known)
  BY <1>2 DEF Where, Known
<1> QED BY <1>3, <1>4 DEF HowMany

(* The tool messages of a round stand in the order of its executions.      *)
LEMMA ToolMessagesAre ==
  ASSUME NEW done \in Seq(Execution)
  PROVE  /\ ToolMessages(done) \in Seq(Message)
         /\ Len(ToolMessages(done)) = Len(done)
         /\ DOMAIN ToolMessages(done) = 1..Len(done)
         /\ \A i \in 1..Len(done) :
              ToolMessages(done)[i] = [role |-> "tool", exec |-> done[i]]
<1>1. \A i \in 1..Len(done) : done[i] \in Execution
  BY ElementOfSeq
<1>2. \A i \in 1..Len(done) : [role |-> "tool", exec |-> done[i]] \in Message
  BY <1>1 DEF Message
<1>3. Len(done) \in Nat
  BY LenProperties
<1>4. ToolMessages(done) \in Seq(Message)
  BY <1>2, <1>3 DEF ToolMessages
<1> QED BY <1>3, <1>4 DEF ToolMessages

LEMMA AssistantIs ==
  ASSUME NEW calls \in Seq(ToolCall)
  PROVE  /\ AssistantMessage(calls) \in Message
         /\ AssistantMessage(calls).role = "assistant"
         /\ AssistantMessage(calls).calls = calls
BY DEF AssistantMessage, Message

(* The three counts of EveryReplyAccounted.                                *)
Trips(s) == HowMany(s, With("assistant"))
LoopFixes(s) == HowMany(s, With("loop fix"))
JsonFixes(s) == HowMany(s, With("json fix"))

OneMore(m, n) == n = m + 1
Together(m, k, n) == n = m + k

LEMMA CountTypes ==
  ASSUME NEW s \in Seq(Message)
  PROVE  Trips(s) \in Nat /\ LoopFixes(s) \in Nat /\ JsonFixes(s) \in Nat
         /\ HowMany(s, Told) \in Nat
BY CountType DEF Trips, LoopFixes, JsonFixes

(* A tool round adds one assistant message, no correction, and the effects *)
(* of its executions.                                                      *)
LEMMA RoundCounts ==
  ASSUME NEW s \in Seq(Message), NEW calls \in Seq(ToolCall),
         NEW done \in Seq(Execution), NEW t,
         t = Append(s, AssistantMessage(calls)) \o ToolMessages(done)
  PROVE  /\ OneMore(Trips(s), Trips(t))
         /\ LoopFixes(t) = LoopFixes(s)
         /\ JsonFixes(t) = JsonFixes(s)
         /\ Together(HowMany(s, Told), HowMany(done, Known), HowMany(t, Told))
<1> DEFINE said == AssistantMessage(calls)
           heard == ToolMessages(done)
           r == Append(s, said)
<1>1. /\ said \in Message /\ said.role = "assistant"
      /\ heard \in Seq(Message) /\ DOMAIN heard = DOMAIN done
      /\ \A i \in DOMAIN heard : heard[i].role = "tool" /\ heard[i].exec = done[i]
      /\ \A i \in DOMAIN heard : heard[i] \in Message /\ done[i] \in Execution
  <2>1. \A i \in 1..Len(done) : done[i] \in Execution
    BY ElementOfSeq
  <2>2. \A i \in 1..Len(done) : heard[i] \in Message
    BY ToolMessagesAre, ElementOfSeq
  <2>3. DOMAIN heard = 1..Len(done) /\ DOMAIN done = 1..Len(done)
    BY ToolMessagesAre, LenProperties
  <2>4. \A i \in 1..Len(done) : heard[i].role = "tool" /\ heard[i].exec = done[i]
    <3> TAKE i \in 1..Len(done)
    <3>1. heard[i] = [role |-> "tool", exec |-> done[i]]
      BY ToolMessagesAre
    <3> HIDE DEF heard
    <3> QED BY <3>1
  <2>5. said \in Message /\ said.role = "assistant"
    BY AssistantIs
  <2>6. heard \in Seq(Message)
    BY ToolMessagesAre
  <2> HIDE DEF said, heard
  <2> QED BY <2>1, <2>2, <2>3, <2>4, <2>5, <2>6
<1> HIDE DEF said, heard
<1>2. r \in Seq(Message)
  BY <1>1, AppendProperties
<1>3. ASSUME NEW role, role # "tool"
      PROVE  /\ role = "assistant" => HowMany(t, With(role)) = HowMany(s, With(role)) + 1
             /\ role # "assistant" => HowMany(t, With(role)) = HowMany(s, With(role))
  <2>1. HowMany(heard, With(role)) = 0
    BY <1>1, <1>3, CountNone DEF With
  <2>2. HowMany(r, With(role)) = HowMany(s, With(role))
                                   + (IF said \in With(role) THEN 1 ELSE 0)
    BY <1>1, CountAppend
  <2>3. HowMany(t, With(role)) = HowMany(r, With(role)) + HowMany(heard, With(role))
    BY <1>1, <1>2, CountConcat DEF said, heard
  <2>4. said \in With(role) <=> role = "assistant"
    BY <1>1 DEF With
  <2>5. HowMany(s, With(role)) \in Nat
    BY CountType
  <2> QED BY <2>1, <2>2, <2>3, <2>4, <2>5
<1>4. HowMany(t, Told) = HowMany(s, Told) + HowMany(done, Known)
  <2>1. Where(heard, Told) = Where(done, Known)
    BY <1>1 DEF Where, Told, Known
  <2>2. said \notin Told
    BY <1>1 DEF Told
  <2>3. HowMany(r, Told) = HowMany(s, Told) + (IF said \in Told THEN 1 ELSE 0)
    BY <1>1, CountAppend
  <2>4. HowMany(t, Told) = HowMany(r, Told) + HowMany(heard, Told)
    BY <1>1, <1>2, CountConcat DEF said, heard
  <2>5. HowMany(s, Told) \in Nat
    BY CountType
  <2> QED BY <2>1, <2>2, <2>3, <2>4, <2>5 DEF HowMany
<1>5. Trips(t) = Trips(s) + 1
  BY <1>3 DEF Trips
<1>6. LoopFixes(t) = LoopFixes(s)
  <2>1. "loop fix" # "tool" /\ "loop fix" # "assistant"
    OBVIOUS
  <2>2. HowMany(t, With("loop fix")) = HowMany(s, With("loop fix"))
    BY <1>3, <2>1
  <2> QED BY <2>2 DEF LoopFixes
<1>7. JsonFixes(t) = JsonFixes(s)
  <2>1. "json fix" # "tool" /\ "json fix" # "assistant"
    OBVIOUS
  <2>2. HowMany(t, With("json fix")) = HowMany(s, With("json fix"))
    BY <1>3, <2>1
  <2> QED BY <2>2 DEF JsonFixes
<1> QED BY <1>4, <1>5, <1>6, <1>7 DEF OneMore, Together

(* A correction counts under its own role only.                            *)
LEMMA FixCounts ==
  ASSUME NEW s \in Seq(Message), NEW fix \in {LoopFix, JsonFix, Prompt}, NEW t,
         t = Append(s, fix)
  PROVE  /\ Trips(t) = Trips(s)
         /\ LoopFixes(t) = LoopFixes(s) + (IF fix = LoopFix THEN 1 ELSE 0)
         /\ JsonFixes(t) = JsonFixes(s) + (IF fix = JsonFix THEN 1 ELSE 0)
         /\ HowMany(t, Told) = HowMany(s, Told)
<1>1. /\ fix \in Message
      /\ fix.role # "assistant" /\ fix.role # "tool"
      /\ fix.role = "loop fix" <=> fix = LoopFix
      /\ fix.role = "json fix" <=> fix = JsonFix
  <2>1. /\ LoopFix.role = "loop fix"
        /\ JsonFix.role = "json fix"
        /\ Prompt.role = "prompt"
    BY DEF LoopFix, JsonFix, Prompt
  <2> QED BY <2>1, FixTypes
<1>2. /\ fix \notin Told /\ fix \notin With("assistant")
      /\ fix \in With("loop fix") <=> fix = LoopFix
      /\ fix \in With("json fix") <=> fix = JsonFix
  BY <1>1 DEF Told, With
<1>3. ASSUME NEW S
      PROVE  HowMany(t, S) = HowMany(s, S) + (IF fix \in S THEN 1 ELSE 0)
             /\ HowMany(s, S) \in Nat
  BY <1>1, CountAppend, CountType
<1>4. Trips(t) = Trips(s)
  <2> DEFINE S == With("assistant")
  <2>1. fix \notin S
    BY <1>2
  <2>2. HowMany(t, S) = HowMany(s, S)
    <3> HIDE DEF S
    <3> QED BY <1>3, <2>1
  <2> QED BY <2>2 DEF Trips
<1>5. LoopFixes(t) = LoopFixes(s) + (IF fix = LoopFix THEN 1 ELSE 0)
  <2> DEFINE S == With("loop fix")
  <2>1. fix \in S <=> fix = LoopFix
    BY <1>2
  <2>2. HowMany(t, S) = HowMany(s, S) + (IF fix = LoopFix THEN 1 ELSE 0)
    <3> HIDE DEF S
    <3> QED BY <1>3, <2>1
  <2> QED BY <2>2 DEF LoopFixes
<1>6. JsonFixes(t) = JsonFixes(s) + (IF fix = JsonFix THEN 1 ELSE 0)
  <2> DEFINE S == With("json fix")
  <2>1. fix \in S <=> fix = JsonFix
    BY <1>2
  <2>2. HowMany(t, S) = HowMany(s, S) + (IF fix = JsonFix THEN 1 ELSE 0)
    <3> HIDE DEF S
    <3> QED BY <1>3, <2>1
  <2> QED BY <2>2 DEF JsonFixes
<1>7. HowMany(t, Told) = HowMany(s, Told)
  <2> DEFINE S == Told
  <2>1. fix \notin S
    BY <1>2
  <2> HIDE DEF S
  <2>2. HowMany(t, S) = HowMany(s, S)
    BY <1>3, <2>1
  <2> QED BY <2>2 DEF S
<1> QED BY <1>4, <1>5, <1>6, <1>7

-----------------------------------------------------------------------------
(* Every reply is accounted for.                                           *)

InHand == IF pc \in {"wait", "tools", "judge"} THEN 1 ELSE 0

(* EveryReplyAccounted with the counts of the lemmas above.                *)
Accounted ==
  /\ LoopFixes(msgs) = loopUsed
  /\ JsonFixes(msgs) = jsonUsed
  /\ args.rounds >= 0 /\ pc # "done" =>
       asked = Trips(msgs) + loopUsed + jsonUsed + InHand

LEMMA AccountedIs == TypeOK => (EveryReplyAccounted <=> Accounted)
<1> SUFFICES ASSUME TypeOK PROVE EveryReplyAccounted <=> Accounted
  OBVIOUS
<1>1. ASSUME NEW role PROVE Count(role) = HowMany(msgs, With(role))
  BY CountIsHowMany DEF TypeOK, Count
<1>2. /\ Count("assistant") = Trips(msgs)
      /\ Count("loop fix") = LoopFixes(msgs)
      /\ Count("json fix") = JsonFixes(msgs)
  BY <1>1 DEF Trips, LoopFixes, JsonFixes
<1> QED BY <1>2 DEF EveryReplyAccounted, Accounted, InHand

LEMMA NextAccounted == TypeOK /\ Accounted /\ [Next]_vars => Accounted'
<1> SUFFICES ASSUME TypeOK, Accounted, [Next]_vars PROVE Accounted'
  OBVIOUS
<1> USE DEF End, budget, round
<1>1. /\ args.rounds \in Int
      /\ loopUsed \in Nat /\ jsonUsed \in Nat /\ asked \in Nat
      /\ msgs \in Seq(Message)
  BY ArgumentTypes DEF TypeOK
<1>2. Trips(msgs) \in Nat /\ LoopFixes(msgs) \in Nat /\ JsonFixes(msgs) \in Nat
  BY <1>1, CountTypes
<1>3. ASSUME UNCHANGED <<args, msgs, loopUsed, jsonUsed>>,
             \/ pc' = "done" \/ args.rounds < 0
             \/ asked' = asked /\ pc # "done" /\ InHand' = InHand
             \/ asked' = asked + 1 /\ pc # "done" /\ InHand = 0 /\ InHand' = 1
      PROVE  Accounted'
  <2> SUFFICES ASSUME args.rounds >= 0, pc' # "done"
               PROVE  asked' = Trips(msgs) + loopUsed + jsonUsed + InHand'
    BY <1>3 DEF Accounted
  <2>1. pc # "done"
    BY <1>1, <1>3
  <2>2. asked = Trips(msgs) + loopUsed + jsonUsed + InHand
    BY <2>1 DEF Accounted
  <2>3. CASE asked' = asked /\ InHand' = InHand
    BY <2>2, <2>3
  <2>4. CASE asked' = asked + 1 /\ InHand = 0 /\ InHand' = 1
    BY <1>1, <1>2, <2>2, <2>4
  <2> QED BY <1>1, <1>3, <2>3, <2>4
<1>4. LoopFix # JsonFix /\ Prompt # LoopFix /\ Prompt # JsonFix
  BY DEF LoopFix, JsonFix, Prompt
<1>6. CASE Setup
  <2>1. /\ UNCHANGED <<args, loopUsed, jsonUsed, asked>>
        /\ pc = "setup" /\ pc' = "ask" /\ msgs' = <<Prompt>> /\ msgs = <<>>
    BY <1>6 DEF Setup, TypeOK
  <2>2. msgs' = Append(msgs, Prompt)
    BY <2>1
  <2>3. /\ Trips(msgs') = Trips(msgs)
        /\ LoopFixes(msgs') = LoopFixes(msgs)
        /\ JsonFixes(msgs') = JsonFixes(msgs)
    <3>1. Prompt \in {LoopFix, JsonFix, Prompt}
      OBVIOUS
    <3>2. /\ Trips(msgs') = Trips(msgs)
          /\ LoopFixes(msgs')
               = LoopFixes(msgs) + (IF Prompt = LoopFix THEN 1 ELSE 0)
          /\ JsonFixes(msgs')
               = JsonFixes(msgs) + (IF Prompt = JsonFix THEN 1 ELSE 0)
      BY <1>1, <2>2, <3>1, FixCounts
    <3> QED BY <1>2, <1>4, <3>2
  <2> QED BY <2>1, <2>3 DEF Accounted, InHand
<1>7. CASE SetupFails
  BY <1>3, <1>7 DEF SetupFails
<1>8. CASE Send
  BY <1>3, <1>8 DEF Send, InHand
<1>9. CASE NoRequest
  <2>1. /\ UNCHANGED <<args, msgs, loopUsed, jsonUsed>> /\ toolRound > args.rounds
    BY <1>9 DEF NoRequest
  <2>2. args.rounds < 0
    BY <1>1, <2>1 DEF TypeOK
  <2> QED BY <1>3, <2>1, <2>2
<1>10. CASE TransportFails
  BY <1>3, <1>10 DEF TransportFails
<1>11. ASSUME NEW r \in Replies, FinalReply(r) PROVE Accounted'
  BY <1>3, <1>11 DEF FinalReply, InHand
<1>12. ASSUME NEW r \in Replies, RoundsExhausted(r) PROVE Accounted'
  BY <1>3, <1>12 DEF RoundsExhausted
<1>13. ASSUME NEW r \in Replies, ToolReply(r) PROVE Accounted'
  BY <1>3, <1>13 DEF ToolReply, InHand
<1>14. CASE RunTool
  BY <1>3, <1>14 DEF RunTool, InHand
<1>15. CASE FinishTools
  <2>1. /\ UNCHANGED <<args, loopUsed, jsonUsed, asked>>
        /\ pc = "tools" /\ pc' = "ask"
        /\ msgs' = Append(msgs, AssistantMessage(Normalize(toolCalls)))
                     \o ToolMessages(execs)
    BY <1>15 DEF FinishTools
  <2>2. Normalize(toolCalls) \in Seq(ToolCall) /\ execs \in Seq(Execution)
    BY NormalizeType DEF TypeOK
  <2>3. /\ Trips(msgs') = Trips(msgs) + 1
        /\ LoopFixes(msgs') = LoopFixes(msgs)
        /\ JsonFixes(msgs') = JsonFixes(msgs)
    <3> DEFINE calls == Normalize(toolCalls)
    <3>1. calls \in Seq(ToolCall)
          /\ msgs' = Append(msgs, AssistantMessage(calls)) \o ToolMessages(execs)
      BY <2>1, <2>2
    <3>2. msgs \in Seq(Message) /\ execs \in Seq(Execution)
      BY <1>1, <2>2
    <3> HIDE DEF calls
    <3>3. OneMore(Trips(msgs), Trips(msgs'))
      BY <3>1, <3>2, RoundCounts
    <3>4. LoopFixes(msgs') = LoopFixes(msgs)
      BY <3>1, <3>2, RoundCounts
    <3>5. JsonFixes(msgs') = JsonFixes(msgs)
      BY <3>1, <3>2, RoundCounts
    <3> QED BY <3>3, <3>4, <3>5 DEF OneMore
  <2>4. asked = Trips(msgs) + loopUsed + jsonUsed + 1 \/ args.rounds < 0
    BY <1>1, <2>1 DEF Accounted, InHand
  <2>5. Trips(msgs) \in Nat /\ InHand' = 0
    BY <1>2, <2>1 DEF InHand
  <2>6. args'.rounds >= 0 =>
          asked' = Trips(msgs') + loopUsed' + jsonUsed' + InHand'
    BY <1>1, <2>1, <2>3, <2>4, <2>5
  <2> QED BY <2>1, <2>3, <2>6 DEF Accounted
<1>16. ASSUME NEW fix \in {LoopFix, JsonFix}, msgs' = Append(msgs, fix),
              loopUsed' = loopUsed + (IF fix = LoopFix THEN 1 ELSE 0),
              jsonUsed' = jsonUsed + (IF fix = JsonFix THEN 1 ELSE 0),
              UNCHANGED <<args, asked>>, pc = "judge", pc' = "ask"
       PROVE  Accounted'
  <2>1. /\ Trips(msgs') = Trips(msgs)
        /\ LoopFixes(msgs') = LoopFixes(msgs) + (IF fix = LoopFix THEN 1 ELSE 0)
        /\ JsonFixes(msgs') = JsonFixes(msgs) + (IF fix = JsonFix THEN 1 ELSE 0)
    BY <1>1, <1>16, FixCounts
  <2>2. LoopFixes(msgs') = loopUsed' /\ JsonFixes(msgs') = jsonUsed'
    BY <1>16, <2>1 DEF Accounted
  <2>3. InHand = 1 /\ InHand' = 0 /\ pc # "done"
    BY <1>16 DEF InHand
  <2>4. loopUsed' + jsonUsed' = loopUsed + jsonUsed + 1
        /\ loopUsed' \in Nat /\ jsonUsed' \in Nat
    BY <1>1, <1>4, <1>16
  <2>5. args.rounds >= 0 => asked = Trips(msgs) + loopUsed + jsonUsed + 1
    BY <2>3 DEF Accounted
  <2>6. ASSUME args.rounds >= 0
        PROVE  asked' = Trips(msgs') + loopUsed' + jsonUsed' + InHand'
    <3>1. asked = Trips(msgs) + (loopUsed + jsonUsed + 1)
      BY <1>1, <1>2, <2>5, <2>6
    <3>2. asked = Trips(msgs) + (loopUsed' + jsonUsed')
      BY <2>4, <3>1
    <3>3. Trips(msgs) + (loopUsed' + jsonUsed')
            = Trips(msgs) + loopUsed' + jsonUsed' + 0
      BY <1>2, <2>4
    <3> QED BY <1>16, <2>1, <2>3, <3>2, <3>3
  <2> QED BY <1>16, <2>2, <2>6 DEF Accounted
<1>17. CASE LoopRetry
  <2>1. /\ loopUsed' = loopUsed + 1 /\ jsonUsed' = jsonUsed + 0
        /\ msgs' = Append(msgs, LoopFix) /\ UNCHANGED <<args, asked>>
        /\ pc = "judge" /\ pc' = "ask"
    BY <1>1, <1>17 DEF LoopRetry, Again
  <2> QED BY <1>4, <1>16, <2>1
<1>18. CASE LoopFails
  BY <1>3, <1>18 DEF LoopFails
<1>19. CASE JsonRetry
  <2>1. /\ loopUsed' = loopUsed + 0 /\ jsonUsed' = jsonUsed + 1
        /\ msgs' = Append(msgs, JsonFix) /\ UNCHANGED <<args, asked>>
        /\ pc = "judge" /\ pc' = "ask"
    BY <1>1, <1>19 DEF JsonRetry, Again
  <2> QED BY <1>4, <1>16, <2>1
<1>20. CASE JsonFails
  BY <1>3, <1>20 DEF JsonFails
<1>21. CASE Return
  BY <1>3, <1>21 DEF Return
<1>22. CASE Cancel
  BY <1>3, <1>22 DEF Cancel
<1>23. CASE UNCHANGED vars
  BY <1>23 DEF vars, Accounted, InHand
<1> QED
  BY <1>6, <1>7, <1>8, <1>9, <1>10, <1>11, <1>12, <1>13, <1>14, <1>15, <1>17,
     <1>18, <1>19, <1>20, <1>21, <1>22, <1>23 DEF Next, Step, Ended

LEMMA InitAccounted == Init => Accounted
<1> SUFFICES ASSUME Init PROVE Accounted
  OBVIOUS
<1>1. Trips(msgs) = 0 /\ LoopFixes(msgs) = 0 /\ JsonFixes(msgs) = 0
  <2>1. \A i \in DOMAIN msgs : FALSE
    BY DEF Init
  <2>2. \A S : HowMany(msgs, S) = 0
    BY <2>1, CountNone
  <2> QED BY <2>2 DEF Trips, LoopFixes, JsonFixes
<1> QED BY <1>1 DEF Init, Accounted, InHand

(* No reply is forgotten, none is counted twice, and a retry is charged    *)
(* exactly when the model is shown a correction.                           *)
THEOREM RepliesAreAccounted == Spec => []EveryReplyAccounted
BY InitAccounted, NextAccounted, AccountedIs, TypeCorrect, PTL DEF Spec, Safety

-----------------------------------------------------------------------------
(* Every effect is recorded.                                               *)

Effects == HowMany(msgs, Told) + HowMany(execs, Known)

(* EffectsRecorded with the counts of the lemmas above, and what it takes  *)
(* to survive the start of a round: outside one nothing is in execs.       *)
EffectsInv ==
  /\ pc \in {"setup", "ask", "wait", "judge"} => execs = <<>>
  /\ outcome # "cancelled" => ran = Effects
  /\ ran = Effects \/ ran = Effects + 1

LEMMA EffectsBound == TypeOK /\ EffectsInv => EffectsRecorded
<1> SUFFICES ASSUME TypeOK, EffectsInv PROVE EffectsRecorded
  OBVIOUS
<1>1. msgs \in Seq(Message) /\ execs \in Seq(Execution)
  BY DEF TypeOK
<1>2. RecordedEffects = Effects
  BY <1>1, EffectsAreHowMany DEF RecordedEffects, Effects
<1>3. HowMany(msgs, Told) \in Nat /\ HowMany(execs, Known) \in Nat
  BY <1>1, CountType
<1>4. Effects \in Nat
  BY <1>3 DEF Effects
<1> QED BY <1>2, <1>4 DEF EffectsRecorded, EffectsInv

(* A handler's result is one of an effect, an unknown name has none.       *)
LEMMA EffectOfCall ==
  ASSUME NEW call \in ToolCall, NEW result \in Results(call.name),
         NEW done \in Seq(Execution), NEW more,
         more = Append(done, [id |-> call.id, name |-> call.name,
                              result |-> result])
  PROVE  Together(HowMany(done, Known), IF call.name \in Registry THEN 1 ELSE 0,
                  HowMany(more, Known))
<1> DEFINE e == [id |-> call.id, name |-> call.name, result |-> result]
<1>1. result \in {"value", "failed", "unknown"}
  BY DEF Results
<1>2. e \in Execution /\ e.result = result
  BY <1>1 DEF Execution, ToolCall
<1>3. result = "unknown" <=> call.name \notin Registry
  BY DEF Results
<1> HIDE DEF e
<1>4. e \in Known <=> call.name \in Registry
  BY <1>2, <1>3 DEF Known
<1>5. HowMany(done, Known) \in Nat
  BY CountType
<1>6. more = Append(done, e)
  BY DEF e
<1>7. HowMany(more, Known)
        = HowMany(done, Known) + (IF e \in Known THEN 1 ELSE 0)
  BY <1>2, <1>6, CountAppend
<1> QED BY <1>4, <1>5, <1>7 DEF Together

LEMMA NextEffects == TypeOK /\ EffectsInv /\ [Next]_vars => EffectsInv'
<1> SUFFICES ASSUME TypeOK, EffectsInv, [Next]_vars PROVE EffectsInv'
  OBVIOUS
<1> USE DEF End, budget, round
<1>1. /\ msgs \in Seq(Message) /\ execs \in Seq(Execution) /\ queue \in Seq(ToolCall)
      /\ toolCalls \in Seq(ToolCall)
      /\ ran \in Nat /\ pc \in Pcs
      /\ pc = "done" <=> outcome # "none"
  BY DEF TypeOK
<1>2. HowMany(msgs, Told) \in Nat /\ HowMany(execs, Known) \in Nat
  BY <1>1, CountType
<1>3. pc # "done" => ran = Effects
  BY <1>1 DEF EffectsInv
<1>4. ASSUME pc # "done", Effects' = Effects, ran' = ran,
             pc' \in {"setup", "ask", "wait", "judge"} => execs' = <<>>
      PROVE  EffectsInv'
  BY <1>3, <1>4 DEF EffectsInv
<1>5. ASSUME pc # "done", UNCHANGED <<msgs, execs, ran>>,
             pc' \in {"tools", "done"} \/ pc # "tools"
      PROVE  EffectsInv'
  <2>1. Effects' = Effects
    BY <1>5 DEF Effects
  <2>2. pc' \in {"setup", "ask", "wait", "judge"} => execs' = <<>>
    BY <1>1, <1>5 DEF EffectsInv, Pcs
  <2> QED BY <1>4, <1>5, <2>1, <2>2
<1>6. ASSUME pc \in {"setup", "judge"}, UNCHANGED <<execs, ran>>,
             NEW fix \in {LoopFix, JsonFix, Prompt}, msgs' = Append(msgs, fix)
      PROVE  EffectsInv'
  <2>1. HowMany(msgs', Told) = HowMany(msgs, Told)
    BY <1>1, <1>6, FixCounts
  <2>2. Effects' = Effects
    BY <1>6, <2>1 DEF Effects
  <2>3. execs' = <<>>
    BY <1>6 DEF EffectsInv
  <2> QED BY <1>4, <1>6, <2>2, <2>3
<1>7. CASE Setup
  <2>1. msgs = <<>> /\ msgs' = Append(<<>>, Prompt)
    BY <1>7 DEF Setup, TypeOK
  <2>2. pc = "setup" /\ UNCHANGED <<execs, ran>> /\ msgs' = Append(msgs, Prompt)
    BY <1>7, <2>1 DEF Setup
  <2> QED BY <1>6, <2>2
<1>8. CASE SetupFails
  BY <1>5, <1>8 DEF SetupFails
<1>9. CASE Send
  BY <1>5, <1>9 DEF Send
<1>10. CASE NoRequest
  BY <1>5, <1>10 DEF NoRequest
<1>11. CASE TransportFails
  BY <1>5, <1>11 DEF TransportFails
<1>12. ASSUME NEW r \in Replies, FinalReply(r) PROVE EffectsInv'
  BY <1>5, <1>12 DEF FinalReply
<1>13. ASSUME NEW r \in Replies, RoundsExhausted(r) PROVE EffectsInv'
  BY <1>5, <1>13 DEF RoundsExhausted
<1>14. ASSUME NEW r \in Replies, ToolReply(r) PROVE EffectsInv'
  <2>1. pc = "wait" /\ pc' = "tools" /\ execs' = <<>> /\ UNCHANGED <<msgs, ran>>
    BY <1>14 DEF ToolReply
  <2>2. execs' = execs
    BY <2>1 DEF EffectsInv
  <2> QED BY <1>5, <2>1, <2>2
<1>15. CASE RunTool
  <2> DEFINE call == Head(queue)
  <2>1. /\ pc = "tools" /\ pc' = "tools" /\ queue # <<>> /\ msgs' = msgs
        /\ outcome' = outcome
        /\ ran' = IF call.name \in Registry THEN ran + 1 ELSE ran
    BY <1>15 DEF RunTool
  <2>2. PICK result \in Results(call.name) :
          execs' = Append(execs, [id |-> call.id, name |-> call.name,
                                  result |-> result])
    BY <1>15 DEF RunTool
  <2>3. call \in ToolCall
    BY <1>1, <2>1, HeadTailProperties
  <2> HIDE DEF call
  <2>4. Together(HowMany(execs, Known), IF call.name \in Registry THEN 1 ELSE 0,
                 HowMany(execs', Known))
    BY <1>1, <2>2, <2>3, EffectOfCall
  <2>5. CASE call.name \in Registry
    <3>1. Effects' = Effects + 1
      BY <1>2, <2>1, <2>4, <2>5 DEF Together, Effects
    <3> QED BY <1>3, <2>1, <2>5, <3>1 DEF EffectsInv
  <2>6. CASE call.name \notin Registry
    <3>1. Effects' = Effects
      BY <1>2, <2>1, <2>4, <2>6 DEF Together, Effects
    <3> QED BY <1>4, <2>1, <2>6, <3>1
  <2> QED BY <2>5, <2>6
<1>16. CASE FinishTools
  <2> DEFINE calls == Normalize(toolCalls)
  <2>1. /\ pc = "tools" /\ UNCHANGED ran /\ execs' = <<>>
        /\ msgs' = Append(msgs, AssistantMessage(calls)) \o ToolMessages(execs)
    BY <1>16 DEF FinishTools
  <2>2. calls \in Seq(ToolCall)
    BY <1>1, NormalizeType
  <2> HIDE DEF calls
  <2>3. Together(HowMany(msgs, Told), HowMany(execs, Known), HowMany(msgs', Told))
    BY <1>1, <2>1, <2>2, RoundCounts
  <2>4. HowMany(execs', Known) = 0
    <3>1. \A i \in DOMAIN execs' : FALSE
      BY <2>1
    <3> QED BY <3>1, CountNone
  <2>5. Effects' = Effects
    BY <1>2, <2>3, <2>4 DEF Effects, Together
  <2> QED BY <1>4, <2>1, <2>5
<1>17. CASE LoopRetry \/ JsonRetry
  <2>1. /\ pc = "judge" /\ UNCHANGED <<execs, ran>>
        /\ \E fix \in {LoopFix, JsonFix, Prompt} : msgs' = Append(msgs, fix)
    BY <1>17 DEF LoopRetry, JsonRetry, Again
  <2> QED BY <1>6, <2>1
<1>18. CASE LoopFails
  BY <1>5, <1>18 DEF LoopFails
<1>19. CASE JsonFails
  BY <1>5, <1>19 DEF JsonFails
<1>20. CASE Return
  BY <1>5, <1>20 DEF Return
<1>21. CASE Cancel
  <2>1. /\ pc # "done" /\ pc' = "done" /\ outcome' = "cancelled"
        /\ UNCHANGED <<msgs, execs>>
        /\ ran' = ran \/ ran' = ran + 1
    BY <1>21 DEF Cancel
  <2>2. Effects' = Effects
    BY <2>1 DEF Effects
  <2> QED BY <1>3, <2>1, <2>2 DEF EffectsInv
<1>22. CASE UNCHANGED vars
  BY <1>22 DEF vars, EffectsInv, Effects
<1> QED
  BY <1>7, <1>8, <1>9, <1>10, <1>11, <1>12, <1>13, <1>14, <1>15, <1>16, <1>17,
     <1>18, <1>19, <1>20, <1>21, <1>22 DEF Next, Step, Ended

LEMMA InitEffects == Init => EffectsInv
<1> SUFFICES ASSUME Init PROVE EffectsInv
  OBVIOUS
<1>1. /\ \A i \in DOMAIN msgs : FALSE
      /\ \A i \in DOMAIN execs : FALSE
  BY DEF Init
<1>2. HowMany(msgs, Told) = 0 /\ HowMany(execs, Known) = 0
  BY <1>1, CountNone
<1> QED BY <1>2 DEF Init, EffectsInv, Effects

(* The model is told of every effect exactly once; only a cancellation may *)
(* lose one, the one of the handler it interrupts.                         *)
THEOREM EffectsAreRecorded == Spec => []EffectsRecorded
BY InitEffects, NextEffects, EffectsBound, TypeCorrect, PTL DEF Spec, Safety

-----------------------------------------------------------------------------
(* Every tool call has its answer.                                         *)

(* ToolRepliesPaired of a conversation s.                                  *)
Answered(s) ==
  \A i \in DOMAIN s : s[i].role = "assistant" =>
    \A k \in DOMAIN s[i].calls :
       /\ i + k \in DOMAIN s
       /\ s[i + k].role = "tool"
       /\ s[i + k].exec.id = s[i].calls[k].id
       /\ s[i + k].exec.name = s[i].calls[k].name

CalledFor(s) ==
  \A i \in DOMAIN s : s[i].role = "tool" =>
    \E j \in 1..(i - 1) : s[j].role = "assistant" /\ i - j \in DOMAIN s[j].calls

(* done answers the first of calls, left are the others: what              *)
(* execute_tool_calls has behind it and before it.                         *)
Underway(calls, done, left) ==
  /\ Len(calls) = Len(done) + Len(left)
  /\ \A k \in 1..Len(done) : done[k].id = calls[k].id /\ done[k].name = calls[k].name
  /\ \A k \in 1..Len(left) : left[k] = calls[Len(done) + k]

PairedInv ==
  /\ Answered(msgs) /\ CalledFor(msgs)
  /\ pc = "tools" => Underway(Normalize(toolCalls), execs, queue)

(* t is s with a round appended at n, position by position.                *)
Appended(s, calls, done, n, t) ==
  /\ Len(s) \in Nat /\ Len(done) \in Nat
  /\ DOMAIN s = 1..Len(s)
  /\ DOMAIN t = 1..(n + Len(done))
  /\ \A i \in 1..Len(s) : t[i] = s[i]
  /\ t[n] = AssistantMessage(calls)
  /\ \A k \in 1..Len(done) : t[n + k] = [role |-> "tool", exec |-> done[k]]

LEMMA RoundIs ==
  ASSUME NEW s \in Seq(Message), NEW calls \in Seq(ToolCall),
         NEW done \in Seq(Execution), NEW t,
         t = Append(s, AssistantMessage(calls)) \o ToolMessages(done),
         NEW n, n = Len(s) + 1
  PROVE  Appended(s, calls, done, n, t)
<1> DEFINE said == AssistantMessage(calls)
           heard == ToolMessages(done)
           r == Append(s, said)
<1>1. /\ said \in Message
      /\ heard \in Seq(Message) /\ Len(heard) = Len(done)
      /\ \A k \in 1..Len(done) : heard[k] = [role |-> "tool", exec |-> done[k]]
  BY AssistantIs, ToolMessagesAre
<1> HIDE DEF said, heard
<1>2. /\ r \in Seq(Message) /\ Len(r) = n /\ r[n] = said
      /\ \A i \in 1..Len(s) : r[i] = s[i]
  BY <1>1, AppendProperties
<1>3. /\ Len(s) \in Nat /\ Len(done) \in Nat /\ DOMAIN s = 1..Len(s)
  BY LenProperties
<1>4. t = r \o heard
  BY DEF said, heard
<1> HIDE DEF r
<1>5. /\ t \in Seq(Message) /\ Len(t) = n + Len(done)
      /\ \A i \in 1..(n + Len(done)) : t[i] = IF i <= n THEN r[i] ELSE heard[i - n]
  <2>1. /\ t \in Seq(Message) /\ Len(t) = Len(r) + Len(heard)
        /\ \A i \in 1..(Len(r) + Len(heard)) :
             t[i] = IF i <= Len(r) THEN r[i] ELSE heard[i - Len(r)]
    <3>1. /\ r \o heard \in Seq(Message) /\ Len(r \o heard) = Len(r) + Len(heard)
          /\ \A i \in 1..(Len(r) + Len(heard)) :
               (r \o heard)[i] = IF i <= Len(r) THEN r[i] ELSE heard[i - Len(r)]
      <4>1. r \in Seq(Message) /\ heard \in Seq(Message)
        BY <1>1, <1>2
      <4> QED BY <4>1, ConcatProperties
    <3> QED BY <1>4, <3>1, Zenon
  <2> QED BY <1>1, <1>2, <2>1
<1>6. DOMAIN t = 1..(n + Len(done))
  BY <1>5, LenProperties
<1>7. \A i \in 1..Len(s) : t[i] = s[i]
  <2> TAKE i \in 1..Len(s)
  <2>1. i \in 1..(n + Len(done)) /\ i <= n
    BY <1>3
  <2>2. t[i] = r[i]
    BY <1>5, <2>1, Zenon
  <2> QED BY <1>2, <2>2, Zenon
<1>8. t[n] = said
  <2>1. n \in 1..(n + Len(done)) /\ n <= n
    BY <1>3
  <2>2. t[n] = r[n]
    BY <1>5, <2>1, Zenon
  <2> QED BY <1>2, <2>2, Zenon
<1>9. \A k \in 1..Len(done) : t[n + k] = [role |-> "tool", exec |-> done[k]]
  <2> TAKE k \in 1..Len(done)
  <2>1. n + k \in 1..(n + Len(done)) /\ ~(n + k <= n) /\ (n + k) - n = k
    BY <1>3
  <2>2. t[n + k] = heard[k]
    BY <1>5, <2>1
  <2> QED BY <1>1, <2>2
<1> QED BY <1>3, <1>6, <1>7, <1>8, <1>9 DEF said, Appended

LEMMA RoundAnswered ==
  ASSUME NEW s \in Seq(Message), NEW calls \in Seq(ToolCall),
         NEW done \in Seq(Execution), NEW t,
         t = Append(s, AssistantMessage(calls)) \o ToolMessages(done),
         Answered(s), CalledFor(s), Underway(calls, done, <<>>)
  PROVE  Answered(t) /\ CalledFor(t)
<1> DEFINE n == Len(s) + 1
<1>1. /\ Len(s) \in Nat /\ Len(done) \in Nat
      /\ DOMAIN s = 1..Len(s)
      /\ DOMAIN t = 1..(n + Len(done))
      /\ \A i \in 1..Len(s) : t[i] = s[i]
      /\ t[n] = AssistantMessage(calls)
      /\ \A k \in 1..Len(done) : t[n + k] = [role |-> "tool", exec |-> done[k]]
  <2>1. n = Len(s) + 1
    OBVIOUS
  <2> HIDE DEF n
  <2>2. Appended(s, calls, done, n, t)
    BY <2>1, RoundIs
  <2> QED BY <2>2 DEF Appended
<1>2. t[n].role = "assistant" /\ t[n].calls = calls
  BY <1>1, AssistantIs
<1>3. ASSUME NEW k \in 1..Len(done)
      PROVE  t[n + k].role = "tool" /\ t[n + k].exec = done[k]
  <2>1. t[n + k] = [role |-> "tool", exec |-> done[k]]
    BY <1>1
  <2> QED BY <2>1
<1>4. /\ DOMAIN calls = 1..Len(done)
      /\ \A k \in 1..Len(done) : done[k].id = calls[k].id /\ done[k].name = calls[k].name
  <2>1. Len(calls) = Len(done) /\ DOMAIN calls = 1..Len(calls)
    BY <1>1, LenProperties, EmptySeq DEF Underway
  <2> QED BY <2>1 DEF Underway
<1>5. \A i \in DOMAIN t :
        i \in 1..Len(s) \/ i = n \/ \E k \in 1..Len(done) : i = n + k
  <2> TAKE i \in DOMAIN t
  <2>1. i \in 1..(n + Len(done))
    BY <1>1
  <2>2. CASE i > n
    <3>1. i - n \in 1..Len(done) /\ i = n + (i - n)
      BY <1>1, <2>1, <2>2
    <3> QED BY <3>1
  <2>3. CASE i <= n
    BY <1>1, <2>1, <2>3
  <2> QED BY <1>1, <2>1, <2>2, <2>3
<1> HIDE DEF n
<1>6. n \in Nat /\ 1..Len(s) \subseteq 1..(n + Len(done)) /\ n = Len(s) + 1
  BY <1>1 DEF n
<1>7. ASSUME NEW i \in DOMAIN t, t[i].role = "assistant", NEW k \in DOMAIN t[i].calls
      PROVE  /\ i + k \in DOMAIN t
             /\ t[i + k].role = "tool"
             /\ t[i + k].exec.id = t[i].calls[k].id
             /\ t[i + k].exec.name = t[i].calls[k].name
  <2>1. CASE i \in 1..Len(s)
    <3>1. t[i] = s[i]
      BY <1>1, <2>1
    <3>2. /\ i + k \in 1..Len(s)
          /\ s[i + k].role = "tool"
          /\ s[i + k].exec.id = s[i].calls[k].id
          /\ s[i + k].exec.name = s[i].calls[k].name
      BY <1>1, <1>7, <2>1, <3>1 DEF Answered
    <3>3. t[i + k] = s[i + k]
      BY <1>1, <3>2
    <3>4. i + k \in DOMAIN t
      BY <1>1, <1>6, <3>2
    <3> QED BY <3>1, <3>2, <3>3, <3>4
  <2>2. CASE i = n
    <3>1. k \in 1..Len(done)
      BY <1>2, <1>4, <1>7, <2>2
    <3>2. n + k \in 1..(n + Len(done))
      BY <1>1, <1>6, <3>1
    <3> QED BY <1>1, <1>2, <1>3, <1>4, <2>2, <3>1, <3>2
  <2>3. ASSUME NEW m \in 1..Len(done), i = n + m PROVE FALSE
    BY <1>3, <1>7, <2>3
  <2> QED BY <1>5, <2>1, <2>2, <2>3
<1>8. ASSUME NEW i \in DOMAIN t, t[i].role = "tool"
      PROVE  \E j \in 1..(i - 1) : t[j].role = "assistant" /\ i - j \in DOMAIN t[j].calls
  <2>1. CASE i \in 1..Len(s)
    <3>1. t[i] = s[i]
      BY <1>1, <2>1
    <3>2. PICK j \in 1..(i - 1) : s[j].role = "assistant" /\ i - j \in DOMAIN s[j].calls
      BY <1>1, <1>8, <2>1, <3>1 DEF CalledFor
    <3>3. j \in 1..Len(s)
      BY <1>1, <2>1
    <3>4. t[j] = s[j]
      BY <1>1, <3>3
    <3> QED BY <3>2, <3>4
  <2>2. CASE i = n
    BY <1>2, <1>8, <2>2
  <2>3. ASSUME NEW m \in 1..Len(done), i = n + m
        PROVE  \E j \in 1..(i - 1) : t[j].role = "assistant" /\ i - j \in DOMAIN t[j].calls
    <3>1. n \in 1..(i - 1) /\ i - n = m
      BY <1>1, <1>6, <2>3
    <3> QED BY <1>2, <1>4, <3>1
  <2> QED BY <1>5, <2>1, <2>2, <2>3
<1> QED BY <1>7, <1>8 DEF Answered, CalledFor

(* A message that is neither a round's nor its answer changes nothing.     *)
LEMMA FixAnswered ==
  ASSUME NEW s \in Seq(Message), NEW fix \in {LoopFix, JsonFix, Prompt}, NEW t,
         t = Append(s, fix), Answered(s), CalledFor(s)
  PROVE  Answered(t) /\ CalledFor(t)
<1>1. fix \in Message /\ fix.role # "assistant" /\ fix.role # "tool"
  <2>1. /\ LoopFix.role = "loop fix"
        /\ JsonFix.role = "json fix"
        /\ Prompt.role = "prompt"
    BY DEF LoopFix, JsonFix, Prompt
  <2> QED BY <2>1, FixTypes
<1>2. /\ Len(s) \in Nat /\ DOMAIN s = 1..Len(s)
      /\ t \in Seq(Message) /\ Len(t) = Len(s) + 1 /\ t[Len(s) + 1] = fix
      /\ \A i \in 1..Len(s) : t[i] = s[i]
  BY <1>1, LenProperties, AppendProperties
<1>3. DOMAIN t = 1..(Len(s) + 1)
  BY <1>2, LenProperties
<1>4. ASSUME NEW i \in DOMAIN t, t[i].role = "assistant" \/ t[i].role = "tool"
      PROVE  i \in 1..Len(s) /\ t[i] = s[i]
  <2>1. i # Len(s) + 1
    BY <1>1, <1>2, <1>4
  <2> QED BY <1>2, <1>3, <2>1
<1>5. ASSUME NEW i \in DOMAIN t, t[i].role = "assistant", NEW k \in DOMAIN t[i].calls
      PROVE  /\ i + k \in DOMAIN t
             /\ t[i + k].role = "tool"
             /\ t[i + k].exec.id = t[i].calls[k].id
             /\ t[i + k].exec.name = t[i].calls[k].name
  <2>1. i \in 1..Len(s) /\ t[i] = s[i]
    BY <1>4, <1>5
  <2>2. /\ i + k \in 1..Len(s)
        /\ s[i + k].role = "tool"
        /\ s[i + k].exec.id = s[i].calls[k].id
        /\ s[i + k].exec.name = s[i].calls[k].name
    BY <1>2, <1>5, <2>1 DEF Answered
  <2>3. t[i + k] = s[i + k] /\ i + k \in DOMAIN t
    BY <1>2, <1>3, <2>2
  <2> QED BY <2>1, <2>2, <2>3
<1>6. ASSUME NEW i \in DOMAIN t, t[i].role = "tool"
      PROVE  \E j \in 1..(i - 1) : t[j].role = "assistant" /\ i - j \in DOMAIN t[j].calls
  <2>1. i \in 1..Len(s) /\ t[i] = s[i]
    BY <1>4, <1>6
  <2>2. PICK j \in 1..(i - 1) : s[j].role = "assistant" /\ i - j \in DOMAIN s[j].calls
    BY <1>2, <1>6, <2>1 DEF CalledFor
  <2>3. j \in 1..Len(s)
    BY <1>2, <2>1
  <2>4. t[j] = s[j]
    BY <1>2, <2>3
  <2> QED BY <2>2, <2>4
<1> QED BY <1>5, <1>6 DEF Answered, CalledFor

(* One call more of the round is run.                                      *)
LEMMA RunUnderway ==
  ASSUME NEW calls \in Seq(ToolCall), NEW done \in Seq(Execution),
         NEW left \in Seq(ToolCall), left # <<>>, Underway(calls, done, left),
         NEW e \in Execution, e.id = Head(left).id, e.name = Head(left).name
  PROVE  Underway(calls, Append(done, e), Tail(left))
<1> DEFINE more == Append(done, e)
           rest == Tail(left)
<1>1. /\ Len(done) \in Nat
      /\ Len(more) = Len(done) + 1 /\ more[Len(done) + 1] = e
      /\ \A k \in 1..Len(done) : more[k] = done[k]
  BY LenProperties, AppendProperties
<1>2. /\ Len(left) \in Nat \ {0} /\ Head(left) = left[1]
      /\ Len(rest) = Len(left) - 1
      /\ \A k \in 1..Len(rest) : rest[k] = left[k + 1]
  BY LenProperties, EmptySeq, HeadTailProperties
<1> HIDE DEF more, rest
<1>3. /\ Len(calls) = Len(done) + Len(left)
      /\ \A k \in 1..Len(done) : done[k].id = calls[k].id /\ done[k].name = calls[k].name
      /\ \A k \in 1..Len(left) : left[k] = calls[Len(done) + k]
  BY DEF Underway
<1>4. Len(calls) = Len(more) + Len(rest)
  BY <1>1, <1>2, <1>3
<1>5. left[1] = calls[Len(done) + 1]
  <2>1. 1 \in 1..Len(left)
    BY <1>2
  <2> QED BY <1>3, <2>1
<1>6. ASSUME NEW k \in 1..Len(more)
      PROVE  more[k].id = calls[k].id /\ more[k].name = calls[k].name
  <2>1. CASE k = Len(done) + 1
    BY <1>1, <1>2, <1>5, <2>1
  <2>2. CASE k \in 1..Len(done)
    BY <1>1, <1>3, <2>2
  <2> QED BY <1>1, <2>1, <2>2
<1>7. ASSUME NEW k \in 1..Len(rest) PROVE rest[k] = calls[Len(more) + k]
  <2>1. k + 1 \in 1..Len(left) /\ Len(done) + (k + 1) = Len(more) + k
    BY <1>1, <1>2
  <2>2. left[k + 1] = calls[Len(done) + (k + 1)]
    BY <1>3, <2>1
  <2> QED BY <1>2, <2>1, <2>2
<1>8. Underway(calls, more, rest)
  BY <1>4, <1>6, <1>7 DEF Underway
<1> QED BY <1>8 DEF more, rest

LEMMA NextPaired == TypeOK /\ PairedInv /\ [Next]_vars => PairedInv'
<1> SUFFICES ASSUME TypeOK, PairedInv, [Next]_vars PROVE PairedInv'
  OBVIOUS
<1> USE DEF End, budget, round
<1>1. /\ msgs \in Seq(Message) /\ execs \in Seq(Execution) /\ queue \in Seq(ToolCall)
      /\ toolCalls \in Seq(ToolCall)
      /\ Answered(msgs) /\ CalledFor(msgs)
  BY DEF TypeOK, PairedInv
<1>2. ASSUME msgs' = msgs, pc' # "tools" PROVE PairedInv'
  BY <1>1, <1>2 DEF PairedInv
<1>3. ASSUME NEW fix \in {LoopFix, JsonFix, Prompt}, msgs' = Append(msgs, fix),
             pc' = "ask"
      PROVE  PairedInv'
  <2>1. Answered(msgs') /\ CalledFor(msgs')
    BY <1>1, <1>3, FixAnswered
  <2> QED BY <1>3, <2>1 DEF PairedInv
<1>4. CASE Setup
  <2>1. msgs = <<>> /\ msgs' = Append(<<>>, Prompt)
    BY <1>4 DEF Setup, TypeOK
  <2>2. pc' = "ask" /\ msgs' = Append(msgs, Prompt)
    BY <1>4, <2>1 DEF Setup
  <2> QED BY <1>3, <2>2
<1>5. CASE SetupFails
  BY <1>2, <1>5 DEF SetupFails
<1>6. CASE Send
  BY <1>2, <1>6 DEF Send
<1>7. CASE NoRequest
  BY <1>2, <1>7 DEF NoRequest
<1>8. CASE TransportFails
  BY <1>2, <1>8 DEF TransportFails
<1>9. ASSUME NEW r \in Replies, FinalReply(r) PROVE PairedInv'
  BY <1>2, <1>9 DEF FinalReply
<1>10. ASSUME NEW r \in Replies, RoundsExhausted(r) PROVE PairedInv'
  BY <1>2, <1>10 DEF RoundsExhausted
<1>11. ASSUME NEW r \in Replies, ToolReply(r) PROVE PairedInv'
  <2> DEFINE calls == Normalize(toolCalls')
  <2>1. /\ msgs' = msgs /\ execs' = <<>> /\ queue' = calls
        /\ toolCalls' \in Seq(ToolCall)
    <3>1. r.calls \in Seq(RawCall)
      BY RepliesAssumption DEF Reply
    <3> QED BY <1>11, <3>1, NormalizeType DEF ToolReply
  <2>2. calls \in Seq(ToolCall)
    BY <2>1, NormalizeType
  <2> HIDE DEF calls
  <2>3. Underway(calls, <<>>, calls)
    <3>1. Len(calls) \in Nat /\ Len(<<>>) = 0
      BY <2>2, LenProperties
    <3> QED BY <3>1 DEF Underway
  <2> QED BY <1>1, <2>1, <2>3 DEF PairedInv, calls
<1>12. CASE RunTool
  <2> DEFINE call == Head(queue)
             calls == Normalize(toolCalls)
  <2>1. /\ pc = "tools" /\ queue # <<>> /\ queue' = Tail(queue)
        /\ UNCHANGED <<msgs, toolCalls>>
    BY <1>12 DEF RunTool
  <2>2. PICK result \in Results(call.name) :
          execs' = Append(execs, [id |-> call.id, name |-> call.name,
                                  result |-> result])
    BY <1>12 DEF RunTool
  <2> DEFINE e == [id |-> call.id, name |-> call.name, result |-> result]
  <2>3. e \in Execution /\ e.id = call.id /\ e.name = call.name
    <3>1. call \in ToolCall
      BY <1>1, <2>1, HeadTailProperties
    <3>2. result \in {"value", "failed", "unknown"}
      BY DEF Results
    <3> HIDE DEF call
    <3> QED BY <3>1, <3>2 DEF ToolCall, Execution
  <2>4. Underway(calls, execs, queue) /\ calls \in Seq(ToolCall)
    BY <1>1, <2>1, NormalizeType DEF PairedInv
  <2>5. Underway(calls, Append(execs, e), Tail(queue))
    <3> HIDE DEF e, calls
    <3> QED BY <1>1, <2>1, <2>3, <2>4, RunUnderway
  <2> QED BY <1>1, <2>1, <2>2, <2>5 DEF PairedInv
<1>13. CASE FinishTools
  <2> DEFINE calls == Normalize(toolCalls)
  <2>1. /\ pc = "tools" /\ pc' = "ask" /\ queue = <<>>
        /\ msgs' = Append(msgs, AssistantMessage(calls)) \o ToolMessages(execs)
    BY <1>13 DEF FinishTools
  <2>2. Underway(calls, execs, <<>>) /\ calls \in Seq(ToolCall)
    BY <1>1, <2>1, NormalizeType DEF PairedInv
  <2>3. Answered(msgs') /\ CalledFor(msgs')
    <3> HIDE DEF calls
    <3> QED BY <1>1, <2>1, <2>2, RoundAnswered
  <2> QED BY <2>1, <2>3 DEF PairedInv
<1>14. CASE LoopRetry \/ JsonRetry
  <2>1. pc' = "ask" /\ \E fix \in {LoopFix, JsonFix, Prompt} : msgs' = Append(msgs, fix)
    BY <1>14 DEF LoopRetry, JsonRetry, Again
  <2> QED BY <1>3, <2>1
<1>15. CASE LoopFails
  BY <1>2, <1>15 DEF LoopFails
<1>16. CASE JsonFails
  BY <1>2, <1>16 DEF JsonFails
<1>17. CASE Return
  BY <1>2, <1>17 DEF Return
<1>18. CASE Cancel
  BY <1>2, <1>18 DEF Cancel
<1>19. CASE UNCHANGED vars
  BY <1>19 DEF vars, PairedInv
<1> QED
  BY <1>4, <1>5, <1>6, <1>7, <1>8, <1>9, <1>10, <1>11, <1>12, <1>13, <1>14,
     <1>15, <1>16, <1>17, <1>18, <1>19 DEF Next, Step, Ended

LEMMA PairedBound == PairedInv => ToolRepliesPaired
BY DEF PairedInv, Answered, CalledFor, ToolRepliesPaired

LEMMA InitPaired == Init => PairedInv
<1> SUFFICES ASSUME Init PROVE PairedInv
  OBVIOUS
<1>1. \A i \in DOMAIN msgs : FALSE
  BY DEF Init
<1> QED BY <1>1 DEF Init, PairedInv, Answered, CalledFor

(* Every tool call the model made is followed by its answer, under its id, *)
(* and no tool message stands alone: each request is one a chat server     *)
(* accepts, whatever ids and names the replies had.                        *)
THEOREM ToolRepliesArePaired == Spec => []ToolRepliesPaired
BY InitPaired, NextPaired, PairedBound, TypeCorrect, PTL DEF Spec, Safety

-----------------------------------------------------------------------------
(* Refinement.                                                             *)

LEMMA CallInit == Init => Call!Init
<1> SUFFICES ASSUME Init PROVE Call!Init
  OBVIOUS
<1>1. Limit \in Nat
  BY InitTypeOK, LimitCovers
<1> QED BY <1>1 DEF Init, Call!Init, Status

LEMMA CallNext == BudgetInv /\ [Next]_vars => [Call!Next]_Call!vars
<1> SUFFICES ASSUME BudgetInv, [Next]_vars PROVE [Call!Next]_Call!vars
  OBVIOUS
<1> USE DEF End
<1>1. TypeOK /\ TypeOK'
  BY NextTypeOK DEF BudgetInv
<1>2. pc = "done" <=> outcome # "none"
  BY <1>1 DEF TypeOK
<1>3. ASSUME UNCHANGED args PROVE Limit' = Limit
  BY <1>3 DEF Limit
<1>4. ASSUME UNCHANGED <<args, asked>>, pc # "done", pc' # "done"
      PROVE  UNCHANGED Call!vars
  BY <1>3, <1>4 DEF Call!vars, Status
<1>5. ASSUME UNCHANGED <<args, asked>>, pc # "done", pc' = "done",
             outcome' \notin {"text", "parsed"}
      PROVE  Call!GiveUp
  BY <1>3, <1>5 DEF Call!GiveUp, Status
<1>6. CASE Setup
  BY <1>4, <1>6 DEF Setup, budget
<1>7. CASE SetupFails
  BY <1>5, <1>7 DEF SetupFails, budget, Call!Next
<1>8. CASE Send
  <2>1. /\ UNCHANGED args /\ pc = "ask" /\ pc' = "wait" /\ asked' = asked + 1
        /\ toolRound <= args.rounds
    BY <1>8 DEF Send, budget
  <2>2. asked < Limit
    <3>1. /\ Attempts \in Nat /\ PerAttempt \in Nat
          /\ Attempts * PerAttempt \in Nat
          /\ asked \in Nat /\ toolRound \in Nat
          /\ toolRound + 1 <= PerAttempt
      BY <1>1, <2>1, BudgetTypes
    <3>2. asked <= Attempts * PerAttempt + toolRound
      BY <2>1 DEF BudgetInv
    <3>3. Limit \in Nat /\ Attempts * PerAttempt + PerAttempt <= Limit
      BY <1>1, LimitCovers
    <3> QED BY <3>1, <3>2, <3>3
  <2> QED BY <1>3, <2>1, <2>2 DEF Call!Next, Call!Ask, Status
<1>9. CASE NoRequest
  BY <1>4, <1>9 DEF NoRequest, budget
<1>10. CASE TransportFails
  BY <1>5, <1>10 DEF TransportFails, budget, Call!Next
<1>11. ASSUME NEW r \in Replies, FinalReply(r) PROVE UNCHANGED Call!vars
  BY <1>4, <1>11 DEF FinalReply, budget
<1>12. ASSUME NEW r \in Replies, RoundsExhausted(r) PROVE Call!Next
  BY <1>5, <1>12 DEF RoundsExhausted, budget, Call!Next
<1>13. ASSUME NEW r \in Replies, ToolReply(r) PROVE UNCHANGED Call!vars
  BY <1>4, <1>13 DEF ToolReply, budget
<1>14. CASE RunTool
  BY <1>4, <1>14 DEF RunTool, budget
<1>15. CASE FinishTools
  BY <1>4, <1>15 DEF FinishTools, budget
<1>16. CASE LoopRetry
  BY <1>4, <1>16 DEF LoopRetry, Again
<1>17. CASE LoopFails
  BY <1>5, <1>17 DEF LoopFails, budget, Call!Next
<1>18. CASE JsonRetry
  BY <1>4, <1>18 DEF JsonRetry, Again
<1>19. CASE JsonFails
  BY <1>5, <1>19 DEF JsonFails, budget, Call!Next
<1>20. CASE Return
  <2>1. /\ UNCHANGED <<args, asked>> /\ pc = "judge" /\ pc' = "done"
        /\ outcome' \in {"text", "parsed"}
    BY <1>20 DEF Return, budget
  <2>2. asked > 0 \/ Limit = 0
    <3>1. asked > 0 \/ args.rounds = -1
      BY <2>1 DEF BudgetInv
    <3>2. args.loops \in Nat /\ args.jsons \in Nat
      BY <1>1, ArgumentTypes
    <3> QED BY <3>1, <3>2 DEF Limit
  <2> QED BY <1>3, <2>1, <2>2 DEF Call!Next, Call!Answer, Status
<1>21. CASE Cancel
  BY <1>5, <1>21 DEF Cancel, budget, Call!Next
<1>22. CASE UNCHANGED vars
  BY <1>3, <1>22 DEF vars, Call!vars, Status
<1> QED
  BY <1>6, <1>7, <1>8, <1>9, <1>10, <1>11, <1>12, <1>13, <1>14, <1>15, <1>16,
     <1>17, <1>18, <1>19, <1>20, <1>21, <1>22 DEF Next, Step, Ended

(* The generation loop implements the safety half of BoundedCall: it asks  *)
(* only while Limit allows, answers only after asking, and ends once.      *)
THEOREM CallIsBounded == Spec => Call!Safety
BY BudgetInvariant, CallInit, CallNext, PTL DEF Spec, Safety, Call!Safety

-----------------------------------------------------------------------------
(* Why a call ends.  What it has left is four numbers: retries, rounds of  *)
(* the attempt, stages of the round, tool calls of the stage.  Each step   *)
(* uses up one of them and leaves those before it alone, so there is no    *)
(* endless sequence of steps; that there is a step as long as the call has *)
(* not ended, and that it is taken, is the live half of Contract.           *)

Rank == [setup |-> 5, ask |-> 4, wait |-> 3, tools |-> 2, judge |-> 1, done |-> 0]

RetriesLeft == (args.loops - loopUsed) + (args.jsons - jsonUsed)
RoundsLeft == args.rounds + 1 - toolRound
StagesLeft == Rank[pc]
CallsLeft == Len(queue)

Measured == RetriesLeft \in Nat /\ RoundsLeft \in Nat /\ StagesLeft \in Nat /\ CallsLeft \in Nat

ComesCloser ==
  \/ RetriesLeft' < RetriesLeft
  \/ /\ RetriesLeft' = RetriesLeft
     /\ \/ RoundsLeft' < RoundsLeft
        \/ /\ RoundsLeft' = RoundsLeft
           /\ StagesLeft' < StagesLeft \/ (StagesLeft' = StagesLeft /\ CallsLeft' < CallsLeft)

LEMMA RankType == /\ \A s \in Pcs : Rank[s] \in Nat
                  /\ Rank["setup"] = 5 /\ Rank["ask"] = 4 /\ Rank["wait"] = 3
                  /\ Rank["tools"] = 2 /\ Rank["judge"] = 1 /\ Rank["done"] = 0
BY DEF Rank, Pcs

LEMMA TypesMeasured == TypeOK => Measured
<1> SUFFICES ASSUME TypeOK PROVE Measured
  OBVIOUS
<1>1. /\ args.rounds \in Int /\ args.loops \in Nat /\ args.jsons \in Nat
      /\ args.rounds \in Nat \cup {-1}
  BY ArgumentTypes
<1>2. RetriesLeft \in Nat
  <2>1. loopUsed \in 0..args.loops /\ jsonUsed \in 0..args.jsons
    BY DEF TypeOK
  <2>2. args.loops - loopUsed \in Nat /\ args.jsons - jsonUsed \in Nat
    BY <1>1, <2>1
  <2> QED BY <2>2 DEF RetriesLeft
<1>3. RoundsLeft \in Nat
  BY <1>1 DEF TypeOK, RoundsLeft
<1>4. StagesLeft \in Nat
  BY RankType DEF TypeOK, StagesLeft
<1>5. CallsLeft \in Nat
  BY DEF TypeOK, CallsLeft
<1> QED BY <1>2, <1>3, <1>4, <1>5 DEF Measured

LEMMA StepComesCloser == TypeOK /\ [Next]_vars /\ vars' # vars => ComesCloser
<1> SUFFICES ASSUME TypeOK, Next, vars' # vars PROVE ComesCloser
  OBVIOUS
<1>1. /\ args.rounds \in Int /\ args.loops \in Nat /\ args.jsons \in Nat
  BY ArgumentTypes
<1>2. /\ loopUsed \in 0..args.loops /\ jsonUsed \in 0..args.jsons /\ toolRound \in Nat
      /\ queue \in Seq(ToolCall) /\ pc \in Pcs
  BY DEF TypeOK
<1>3. ASSUME UNCHANGED <<budget, toolRound>>, Rank[pc'] < Rank[pc] PROVE ComesCloser
  BY <1>3 DEF budget, ComesCloser, RetriesLeft, RoundsLeft, StagesLeft
<1>4. CASE Setup \/ SetupFails \/ Send \/ NoRequest \/ TransportFails
           \/ LoopFails \/ JsonFails \/ Return
  <2>1. UNCHANGED <<budget, toolRound>>
    BY <1>4 DEF Setup, SetupFails, Send, NoRequest, TransportFails, LoopFails, JsonFails, Return
  <2>2. Rank[pc'] < Rank[pc]
    BY <1>4, RankType DEF Setup, SetupFails, Send, NoRequest, TransportFails, LoopFails, JsonFails,
                          Return, End
  <2> QED BY <1>3, <2>1, <2>2
<1>5. ASSUME NEW r \in Replies, FinalReply(r) \/ RoundsExhausted(r) \/ ToolReply(r)
      PROVE  ComesCloser
  <2>1. UNCHANGED <<budget, toolRound>>
    BY <1>5 DEF FinalReply, RoundsExhausted, ToolReply
  <2>2. pc = "wait" /\ pc' \in {"judge", "tools", "done"}
    <3>1. CASE FinalReply(r)
      BY <3>1 DEF FinalReply
    <3>2. CASE RoundsExhausted(r)
      BY <3>2 DEF RoundsExhausted, End
    <3>3. CASE ToolReply(r)
      BY <3>3 DEF ToolReply
    <3> QED BY <1>5, <3>1, <3>2, <3>3
  <2>3. Rank[pc'] < Rank[pc]
    BY <2>2, RankType
  <2> QED BY <1>3, <2>1, <2>3
<1>6. CASE RunTool
  <2>1. UNCHANGED <<budget, toolRound, pc>> /\ queue # <<>> /\ queue' = Tail(queue)
    BY <1>6 DEF RunTool
  <2>2. CallsLeft' < CallsLeft
    BY <1>2, <2>1 DEF CallsLeft
  <2> QED BY <2>1, <2>2 DEF budget, ComesCloser, RetriesLeft, RoundsLeft, StagesLeft
<1>7. CASE FinishTools
  <2>1. UNCHANGED budget /\ toolRound' = toolRound + 1
    BY <1>7 DEF FinishTools
  <2>2. RoundsLeft' < RoundsLeft /\ RetriesLeft' = RetriesLeft
    BY <1>1, <1>2, <2>1 DEF budget, RoundsLeft, RetriesLeft
  <2> QED BY <2>2 DEF ComesCloser
<1>8. CASE LoopRetry \/ JsonRetry
  <2>1. /\ args' = args
        /\ \/ loopUsed' = loopUsed + 1 /\ jsonUsed' = jsonUsed
           \/ loopUsed' = loopUsed /\ jsonUsed' = jsonUsed + 1
    BY <1>8 DEF LoopRetry, JsonRetry, Again
  <2>2. RetriesLeft' < RetriesLeft
    BY <1>1, <1>2, <2>1 DEF RetriesLeft
  <2> QED BY <2>2 DEF ComesCloser
<1>9. CASE Cancel
  <2>1. UNCHANGED <<budget, toolRound>> /\ pc # "done" /\ pc' = "done"
    BY <1>9 DEF Cancel, End
  <2>2. Rank[pc'] < Rank[pc]
    BY <1>2, <2>1, RankType DEF Pcs
  <2> QED BY <1>3, <2>1, <2>2
<1>10. ~Ended
  BY DEF Ended
<1> QED BY <1>4, <1>5, <1>6, <1>7, <1>8, <1>9, <1>10 DEF Next, Step

(* Whatever the model answers, tools do and fails, every step of a call    *)
(* uses up something it has only a natural number of.                      *)
THEOREM EveryStepComesCloser == Spec => []Measured /\ [][ComesCloser]_vars
<1>1. TypeOK /\ [Next]_vars => [ComesCloser]_vars
  BY StepComesCloser
<1> QED BY <1>1, InitTypeOK, NextTypeOK, TypesMeasured, PTL DEF Spec, Safety

-----------------------------------------------------------------------------
(* The loop guard.  Found is a recursive function over the positions of    *)
(* the text, so what it returns is an induction as well.                   *)

(* A scan of L positions that keeps a value of S: it exists, it satisfies  *)
(* its equations, and they leave no choice.                                *)
Scan(g, S, z, step, n) ==
  /\ g \in [0..n -> S]
  /\ g[0] = z
  /\ \A i \in 1..n : g[i] = step[<<g[i - 1], i>>]

LEMMA ScanExists ==
  ASSUME NEW L \in Nat, NEW S, NEW z \in S, NEW step \in [S \X (1..L) -> S]
  PROVE  \E g : Scan(g, S, z, step, L)
<1> DEFINE T == {n \in 0..L : \E g : Scan(g, S, z, step, n)}
<1>1. 0 \in T
  <2>1. Scan([i \in 0..0 |-> z], S, z, step, 0)
    BY DEF Scan
  <2> QED BY <2>1
<1>2. ASSUME NEW n \in 0..(L - 1), n \in T PROVE n + 1 \in T
  <2>1. PICK g : Scan(g, S, z, step, n)
    BY <1>2
  <2> DEFINE h == [i \in 0..(n + 1) |-> IF i = n + 1 THEN step[<<g[n], n + 1>>] ELSE g[i]]
  <2>2. h \in [0..(n + 1) -> S]
    BY <2>1 DEF Scan
  <2>3. h[0] = z /\ \A i \in 0..n : h[i] = g[i]
    BY <2>1 DEF Scan
  <2>4. \A i \in 1..(n + 1) : h[i] = step[<<h[i - 1], i>>]
    <3> TAKE i \in 1..(n + 1)
    <3>1. CASE i = n + 1
      <4>1. i - 1 = n /\ h[n] = g[n]
        BY <3>1, <2>3
      <4>2. h[i] = step[<<g[n], n + 1>>]
        BY <3>1
      <4> QED BY <4>1, <4>2, <3>1
    <3>2. CASE i \in 1..n
      BY <3>2, <2>1, <2>3 DEF Scan
    <3> QED BY <3>1, <3>2
  <2>5. Scan(h, S, z, step, n + 1)
    <3> HIDE DEF h
    <3> QED BY <2>2, <2>3, <2>4 DEF Scan
  <2> QED BY <2>5
<1>3. \A n \in 0..L : n \in T
  <2> HIDE DEF T
  <2> QED BY <1>1, <1>2, BoundedInduction
<1> QED BY <1>3

(* The body of the scan of Found, as a function of what has been found.    *)
Grown(t, s, at, i) ==
  IF Occurs(t, s, i) /\ (at = <<>> \/ at[Len(at)] + Len(t) <= i)
  THEN Append(at, i) ELSE at

FoundScan(t, s, f) ==
  /\ f \in [0..Len(s) -> Seq(1..Len(s))]
  /\ f[0] = <<>>
  /\ \A i \in 1..Len(s) : f[i] = Grown(t, s, f[i - 1], i)
  /\ Found(t, s) = f[Len(s)]

LEMMA FoundByScan ==
  ASSUME NEW t, NEW s, Len(s) \in Nat
  PROVE  \E f : FoundScan(t, s, f)
<1> DEFINE L == Len(s)
           S == Seq(1..L)
           step == [x \in S \X (1..L) |-> Grown(t, s, x[1], x[2])]
           found == CHOOSE g : g = [i \in 0..L |->
                      IF i = 0 THEN <<>> ELSE Grown(t, s, g[i - 1], i)]
<1>0. L \in Nat /\ 0 \in 0..L /\ <<>> \in S
  OBVIOUS
<1>1. step \in [S \X (1..L) -> S]
  <2>1. ASSUME NEW at \in S, NEW i \in 1..L PROVE Grown(t, s, at, i) \in S
    BY AppendProperties DEF Grown
  <2> QED BY <2>1
<1>2. PICK g : Scan(g, S, <<>>, step, L)
  <2>1. <<>> \in S
    OBVIOUS
  <2> HIDE DEF step, S, L
  <2>2. L \in Nat
    BY DEF L
  <2> QED BY <1>1, <2>1, <2>2, ScanExists
<1>3. \A i \in 1..L : g[i] = Grown(t, s, g[i - 1], i)
  <2> TAKE i \in 1..L
  <2>0. i - 1 \in 0..L
    BY <1>0
  <2>1. g[i - 1] \in S /\ g[i] = step[<<g[i - 1], i>>]
    <3> HIDE DEF step, S, L
    <3> QED BY <1>2, <2>0 DEF Scan
  <2> HIDE DEF S
  <2> QED BY <2>1
<1>35. g = [i \in 0..L |-> IF i = 0 THEN <<>> ELSE Grown(t, s, g[i - 1], i)]
  <2>1. g = [i \in 0..L |-> g[i]] /\ g[0] = <<>>
    BY <1>2 DEF Scan
  <2>2. \A i \in 0..L : i = 0 \/ i \in 1..L
    BY <1>0
  <2> HIDE DEF L
  <2>3. \A i \in 0..L : g[i] = IF i = 0 THEN <<>> ELSE Grown(t, s, g[i - 1], i)
    BY <1>3, <2>1, <2>2
  <2> QED BY <2>1, <2>3
<1>4. found = [i \in 0..L |-> IF i = 0 THEN <<>> ELSE Grown(t, s, found[i - 1], i)]
  BY <1>35
<1>5. Found(t, s) = found[L]
  BY DEF Found, Grown
<1>6. FoundScan(t, s, found)
  <2> HIDE DEF found, S, L
  <2>0. found[0] = <<>>
    BY <1>0, <1>4
  <2>1. \A i \in 1..L : found[i] = Grown(t, s, found[i - 1], i)
    <3> TAKE i \in 1..L
    <3>1. i \in 0..L /\ i # 0
      BY <1>0
    <3> QED BY <1>4, <3>1
  <2> DEFINE K == {n \in 0..L : found[n] \in S}
  <2>2. 0 \in K
    BY <1>0, <2>0
  <2>3. ASSUME NEW n \in 0..(L - 1), n \in K PROVE n + 1 \in K
    <3>1. n + 1 \in 1..L /\ (n + 1) - 1 = n
      BY <1>0
    <3>2. found[n + 1] = Grown(t, s, found[n], n + 1) /\ found[n] \in S
      BY <2>1, <2>3, <3>1
    <3>3. Append(found[n], n + 1) \in S
      BY <3>1, <3>2, AppendProperties DEF S
    <3> QED BY <3>1, <3>2, <3>3 DEF Grown
  <2>4. \A n \in 0..L : n \in K
    <3> HIDE DEF K
    <3> QED BY <1>0, <2>2, <2>3, BoundedInduction
  <2>5. found \in [0..L -> S]
    BY <1>4, <2>4
  <2> QED BY <1>5, <2>0, <2>1, <2>5 DEF FoundScan, S, L
<1> QED BY <1>6

(* b goes on where a ends.                                                 *)
Extends(a, b) ==
  /\ Len(a) \in Nat /\ Len(b) \in Nat
  /\ Len(a) <= Len(b)
  /\ \A k \in 1..Len(a) : b[k] = a[k]

(* What a scan has collected it keeps.                                     *)
LEMMA ScanKeeps ==
  ASSUME NEW L \in Nat, NEW S, NEW f \in [0..L -> Seq(S)],
         \A i \in 1..L : f[i] = f[i - 1] \/ \E x \in S : f[i] = Append(f[i - 1], x),
         NEW i \in 0..L, NEW j \in i..L
  PROVE  Extends(f[i], f[j])
<1> DEFINE T == {n \in 0..L : n >= i => Extends(f[i], f[n])}
<1>1. \A n \in 0..L : f[n] \in Seq(S) /\ Len(f[n]) \in Nat
  OBVIOUS
<1>2. Extends(f[i], f[i])
  BY <1>1 DEF Extends
<1>3. 0 \in T
  BY <1>2
<1>4. ASSUME NEW n \in 0..(L - 1), n \in T PROVE n + 1 \in T
  <2>1. n \in 0..L /\ n + 1 \in 1..L /\ n + 1 \in 0..L /\ (n + 1) - 1 = n
    OBVIOUS
  <2>2. SUFFICES ASSUME n + 1 >= i, n + 1 # i PROVE Extends(f[i], f[n + 1])
    BY <1>2, <2>1
  <2>3. Extends(f[i], f[n])
    BY <1>4, <2>1, <2>2
  <2>4. CASE f[n + 1] = f[n]
    BY <2>3, <2>4
  <2>5. ASSUME NEW x \in S, f[n + 1] = Append(f[n], x) PROVE Extends(f[i], f[n + 1])
    <3>1. /\ Len(f[n + 1]) = Len(f[n]) + 1
          /\ \A k \in 1..Len(f[n]) : f[n + 1][k] = f[n][k]
      BY <1>1, <2>1, <2>5, AppendProperties
    <3> QED BY <1>1, <2>1, <2>3, <3>1 DEF Extends
  <2>6. f[n + 1] = f[n] \/ \E x \in S : f[n + 1] = Append(f[n], x)
    BY <2>1
  <2> QED BY <2>4, <2>5, <2>6
<1>5. \A n \in 0..L : n \in T
  <2> HIDE DEF T
  <2> QED BY <1>3, <1>4, BoundedInduction
<1>6. j \in 0..L /\ j >= i
  OBVIOUS
<1> QED BY <1>5, <1>6

(* Places where t occurs in s, no two of them overlapping.                 *)
Apart(t, s, p) ==
  /\ p \in Seq(1..Len(s))
  /\ \A k \in 1..Len(p) : Occurs(t, s, p[k])
  /\ \A k \in 1..(Len(p) - 1) : p[k] + Len(t) <= p[k + 1]

LEMMA FoundApart ==
  ASSUME NEW t, Len(t) \in Nat, NEW s, Len(s) \in Nat,
         NEW f, FoundScan(t, s, f), NEW n \in 0..Len(s)
  PROVE  Apart(t, s, f[n]) /\ \A k \in 1..Len(f[n]) : f[n][k] <= n
<1> DEFINE L == Len(s)
           Good(m) == Apart(t, s, f[m]) /\ \A k \in 1..Len(f[m]) : f[m][k] <= m
           T == {m \in 0..L : Good(m)}
<1>1. \A m \in 0..L : f[m] \in Seq(1..L) /\ Len(f[m]) \in Nat
  BY DEF FoundScan
<1>2. 0 \in T
  BY <1>1 DEF FoundScan, Apart
<1>3. ASSUME NEW m \in 0..(L - 1), m \in T PROVE m + 1 \in T
  <2> DEFINE a == f[m]
             b == f[m + 1]
  <2>1. m \in 0..L /\ m + 1 \in 1..L /\ m + 1 \in 0..L /\ (m + 1) - 1 = m
    OBVIOUS
  <2>2. Good(m)
    BY <1>3
  <2>3. b = Grown(t, s, a, m + 1)
    BY <2>1 DEF FoundScan
  <2>4. a \in Seq(1..L) /\ b \in Seq(1..L) /\ Len(a) \in Nat /\ Len(b) \in Nat
    BY <1>1, <2>1
  <2>5. CASE b = a
    <3>1. \A k \in 1..Len(a) : a[k] \in 1..L
      BY <2>4, ElementOfSeq
    <3> QED BY <2>1, <2>2, <2>4, <2>5, <3>1
  <2>6. CASE /\ b = Append(a, m + 1)
             /\ Occurs(t, s, m + 1)
             /\ a = <<>> \/ a[Len(a)] + Len(t) <= m + 1
    <3>1. /\ Len(b) = Len(a) + 1
          /\ \A k \in 1..Len(a) : b[k] = a[k]
          /\ b[Len(b)] = m + 1
      BY <2>1, <2>4, <2>6, AppendProperties
    <3>2. \A k \in 1..Len(a) : a[k] \in 1..L
      BY <2>4, ElementOfSeq
    <3>3. ASSUME NEW k \in 1..Len(b) PROVE Occurs(t, s, b[k]) /\ b[k] <= m + 1
      <4>1. CASE k = Len(b)
        BY <3>1, <2>6, <4>1
      <4>2. CASE k \in 1..Len(a)
        <5>1. Occurs(t, s, a[k]) /\ a[k] <= m /\ b[k] = a[k] /\ a[k] \in 1..L
          BY <2>2, <3>1, <3>2, <4>2 DEF Apart
        <5> QED BY <2>1, <5>1
      <4> QED BY <2>4, <3>1, <4>1, <4>2
    <3>4. ASSUME NEW k \in 1..(Len(b) - 1) PROVE b[k] + Len(t) <= b[k + 1]
      <4>1. CASE k = Len(a)
        <5>1. a # <<>>
          BY <2>4, <3>1, <4>1
        <5> QED BY <2>6, <3>1, <4>1, <5>1
      <4>2. CASE k \in 1..(Len(a) - 1)
        <5>1. k \in 1..Len(a) /\ k + 1 \in 1..Len(a)
          BY <2>4, <4>2
        <5> QED BY <2>2, <3>1, <4>2, <5>1 DEF Apart
      <4> QED BY <2>4, <3>1, <4>1, <4>2
    <3>5. Apart(t, s, b)
      BY <2>4, <3>3, <3>4 DEF Apart
    <3>6. \A k \in 1..Len(b) : b[k] <= m + 1
      BY <3>3
    <3> QED BY <2>1, <3>5, <3>6
  <2> QED BY <2>3, <2>5, <2>6 DEF Grown
<1>4. \A m \in 0..L : m \in T
  <2> HIDE DEF T
  <2> QED BY <1>2, <1>3, BoundedInduction
<1> QED BY <1>4

LEMMA FoundExtends ==
  ASSUME NEW t, Len(t) \in Nat, NEW s, Len(s) \in Nat,
         NEW f, FoundScan(t, s, f), NEW i \in 0..Len(s), NEW j \in i..Len(s)
  PROVE  Extends(f[i], f[j])
<1>1. f \in [0..Len(s) -> Seq(1..Len(s))]
  BY DEF FoundScan
<1>2. \A n \in 1..Len(s) :
        f[n] = f[n - 1] \/ \E x \in 1..Len(s) : f[n] = Append(f[n - 1], x)
  BY DEF FoundScan, Grown
<1> QED BY <1>1, <1>2, ScanKeeps

LEMMA FoundKeepsUp ==
  ASSUME NEW t, Len(t) \in Nat \ {0}, NEW s, Len(s) \in Nat,
         NEW f, FoundScan(t, s, f), NEW p, Apart(t, s, p),
         NEW n \in 1..Len(p)
  PROVE  Len(f[p[n]]) >= n
<1> DEFINE T == {m \in 0..Len(p) : m > 0 => Len(f[p[m]]) >= m}
<1>0. Len(p) \in Nat /\ \A k \in 1..Len(p) : p[k] \in 1..Len(s) /\ Occurs(t, s, p[k])
  BY ElementOfSeq DEF Apart
<1>1. 0 \in T
  BY <1>0
<1>2. \A k \in 0..Len(s) : f[k] \in Seq(1..Len(s)) /\ Len(f[k]) \in Nat
  BY DEF FoundScan
<1>3. ASSUME NEW m \in 0..(Len(p) - 1), m \in T PROVE m + 1 \in T
  <2> DEFINE i == p[m + 1]
             a == f[i - 1]
             b == f[i]
  <2>1. /\ m + 1 \in 1..Len(p) /\ m + 1 \in 0..Len(p)
        /\ i \in 1..Len(s) /\ i \in 0..Len(s) /\ i - 1 \in 0..Len(s)
        /\ Occurs(t, s, i)
    BY <1>0
  <2>2. b = Grown(t, s, a, i) /\ Len(a) \in Nat /\ Len(b) \in Nat /\ a \in Seq(1..Len(s))
    BY <1>2, <2>1 DEF FoundScan
  <2>3. Len(Append(a, i)) = Len(a) + 1
    BY <2>1, <2>2, AppendProperties
  <2>4. SUFFICES Len(b) >= m + 1
    BY <2>1
  <2>6. b = a \/ b = Append(a, i)
    BY <2>2 DEF Grown
  <2>7. CASE Len(a) > m
    <3> HIDE DEF a, b, i
    <3> QED BY <2>2, <2>3, <2>6, <2>7
  <2>8. CASE m = 0 /\ Len(a) = 0
    <3>1. a = <<>>
      BY <2>2, <2>8, EmptySeq
    <3>2. b = Append(a, i)
      BY <2>1, <2>2, <3>1 DEF Grown
    <3> HIDE DEF a, b, i
    <3> QED BY <2>2, <2>3, <2>8, <3>2
  <2>5. CASE m > 0 /\ Len(a) <= m
    <3> DEFINE j == p[m]
               c == f[j]
    <3>1. m \in 1..Len(p) /\ m \in 1..(Len(p) - 1)
      BY <1>0, <2>5
    <3>2. j \in 1..Len(s) /\ j + Len(t) <= i
      BY <1>0, <3>1 DEF Apart
    <3>3. j \in 0..Len(s) /\ i - 1 \in j..Len(s)
      BY <2>1, <3>2
    <3>4. Extends(c, a)
      BY <3>3, FoundExtends
    <3>5. Len(c) >= m
      BY <1>3, <2>5
    <3>6. \A k \in 1..Len(c) : c[k] <= j
      BY <3>3, FoundApart
    <3>7. Len(a) = m /\ Len(c) = m /\ a[m] = c[m] /\ c[m] <= j
      <4> HIDE DEF a, c, i, j
      <4> QED BY <2>2, <2>5, <3>1, <3>4, <3>5, <3>6 DEF Extends
    <3>8. a[m] \in 1..Len(s)
      BY <2>2, <3>1, <3>7, ElementOfSeq
    <3>9. a[Len(a)] + Len(t) <= i
      <4> HIDE DEF a, c, i, j
      <4> QED BY <2>1, <3>2, <3>7, <3>8
    <3>10. b = Append(a, i)
      <4> HIDE DEF a, b, i
      <4> QED BY <2>1, <2>2, <3>9 DEF Grown
    <3> HIDE DEF a, b, i
    <3> QED BY <2>2, <2>3, <3>7, <3>10
  <2> HIDE DEF a, b, i
  <2> QED BY <2>2, <2>5, <2>7, <2>8
<1>4. \A m \in 0..Len(p) : m \in T
  <2> HIDE DEF T
  <2> QED BY <1>0, <1>1, <1>3, BoundedInduction
<1> QED BY <1>0, <1>4

(* s.count(t) counts as many places as there are that do not overlap.      *)
THEOREM CountIsMost ==
  ASSUME NEW t, Len(t) \in Nat \ {0}, NEW s, Len(s) \in Nat
  PROVE  /\ Apart(t, s, Found(t, s))
         /\ \A p : Apart(t, s, p) => Len(p) <= Len(Found(t, s))
<1>1. PICK f : FoundScan(t, s, f)
  BY FoundByScan
<1>2. Found(t, s) = f[Len(s)] /\ Len(s) \in 0..Len(s)
  BY <1>1 DEF FoundScan
<1>3. Apart(t, s, f[Len(s)])
  BY <1>1, <1>2, FoundApart
<1>4. ASSUME NEW p, Apart(t, s, p) PROVE Len(p) <= Len(f[Len(s)])
  <2>1. Len(p) \in Nat /\ Len(f[Len(s)]) \in Nat
    BY <1>3, <1>4 DEF Apart
  <2>2. CASE Len(p) = 0
    BY <2>1, <2>2
  <2>3. CASE Len(p) > 0
    <3> DEFINE i == p[Len(p)]
    <3>1. Len(p) \in 1..Len(p)
      BY <2>1, <2>3
    <3>2. i \in 1..Len(s)
      BY <1>4, <3>1, ElementOfSeq DEF Apart
    <3>3. i \in 0..Len(s) /\ Len(s) \in i..Len(s)
      BY <3>2
    <3>4. Extends(f[i], f[Len(s)])
      BY <1>1, <3>3, FoundExtends
    <3>5. Len(f[i]) >= Len(p)
      BY <1>1, <1>4, <3>1, FoundKeepsUp
    <3> QED BY <2>1, <3>4, <3>5 DEF Extends
  <2> QED BY <2>1, <2>2, <2>3
<1> QED BY <1>2, <1>3, <1>4

LEMMA FromFacts ==
  ASSUME NEW S, NEW s \in Seq(S), NEW n \in Nat \ {0}
  PROVE  /\ From(s, n) \in Seq(S)
         /\ Len(From(s, n)) = IF Len(s) > n THEN n ELSE Len(s)
         /\ \A i \in 1..Len(From(s, n)) :
              From(s, n)[i] = s[Len(s) - Len(From(s, n)) + i]
<1> DEFINE a == IF Len(s) > n THEN Len(s) - n + 1 ELSE 1
<1>1. Len(s) \in Nat /\ a \in Nat \ {0}
  OBVIOUS
<1>2. \A i \in a..Len(s) : i \in 1..Len(s)
  BY <1>1
<1>3. \A i \in a..Len(s) : s[i] \in S
  BY <1>2, ElementOfSeq
<1>4. /\ SubSeq(s, a, Len(s)) \in Seq(S)
      /\ Len(SubSeq(s, a, Len(s))) = IF a <= Len(s) THEN Len(s) - a + 1 ELSE 0
      /\ \A i \in 1..(Len(s) - a + 1) : SubSeq(s, a, Len(s))[i] = s[a + i - 1]
  BY <1>1, <1>2, SubSeqProperties
<1>5. From(s, n) = SubSeq(s, a, Len(s))
  BY DEF From
<1> DEFINE w == SubSeq(s, a, Len(s))
<1>6. Len(w) = (IF Len(s) > n THEN n ELSE Len(s)) /\ Len(s) - Len(w) = a - 1
  <2>1. Len(w) = IF a <= Len(s) THEN Len(s) - a + 1 ELSE 0
    BY <1>4
  <2>2. CASE Len(s) > n
    <3>1. a = Len(s) - n + 1
      BY <2>2
    <3> HIDE DEF a, w
    <3> QED BY <1>1, <2>1, <2>2, <3>1
  <2>3. CASE ~(Len(s) > n)
    <3>1. a = 1
      BY <2>3
    <3> HIDE DEF a, w
    <3> QED BY <1>1, <2>1, <2>3, <3>1
  <2> QED BY <2>2, <2>3
<1>65. Len(w) \in Nat
  BY <1>1, <1>6
<1>7. \A i \in 1..Len(w) : w[i] = s[Len(s) - Len(w) + i]
  <2> TAKE i \in 1..Len(w)
  <2>1. i \in 1..(Len(s) - a + 1) /\ Len(s) - Len(w) + i = a + i - 1
    <3> DEFINE l == Len(s)
               k == Len(w)
    <3>1. l \in Nat /\ k \in Nat /\ a \in Nat /\ l - k = a - 1 /\ i \in 1..k
      BY <1>1, <1>6, <1>65
    <3>2. i \in 1..(l - a + 1) /\ l - k + i = a + i - 1
      <4> HIDE DEF a, w, l, k
      <4> QED BY <3>1
    <3> QED BY <3>2
  <2> HIDE DEF a
  <2> QED BY <1>4, <2>1
<1> HIDE DEF a, w
<1> QED BY <1>4, <1>5, <1>6, <1>7 DEF w

LEMMA OccursPointwise ==
  ASSUME NEW S, NEW t \in Seq(S), NEW s \in Seq(S), NEW i \in 1..Len(s),
         i + Len(t) - 1 <= Len(s),
         \A k \in 1..Len(t) : s[i + k - 1] = t[k]
  PROVE  Occurs(t, s, i)
<1>1. Len(s) \in Nat /\ Len(t) \in Nat
  OBVIOUS
<1> DEFINE j == i + Len(t) - 1
<1>2. \A k \in i..j : k \in 1..Len(s)
  BY <1>1
<1>3. /\ SubSeq(s, i, j) \in Seq(S)
      /\ Len(SubSeq(s, i, j)) = IF i <= j THEN j - i + 1 ELSE 0
      /\ \A k \in 1..(j - i + 1) : SubSeq(s, i, j)[k] = s[i + k - 1]
  BY <1>1, <1>2, SubSeqProperties
<1>4. Len(SubSeq(s, i, j)) = Len(t) /\ j - i + 1 = Len(t)
  BY <1>1, <1>3
<1>5. SubSeq(s, i, j) = t
  <2> HIDE DEF j
  <2> QED BY <1>1, <1>3, <1>4, SeqEqual
<1> QED BY <1>5 DEF Occurs

(* The last r characters of s repeat every p.                              *)
Periodic(s, r, p) == \A i \in 1..Len(s) : i > Len(s) - r + p => s[i] = s[i - p]

LEMMA PeriodicMultiple ==
  ASSUME NEW s, Len(s) \in Nat, NEW r \in Nat, r <= Len(s), NEW p \in Nat,
         Periodic(s, r, p), NEW m \in Nat
  PROVE  Periodic(s, r, m * p)
<1> DEFINE T == {n \in 0..m : Periodic(s, r, n * p)}
<1>1. 0 \in T
  BY DEF Periodic
<1>2. ASSUME NEW n \in 0..(m - 1), n \in T PROVE n + 1 \in T
  <2>0. n \in Nat /\ n + 1 \in 0..m
    OBVIOUS
  <2> DEFINE np == n * p
  <2>1. np \in Nat /\ (n + 1) * p = np + p
    BY <2>0
  <2>2. Periodic(s, r, np)
    BY <1>2
  <2>3. ASSUME NEW i \in 1..Len(s), i > Len(s) - r + (np + p)
        PROVE  s[i] = s[i - (np + p)]
    <3> HIDE DEF np
    <3>1. s[i] = s[i - p]
      BY <2>1, <2>3 DEF Periodic
    <3>2. i - p \in 1..Len(s) /\ i - p > Len(s) - r + np /\ (i - p) - np = i - (np + p)
      BY <2>1, <2>3
    <3>3. s[i - p] = s[(i - p) - np]
      BY <2>2, <3>2 DEF Periodic
    <3> QED BY <3>1, <3>2, <3>3
  <2>4. Periodic(s, r, (n + 1) * p)
    <3> HIDE DEF np
    <3> QED BY <2>1, <2>3 DEF Periodic
  <2> QED BY <2>0, <2>4
<1>3. \A n \in 0..m : n \in T
  <2> HIDE DEF T
  <2> QED BY <1>1, <1>2, BoundedInduction
<1>4. m \in 0..m
  OBVIOUS
<1> QED BY <1>3, <1>4

(* The sequence detector is exact: it reports a text if and only if the    *)
(* last window stands in its lookback often enough without overlapping.    *)
THEOREM SequenceLoopIsRepetition ==
  ASSUME NEW S, NEW s \in Seq(S)
  PROVE  SequenceLoop(s) <=>
           /\ Len(s) >= 2 * Window
           /\ \E p : /\ Apart(From(s, Window), From(s, Lookback), p)
                     /\ Len(p) >= MinHits /\ Len(p) * Window >= MinSum
<1> DEFINE t == From(s, Window)
           tail == From(s, Lookback)
           count == Len(Found(t, tail))
<1>0. /\ Window \in Nat \ {0} /\ MinSum \in Nat /\ Lookback \in Nat \ {0} /\ MinHits \in Nat
      /\ Lookback >= 2 * Window
  BY ThresholdsAssumption
<1>1. Len(s) \in Nat /\ Len(t) \in Nat /\ Len(tail) \in Nat
  BY <1>0, FromFacts
<1>2. SUFFICES ASSUME Len(s) >= 2 * Window
               PROVE  count >= MinHits /\ count * Window >= MinSum <=>
                        \E p : Apart(t, tail, p) /\ Len(p) >= MinHits /\ Len(p) * Window >= MinSum
  BY DEF SequenceLoop
<1>3. Len(t) \in Nat \ {0}
  BY <1>0, <1>1, <1>2, FromFacts
<1>4. Apart(t, tail, Found(t, tail)) /\ \A p : Apart(t, tail, p) => Len(p) <= count
  <2> HIDE DEF t, tail
  <2> QED BY <1>1, <1>3, CountIsMost
<1>5. count \in Nat
  BY <1>4 DEF Apart
<1>6. ASSUME NEW p, Apart(t, tail, p), Len(p) >= MinHits, Len(p) * Window >= MinSum
      PROVE  count >= MinHits /\ count * Window >= MinSum
  <2>1. Len(p) \in Nat /\ Len(p) <= count
    <3> HIDE DEF t, tail
    <3>1. p \in Seq(1..Len(tail))
      BY <1>6 DEF Apart
    <3> QED BY <1>4, <1>6, <3>1
  <2> DEFINE n == Len(p)
  <2> HIDE DEF count, n
  <2>2. n \in Nat /\ n <= count /\ n >= MinHits /\ n * Window >= MinSum
    BY <1>6, <2>1 DEF n
  <2>3. n * Window <= count * Window
    BY <1>0, <1>5, <2>2
  <2>4. n * Window \in Nat /\ count * Window \in Nat
    BY <1>0, <1>5, <2>2
  <2> QED BY <1>0, <1>5, <2>2, <2>3, <2>4
<1> QED BY <1>4, <1>6

LEMMA RepetitionIsLoop ==
  ASSUME NEW S, NEW s \in Seq(S), NEW h \in Nat, NEW d \in Nat,
         h >= MinHits, h * Window >= MinSum, d >= Window,
         Stretch(h, d) <= Lookback, Stretch(h, d) <= Len(s),
         Periodic(s, Stretch(h, d), d)
  PROVE  SequenceLoop(s)
<1> DEFINE t == From(s, Window)
           tail == From(s, Lookback)
           M == Len(tail)
           L == Len(s)
           r == Stretch(h, d)
           p == [k \in 1..h |-> M - Window + 1 - (h - k) * d]
<1>0. /\ Window \in Nat \ {0} /\ Lookback \in Nat \ {0} /\ MinHits \in Nat /\ MinHits >= 2
      /\ Lookback >= 2 * Window
  BY ThresholdsAssumption
<1>1. L \in Nat /\ r \in Nat /\ r = (h - 1) * d + Window /\ (h - 1) * d \in Nat
  BY <1>0 DEF Stretch
<1>2. \A k \in 1..h : /\ (h - k) * d \in Nat
                      /\ (h - k) * d <= (h - 1) * d
  <2> TAKE k \in 1..h
  <2>1. h - k \in Nat /\ k - 1 \in Nat /\ h - 1 = (h - k) + (k - 1)
    OBVIOUS
  <2>2. (h - 1) * d = (h - k) * d + (k - 1) * d
    BY <2>1
  <2>3. (h - k) * d \in Nat /\ (k - 1) * d \in Nat
    BY <2>1
  <2> QED BY <1>1, <2>2, <2>3
<1>3. d <= (h - 1) * d
  <2>1. h - 2 \in Nat /\ (h - 2) * d \in Nat
    BY <1>0
  <2>2. (h - 1) * d = (h - 2) * d + d
    BY <1>0
  <2> QED BY <2>1, <2>2
<1>4. L >= 2 * Window
  BY <1>0, <1>1, <1>3
<1>5. /\ t \in Seq(S) /\ Len(t) = Window
      /\ \A x \in 1..Window : t[x] = s[L - Window + x]
  <2>1. /\ t \in Seq(S)
        /\ Len(t) = IF L > Window THEN Window ELSE L
        /\ \A x \in 1..Len(t) : t[x] = s[L - Len(t) + x]
    BY <1>0, FromFacts
  <2> HIDE DEF t, L, r
  <2>2. Len(t) = Window
    BY <1>0, <1>1, <1>4, <2>1
  <2> QED BY <2>1, <2>2
<1>6. /\ tail \in Seq(S) /\ M \in Nat /\ M >= r /\ M <= L
      /\ \A x \in 1..M : tail[x] = s[L - M + x]
  <2>1. /\ tail \in Seq(S)
        /\ M = IF L > Lookback THEN Lookback ELSE L
        /\ \A x \in 1..M : tail[x] = s[L - M + x]
    BY <1>0, FromFacts
  <2>2. r <= Lookback /\ r <= L
    OBVIOUS
  <2> HIDE DEF tail, M, L, r
  <2> QED BY <1>0, <1>1, <2>1, <2>2
<1>7. \A k \in 1..h : p[k] = M - Window + 1 - (h - k) * d /\ p[k] \in 1..M
  <2> TAKE k \in 1..h
  <2>1. p[k] = M - Window + 1 - (h - k) * d
    OBVIOUS
  <2> DEFINE e == (h - k) * d
             z == (h - 1) * d
  <2>2. e \in Nat /\ z \in Nat /\ e <= z /\ r = z + Window /\ p[k] = M - Window + 1 - e
    BY <1>1, <1>2, <2>1
  <2> HIDE DEF p, M, L, r, e, z
  <2>3. p[k] \in 1..M
    BY <1>0, <1>6, <2>2
  <2> QED BY <2>1, <2>3
<1>8. p \in Seq(1..M) /\ Len(p) = h
  BY <1>7
<1>9. ASSUME NEW k \in 1..h PROVE Occurs(t, tail, p[k])
  <2> DEFINE e == (h - k) * d
             i == p[k]
  <2>1. e \in Nat /\ e <= (h - 1) * d /\ i = M - Window + 1 - e /\ i \in 1..M
    BY <1>2, <1>7
  <2>2. Periodic(s, r, e)
    <3>1. h - k \in Nat
      OBVIOUS
    <3> QED BY <1>1, <3>1, PeriodicMultiple
  <2>3. ASSUME NEW x \in 1..Window PROVE tail[i + x - 1] = t[x]
    <3> HIDE DEF e, i, r, t, tail, M, L, p
    <3>1. i + x - 1 \in 1..M /\ L - M + (i + x - 1) = (L - Window + x) - e
      BY <1>0, <1>1, <1>6, <2>1
    <3>2. tail[i + x - 1] = s[(L - Window + x) - e]
      BY <1>6, <3>1
    <3>3. L - Window + x \in 1..L /\ L - Window + x > L - r + e
      BY <1>0, <1>1, <1>4, <2>1
    <3>4. s[L - Window + x] = s[(L - Window + x) - e]
      BY <2>2, <3>3 DEF Periodic, L
    <3> QED BY <1>5, <3>2, <3>4
  <2>4. i + Len(t) - 1 <= M
    <3> HIDE DEF e, i, r, t, tail, M, L, p
    <3> QED BY <1>0, <1>5, <1>6, <2>1
  <2> HIDE DEF e, i, r, t, tail, L, p
  <2>5. Occurs(t, tail, i)
    BY <1>5, <1>6, <2>1, <2>3, <2>4, OccursPointwise
  <2> QED BY <2>5 DEF i
<1>10. ASSUME NEW k \in 1..(h - 1) PROVE p[k] + Window <= p[k + 1]
  <2>1. k \in 1..h /\ k + 1 \in 1..h
    OBVIOUS
  <2>2. (h - k) * d = (h - (k + 1)) * d + d
    OBVIOUS
  <2>3. (h - (k + 1)) * d \in Nat
    BY <1>2, <2>1
  <2>4. p[k] = M - Window + 1 - (h - k) * d /\ p[k + 1] = M - Window + 1 - (h - (k + 1)) * d
    BY <1>7, <2>1
  <2> HIDE DEF p, M
  <2> QED BY <1>0, <1>6, <2>2, <2>3, <2>4
<1>11. Apart(t, tail, p)
  <2> HIDE DEF t, tail, p
  <2> QED BY <1>5, <1>8, <1>9, <1>10 DEF Apart
<1> HIDE DEF t, tail, p
<1> QED BY <1>4, <1>8, <1>11, SequenceLoopIsRepetition DEF t, tail

-----------------------------------------------------------------------------
(* A looping text repeats itself.                                          *)

LEMMA ModShift ==
  ASSUME NEW w \in Nat, NEW n \in Nat \ {0}
  PROVE  /\ w % n \in 0..(n - 1) /\ w \div n \in Nat
         /\ (w + n) % n = w % n
         /\ (w + n) \div n = (w \div n) + 1
OBVIOUS

LEMMA Multiple ==
  ASSUME NEW d \in Nat, NEW n \in Nat \ {0}, d % n = 0
  PROVE  \E m \in Nat : d = m * n
<1>1. d \div n \in Nat
  BY ModShift
<1>2. d = (d \div n) * n
  OBVIOUS
<1> QED BY <1>1, <1>2

LEMMA SmallMod ==
  ASSUME NEW n \in Nat \ {0}, NEW w \in 0..(n - 1)
  PROVE  w % n = w
OBVIOUS

(* The digits are strings; the provers take no string for one.             *)
Char == STRING \cup Digits

LEMMA UnitFacts ==
  ASSUME NEW u \in Units
  PROVE  /\ u \in Seq(Char) /\ Len(u) \in Nat \ {0} /\ DOMAIN u = 1..Len(u)
         /\ \A i \in 1..Len(u) : u[i] \in Char /\ u[i] \notin Digits
<1>1. u \in Seq(Char) /\ u # <<>>
  BY LoopsAssumption, SeqMonotonic DEF Char
<1>2. Len(u) \in Nat /\ DOMAIN u = 1..Len(u)
  BY <1>1
<1>3. Len(u) # 0
  BY <1>1, EmptySeq
<1>4. \A i \in DOMAIN u : u[i] \notin Digits
  BY LoopsAssumption
<1> QED BY <1>1, <1>2, <1>3, <1>4, ElementOfSeq

(* What the unit's number is after w characters.                           *)
LEMMA CounterFacts ==
  ASSUME NEW u \in Units, NEW w \in Nat
  PROVE  /\ u[1 + (w % Len(u))] # "#" =>
              /\ Unrolled(u, w) = u[1 + (w % Len(u))]
              /\ Unrolled(u, w) \notin Digits
         /\ u[1 + (w % Len(u))] = "#" => Unrolled(u, w) \in Digits
         /\ Unrolled(u, w) \in Char
         /\ 1 + (w % Len(u)) \in 1..Len(u)
<1> DEFINE n == Len(u)
           i == 1 + (w % n)
           x == (w \div n) % 3
<1>1. n \in Nat \ {0} /\ \A j \in 1..n : u[j] \in Char /\ u[j] \notin Digits
  BY UnitFacts
<1>2. i \in 1..n /\ w \div n \in Nat
  <2>1. w % n \in 0..(n - 1) /\ w \div n \in Nat
    BY <1>1, ModShift
  <2> HIDE DEF n
  <2> QED BY <1>1, <2>1
<1>3. x \in 0..2
  BY <1>2
<1>4. <<"1", "2", "3">>[1 + x] \in {"1", "2", "3"}
  BY <1>3
<1>5. Unrolled(u, w) = IF u[i] # "#" THEN u[i] ELSE <<"1", "2", "3">>[1 + x]
  BY DEF Unrolled
<1> HIDE DEF n, i, x
<1>6. Unrolled(u, w) \in Char
  BY <1>1, <1>2, <1>4, <1>5 DEF Char, Digits
<1>7. u[i] # "#" => Unrolled(u, w) = u[i] /\ Unrolled(u, w) \notin Digits
  BY <1>1, <1>2, <1>5
<1>8. u[i] = "#" => Unrolled(u, w) \in Digits
  BY <1>4, <1>5 DEF Digits
<1> QED BY <1>2, <1>6, <1>7, <1>8 DEF n, i

(* Once round the unit: the same character, or another number.             *)
LEMMA OnceRound ==
  ASSUME NEW u \in Units, NEW w \in Nat
  PROVE  /\ Unrolled(u, w + Len(u)) \in Digits <=> Unrolled(u, w) \in Digits
         /\ Unrolled(u, w) \notin Digits => Unrolled(u, w + Len(u)) = Unrolled(u, w)
<1>1. Len(u) \in Nat \ {0}
  BY UnitFacts
<1>2. w + Len(u) \in Nat
  BY <1>1
<1>3. (w + Len(u)) % Len(u) = w % Len(u)
  BY <1>1, ModShift
<1> DEFINE c == u[1 + (w % Len(u))]
           next == Unrolled(u, w + Len(u))
<1>4. /\ c # "#" => next = c /\ next \notin Digits
      /\ c = "#" => next \in Digits
  BY <1>2, <1>3, CounterFacts
<1>5. /\ c # "#" => Unrolled(u, w) = c /\ Unrolled(u, w) \notin Digits
      /\ c = "#" => Unrolled(u, w) \in Digits
  BY CounterFacts
<1> HIDE DEF c, next
<1>6. /\ next \in Digits <=> Unrolled(u, w) \in Digits
      /\ Unrolled(u, w) \notin Digits => next = Unrolled(u, w)
  BY <1>4, <1>5
<1> QED BY <1>6 DEF next

LEMMA PeriodFacts ==
  ASSUME NEW u \in Units
  PROVE  /\ Period(u) \in Nat \ {0}
         /\ \A w \in Nat : Unrolled(u, w + Period(u)) = Unrolled(u, w)
<1> DEFINE n == Len(u)
<1>1. n \in Nat \ {0} /\ DOMAIN u = 1..n
  BY UnitFacts
<1>2. CASE \E i \in DOMAIN u : u[i] = "#"
  <2>1. Period(u) = 3 * n
    BY <1>2 DEF Period
  <2>2. ASSUME NEW w \in Nat PROVE Unrolled(u, w + 3 * n) = Unrolled(u, w)
    <3> HIDE DEF n
    <3>1. /\ w + n \in Nat /\ w + n + n \in Nat /\ w + 3 * n = w + n + n + n
          /\ w \div n \in Nat
      <4>1. w \div n \in Nat
        BY <1>1, ModShift
      <4> QED BY <1>1, <4>1
    <3>2. /\ (w + n) % n = w % n /\ (w + n) \div n = (w \div n) + 1
          /\ (w + n + n) % n = (w + n) % n /\ (w + n + n) \div n = ((w + n) \div n) + 1
          /\ (w + n + n + n) % n = (w + n + n) % n
          /\ (w + n + n + n) \div n = ((w + n + n) \div n) + 1
      BY <1>1, <3>1, ModShift
    <3> DEFINE x == w \div n
               y == (w + 3 * n) \div n
    <3>3. (w + 3 * n) % n = w % n /\ y = x + 3 /\ x \in Nat
      BY <3>1, <3>2
    <3>4. y % 3 = x % 3
      <4> HIDE DEF x, y
      <4> QED BY <3>3
    <3> DEFINE c == u[1 + (w % n)]
    <3>5. Unrolled(u, w + 3 * n) = IF c # "#" THEN c ELSE <<"1", "2", "3">>[1 + (y % 3)]
      BY <3>3 DEF Unrolled, n
    <3>6. Unrolled(u, w) = IF c # "#" THEN c ELSE <<"1", "2", "3">>[1 + (x % 3)]
      BY DEF Unrolled, n
    <3> HIDE DEF c, x, y
    <3> QED BY <3>4, <3>5, <3>6
  <2> HIDE DEF n
  <2> QED BY <1>1, <2>1, <2>2
<1>3. CASE ~\E i \in DOMAIN u : u[i] = "#"
  <2>1. Period(u) = n
    BY <1>3 DEF Period
  <2>2. ASSUME NEW w \in Nat PROVE Unrolled(u, w + n) = Unrolled(u, w)
    <3>1. 1 + (w % n) \in 1..n
      BY CounterFacts
    <3>2. Unrolled(u, w) \notin Digits
      BY <1>1, <1>3, <3>1, CounterFacts
    <3> QED BY <3>2, OnceRound
  <2> QED BY <1>1, <2>1, <2>2
<1> QED BY <1>2, <1>3

(* b, then u again and again.                                              *)
Looped(b, u, s) ==
  /\ b \in Seq(Char) /\ s \in Seq(Char)
  /\ Len(b) <= Len(s)
  /\ \A i \in (Len(b) + 1)..Len(s) : s[i] = Unrolled(u, i - Len(b) - 1)

LEMMA LoopedPeriodic ==
  ASSUME NEW b, NEW u \in Units, NEW s, Looped(b, u, s),
         NEW r \in Nat, Len(b) + r <= Len(s)
  PROVE  Periodic(s, r, Period(u))
<1> DEFINE P == Period(u)
           B == Len(b)
           L == Len(s)
<1>1. B \in Nat /\ L \in Nat /\ P \in Nat \ {0}
  BY PeriodFacts DEF Looped
<1>2. SUFFICES ASSUME NEW i \in 1..L, i > L - r + P PROVE s[i] = s[i - P]
  BY DEF Periodic
<1> DEFINE w == i - P - B - 1
<1> HIDE DEF P, B, L
<1>3. w \in Nat /\ i \in (B + 1)..L /\ i - P \in (B + 1)..L /\ i - B - 1 = w + P
  BY <1>1, <1>2 DEF B, L
<1>4. s[i] = Unrolled(u, i - B - 1) /\ s[i - P] = Unrolled(u, w)
  BY <1>3 DEF Looped, B, L
<1>5. Unrolled(u, w + P) = Unrolled(u, w)
  BY <1>3, PeriodFacts DEF P
<1> QED BY <1>3, <1>4, <1>5


-----------------------------------------------------------------------------
(* Without its numbers it repeats itself too.                              *)

UndigitedScan(s, f) ==
  /\ f \in [0..Len(s) -> Seq(Char)]
  /\ f[0] = <<>>
  /\ \A i \in 1..Len(s) :
       f[i] = IF s[i] \in Digits THEN f[i - 1] ELSE Append(f[i - 1], s[i])
  /\ Undigited(s) = f[Len(s)]

LEMMA UndigitedByScan ==
  ASSUME NEW s \in Seq(Char)
  PROVE  \E f : UndigitedScan(s, f)
<1> DEFINE L == Len(s)
           S == Seq(Char)
           Next1(at, i) == IF s[i] \in Digits THEN at ELSE Append(at, s[i])
           step == [x \in S \X (1..L) |-> Next1(x[1], x[2])]
           kept == CHOOSE g : g = [i \in 0..L |->
                     IF i = 0 THEN <<>>
                     ELSE IF s[i] \in Digits THEN g[i - 1] ELSE Append(g[i - 1], s[i])]
<1>0. L \in Nat /\ 0 \in 0..L /\ <<>> \in S /\ \A i \in 1..L : s[i] \in Char
  BY ElementOfSeq
<1>1. step \in [S \X (1..L) -> S]
  <2>1. ASSUME NEW at \in S, NEW i \in 1..L PROVE Next1(at, i) \in S
    BY <1>0, AppendProperties
  <2> QED BY <2>1
<1>2. PICK g : Scan(g, S, <<>>, step, L)
  <2> HIDE DEF step, S, L
  <2> QED BY <1>0, <1>1, ScanExists
<1>3. \A i \in 1..L : g[i] = IF s[i] \in Digits THEN g[i - 1] ELSE Append(g[i - 1], s[i])
  <2> TAKE i \in 1..L
  <2>1. i - 1 \in 0..L
    BY <1>0
  <2>2. g[i - 1] \in S /\ g[i] = step[<<g[i - 1], i>>]
    <3> HIDE DEF step, S, L
    <3> QED BY <1>2, <2>1 DEF Scan
  <2> HIDE DEF S
  <2> QED BY <2>2
<1>4. g = [i \in 0..L |->
             IF i = 0 THEN <<>>
             ELSE IF s[i] \in Digits THEN g[i - 1] ELSE Append(g[i - 1], s[i])]
  <2>1. g = [i \in 0..L |-> g[i]] /\ g[0] = <<>>
    BY <1>2 DEF Scan
  <2>2. \A i \in 0..L : g[i] = IF i = 0 THEN <<>>
             ELSE IF s[i] \in Digits THEN g[i - 1] ELSE Append(g[i - 1], s[i])
    BY <1>3, <2>1
  <2> HIDE DEF L
  <2> QED BY <2>1, <2>2
<1>5. kept = [i \in 0..L |->
                IF i = 0 THEN <<>>
                ELSE IF s[i] \in Digits THEN kept[i - 1] ELSE Append(kept[i - 1], s[i])]
  BY <1>4
<1>6. Undigited(s) = kept[L]
  BY DEF Undigited
<1>7. UndigitedScan(s, kept)
  <2> HIDE DEF kept, S, L
  <2>0. kept[0] = <<>>
    BY <1>0, <1>5
  <2>1. \A i \in 1..L : kept[i] = IF s[i] \in Digits THEN kept[i - 1]
                                  ELSE Append(kept[i - 1], s[i])
    <3> TAKE i \in 1..L
    <3>1. i \in 0..L /\ i # 0
      BY <1>0
    <3> QED BY <1>5, <3>1
  <2> DEFINE K == {n \in 0..L : kept[n] \in S}
  <2>2. 0 \in K
    BY <1>0, <2>0
  <2>3. ASSUME NEW n \in 0..(L - 1), n \in K PROVE n + 1 \in K
    <3>1. n + 1 \in 1..L /\ (n + 1) - 1 = n
      BY <1>0
    <3>2. /\ kept[n + 1] = IF s[n + 1] \in Digits THEN kept[n] ELSE Append(kept[n], s[n + 1])
          /\ kept[n] \in S
      BY <2>1, <2>3, <3>1
    <3>3. Append(kept[n], s[n + 1]) \in S
      BY <1>0, <3>1, <3>2, AppendProperties DEF S
    <3> QED BY <3>1, <3>2, <3>3
  <2>4. \A n \in 0..L : n \in K
    <3> HIDE DEF K
    <3> QED BY <1>0, <2>2, <2>3, BoundedInduction
  <2>5. kept \in [0..L -> S]
    BY <1>5, <2>4
  <2> QED BY <1>6, <2>0, <2>1, <2>5 DEF UndigitedScan, S, L
<1> QED BY <1>7

(* How much is kept, character by character.                               *)
LEMMA UndigitedGrows ==
  ASSUME NEW s \in Seq(Char), NEW f, UndigitedScan(s, f)
  PROVE  /\ Len(s) \in Nat
         /\ \A i \in 0..Len(s) : f[i] \in Seq(Char) /\ Len(f[i]) \in Nat
         /\ \A i \in 1..Len(s) :
              /\ i - 1 \in 0..Len(s)
              /\ s[i] \in Digits => f[i] = f[i - 1] /\ Len(f[i]) = Len(f[i - 1])
              /\ s[i] \notin Digits =>
                   /\ Len(f[i]) = Len(f[i - 1]) + 1
                   /\ \A k \in 1..Len(f[i - 1]) : f[i][k] = f[i - 1][k]
                   /\ f[i][Len(f[i])] = s[i]
         /\ \A i \in 0..Len(s) : \A j \in i..Len(s) : Extends(f[i], f[j])
<1> DEFINE L == Len(s)
<1>1. L \in Nat /\ \A i \in 1..L : s[i] \in Char
  BY ElementOfSeq
<1>2. f \in [0..L -> Seq(Char)] /\ \A i \in 0..L : f[i] \in Seq(Char) /\ Len(f[i]) \in Nat
  BY DEF UndigitedScan
<1>3. ASSUME NEW i \in 1..L
      PROVE  /\ i - 1 \in 0..L
             /\ s[i] \in Digits => f[i] = f[i - 1]
             /\ s[i] \notin Digits => f[i] = Append(f[i - 1], s[i])
  <2>1. f[i] = IF s[i] \in Digits THEN f[i - 1] ELSE Append(f[i - 1], s[i])
    BY DEF UndigitedScan
  <2>2. i - 1 \in 0..L
    BY <1>1
  <2> QED BY <2>1, <2>2
<1>4. ASSUME NEW i \in 1..L, s[i] \notin Digits
      PROVE  /\ Len(f[i]) = Len(f[i - 1]) + 1
             /\ \A k \in 1..Len(f[i - 1]) : f[i][k] = f[i - 1][k]
             /\ f[i][Len(f[i])] = s[i]
  <2>1. f[i - 1] \in Seq(Char) /\ s[i] \in Char /\ f[i] = Append(f[i - 1], s[i])
    BY <1>1, <1>2, <1>3, <1>4
  <2> QED BY <2>1, AppendProperties
<1>5. ASSUME NEW i \in 0..L, NEW j \in i..L PROVE Extends(f[i], f[j])
  <2>1. \A n \in 1..L : f[n] = f[n - 1] \/ \E x \in Char : f[n] = Append(f[n - 1], x)
    BY <1>1, <1>3
  <2> HIDE DEF L
  <2> QED BY <1>1, <1>2, <2>1, ScanKeeps
<1> QED BY <1>1, <1>2, <1>3, <1>4, <1>5

LEMMA SaidAgain ==
  ASSUME NEW b, NEW u \in Units, NEW s, Looped(b, u, s),
         NEW i \in (Len(b) + 1)..(Len(s) - Len(u))
  PROVE  /\ i + Len(u) \in (Len(b) + 1)..Len(s)
         /\ s[i + Len(u)] \in Digits <=> s[i] \in Digits
         /\ s[i] \notin Digits => s[i + Len(u)] = s[i]
<1> DEFINE B == Len(b)
           L == Len(s)
           n == Len(u)
           w == i - B - 1
<1>1. B \in Nat /\ L \in Nat /\ n \in Nat \ {0}
  BY UnitFacts DEF Looped
<1>2. w \in Nat /\ i + n \in (B + 1)..L /\ (i + n) - B - 1 = w + n /\ i \in (B + 1)..L
  <2> HIDE DEF B, L, n
  <2> QED BY <1>1 DEF B, L, n
<1>3. s[i] = Unrolled(u, w) /\ s[i + n] = Unrolled(u, w + n)
  <2>1. \A j \in (B + 1)..L : s[j] = Unrolled(u, j - B - 1)
    BY DEF Looped
  <2> HIDE DEF B, L, n
  <2> QED BY <1>2, <2>1
<1>4. /\ Unrolled(u, w + n) \in Digits <=> Unrolled(u, w) \in Digits
      /\ Unrolled(u, w) \notin Digits => Unrolled(u, w + n) = Unrolled(u, w)
  BY <1>2, OnceRound
<1> HIDE DEF w, n
<1> QED BY <1>2, <1>3, <1>4 DEF B, L, n

(* Each round keeps as much as the first.                                  *)
LEMMA RoundsAlike ==
  ASSUME NEW b, NEW u \in Units, NEW s, Looped(b, u, s),
         NEW f, UndigitedScan(s, f), Len(b) + Len(u) <= Len(s),
         NEW i \in Len(b)..(Len(s) - Len(u))
  PROVE  Len(f[i + Len(u)]) - Len(f[i]) = Len(f[Len(b) + Len(u)]) - Len(f[Len(b)])
<1> DEFINE B == Len(b)
           L == Len(s)
           n == Len(u)
           q == Len(f[B + n]) - Len(f[B])
           N == L - n - B
           T == {m \in 0..N : Len(f[B + m + n]) - Len(f[B + m]) = q}
<1>1. B \in Nat /\ L \in Nat /\ n \in Nat \ {0} /\ B + n <= L /\ s \in Seq(Char)
  BY UnitFacts DEF Looped
<1>2. /\ \A j \in 0..L : Len(f[j]) \in Nat
      /\ \A j \in 1..L :
           /\ s[j] \in Digits => Len(f[j]) = Len(f[j - 1])
           /\ s[j] \notin Digits => Len(f[j]) = Len(f[j - 1]) + 1
  BY <1>1, UndigitedGrows
<1>3. \A j \in (B + 1)..(L - n) : s[j + n] \in Digits <=> s[j] \in Digits
  BY SaidAgain
<1>4. N \in Nat /\ i - B \in 0..N /\ B + (i - B) = i
  <2> HIDE DEF B, L, n
  <2> QED BY <1>1 DEF B, L, n
<1> HIDE DEF B, L, n
<1>5. 0 \in T
  BY <1>1, <1>4
<1>6. ASSUME NEW m \in 0..(N - 1), m \in T PROVE m + 1 \in T
  <2> DEFINE j == B + m + 1
  <2>1. /\ j \in (B + 1)..(L - n) /\ j \in 1..L /\ j + n \in 1..L
        /\ j - 1 = B + m /\ (j + n) - 1 = B + m + n /\ m + 1 \in 0..N
        /\ B + (m + 1) = j /\ B + (m + 1) + n = j + n
        /\ B + m \in 0..L /\ B + m + n \in 0..L
    BY <1>1, <1>4
  <2> HIDE DEF j
  <2>2. Len(f[B + m + n]) - Len(f[B + m]) = q
    BY <1>6
  <2>3. Len(f[j + n]) - Len(f[j]) = q
    <3>1. /\ Len(f[B + m]) \in Nat /\ Len(f[B + m + n]) \in Nat
          /\ Len(f[j]) \in Nat /\ Len(f[j + n]) \in Nat
      BY <1>2, <2>1
    <3>2. /\ s[j] \in Digits => Len(f[j]) = Len(f[B + m])
          /\ s[j] \notin Digits => Len(f[j]) = Len(f[B + m]) + 1
      BY <1>2, <2>1
    <3>3. /\ s[j + n] \in Digits => Len(f[j + n]) = Len(f[B + m + n])
          /\ s[j + n] \notin Digits => Len(f[j + n]) = Len(f[B + m + n]) + 1
      BY <1>2, <2>1
    <3>4. s[j + n] \in Digits <=> s[j] \in Digits
      BY <1>3, <2>1
    <3> DEFINE v == Len(f[B + m])
               w == Len(f[B + m + n])
               x == Len(f[j])
               y == Len(f[j + n])
    <3>5. v \in Nat /\ w \in Nat /\ w - v = q
      BY <2>2, <3>1
    <3>6. \/ x = v /\ y = w
          \/ x = v + 1 /\ y = w + 1
      BY <3>2, <3>3, <3>4
    <3> HIDE DEF v, w, x, y, q
    <3>7. y - x = q
      BY <3>5, <3>6
    <3> QED BY <3>7 DEF x, y
  <2> QED BY <2>1, <2>3
<1>7. \A m \in 0..N : m \in T
  <2> HIDE DEF T
  <2> QED BY <1>4, <1>5, <1>6, BoundedInduction
<1>8. Len(f[B + (i - B) + n]) - Len(f[B + (i - B)]) = q
  BY <1>4, <1>7
<1> QED BY <1>4, <1>8 DEF B, n

(* What grows by q every n steps.                                          *)
GrownBy(g, B, n, L, q) ==
  \A m \in Nat : B + m * n <= L => g[B + m * n] = g[B] + m * q

LEMMA GrowsByRounds ==
  ASSUME NEW B \in Nat, NEW n \in Nat, NEW L \in Nat, NEW q \in Nat,
         NEW g \in [0..L -> Nat],
         \A j \in B..(L - n) : g[j + n] = g[j] + q
  PROVE  GrownBy(g, B, n, L, q)
<1> SUFFICES ASSUME NEW times \in Nat, B + times * n <= L
             PROVE  g[B + times * n] = g[B] + times * q
  BY DEF GrownBy
<1> DEFINE At(m) == B + m * n
           T == {m \in 0..times : At(m) <= L => g[At(m)] = g[B] + m * q}
<1>1. 0 \in T
  <2>1. At(0) = B /\ 0 * q = 0
    OBVIOUS
  <2>2. B <= L => g[B] \in Nat
    OBVIOUS
  <2> HIDE DEF At
  <2> QED BY <2>1, <2>2
<1>2. ASSUME NEW m \in 0..(times - 1), m \in T PROVE m + 1 \in T
  <2> DEFINE j == At(m)
             e == m * q
  <2>1. m * n \in Nat /\ (m + 1) * n = m * n + n /\ m + 1 \in 0..times
    OBVIOUS
  <2>2. (m + 1) * q = e + q /\ e \in Nat
    OBVIOUS
  <2>3. j \in Nat /\ j >= B /\ At(m + 1) = j + n
    <3> DEFINE d == m * n
    <3>1. d \in Nat /\ j = B + d /\ At(m + 1) = B + (d + n)
      BY <2>1
    <3> HIDE DEF d, j, At
    <3> QED BY <3>1
  <2> HIDE DEF e
  <2>4. ASSUME j + n <= L PROVE g[j + n] = g[B] + (e + q)
    <3>1. j <= L => g[j] = g[B] + e
      BY <1>2 DEF e
    <3> HIDE DEF j, T
    <3>2. j \in B..(L - n) /\ j \in 0..L /\ B \in 0..L /\ j <= L
      BY <2>3, <2>4
    <3>3. g[j + n] = g[j] + q /\ g[B] \in Nat
      BY <3>2
    <3> QED BY <2>2, <3>1, <3>2, <3>3
  <2>5. At(m + 1) <= L => g[At(m + 1)] = g[B] + (m + 1) * q
    <3> HIDE DEF j, At, T
    <3> QED BY <2>2, <2>3, <2>4
  <2> HIDE DEF j, At
  <2> QED BY <2>1, <2>5
<1>3. \A m \in 0..times : m \in T
  <2> HIDE DEF T
  <2> QED BY <1>1, <1>2, BoundedInduction
<1>4. times \in T
  <2> HIDE DEF T
  <2> QED BY <1>3
<1> QED BY <1>4

(* A number of rounds keeps as often as much as one.                       *)
KeepsByRounds(b, u, s, f, q) ==
  \A m \in Nat :
    Len(b) + m * Len(u) <= Len(s) =>
      Len(f[Len(b) + m * Len(u)]) = Len(f[Len(b)]) + m * q

LEMMA Rounds ==
  ASSUME NEW b, NEW u \in Units, NEW s, Looped(b, u, s),
         NEW f, UndigitedScan(s, f), Len(b) + Len(u) <= Len(s),
         NEW q \in Nat, Len(f[Len(b) + Len(u)]) - Len(f[Len(b)]) = q
  PROVE  KeepsByRounds(b, u, s, f, q)
<1> DEFINE B == Len(b)
           L == Len(s)
           n == Len(u)
           g == [j \in 0..L |-> Len(f[j])]
<1>1. B \in Nat /\ L \in Nat /\ n \in Nat /\ B + n <= L /\ s \in Seq(Char)
  BY UnitFacts DEF Looped
<1>2. g \in [0..L -> Nat]
  <2>1. \A j \in 0..L : Len(f[j]) \in Nat
    BY <1>1, UndigitedGrows
  <2> HIDE DEF L
  <2> QED BY <2>1
<1>3. ASSUME NEW j \in B..(L - n) PROVE g[j + n] = g[j] + q
  <2>1. Len(f[j + n]) - Len(f[j]) = q
    BY RoundsAlike
  <2> HIDE DEF B, L, n
  <2>2. j \in 0..L /\ j + n \in 0..L
    BY <1>1
  <2>3. g[j] = Len(f[j]) /\ g[j + n] = Len(f[j + n]) /\ g[j] \in Nat /\ g[j + n] \in Nat
    BY <1>2, <2>2
  <2> HIDE DEF g
  <2> QED BY <2>1, <2>3
<1>4. GrownBy(g, B, n, L, q)
  <2> HIDE DEF B, L, n, g
  <2> QED BY <1>1, <1>2, <1>3, GrowsByRounds
<1>5. ASSUME NEW m \in Nat, B + m * n <= L
      PROVE  Len(f[B + m * n]) = Len(f[B]) + m * q
  <2> DEFINE i == B + m * n
  <2>1. g[i] = g[B] + m * q
    BY <1>4, <1>5 DEF GrownBy
  <2>2. m * n \in Nat
    BY <1>1
  <2>3. i \in 0..L /\ B \in 0..L
    <3> DEFINE d == m * n
    <3> HIDE DEF d, B, L, n
    <3> QED BY <1>1, <1>5, <2>2 DEF d
  <2> HIDE DEF i, B, L, n
  <2>4. g[i] = Len(f[i]) /\ g[B] = Len(f[B])
    BY <2>3
  <2> HIDE DEF g
  <2>5. Len(f[i]) = Len(f[B]) + m * q
    BY <2>1, <2>4
  <2> QED BY <2>5 DEF i
<1> HIDE DEF g
<1> QED BY <1>5 DEF KeepsByRounds

LEMMA FirstRound ==
  ASSUME NEW b, NEW u \in Units, NEW s, Looped(b, u, s),
         NEW f, UndigitedScan(s, f), Len(b) + Len(u) <= Len(s)
  PROVE  /\ Cardinality(Solid(u)) \in Nat
         /\ Len(f[Len(b) + Len(u)]) - Len(f[Len(b)]) = Cardinality(Solid(u))
<1> DEFINE B == Len(b)
           L == Len(s)
           n == Len(u)
           Until(m) == {j \in 1..m : u[j] # "#"}
           T == {m \in 0..n : Len(f[B + m]) = Len(f[B]) + Cardinality(Until(m))}
<1>1. B \in Nat /\ L \in Nat /\ n \in Nat \ {0} /\ B + n <= L /\ s \in Seq(Char)
  BY UnitFacts DEF Looped
<1>2. /\ \A j \in 0..L : Len(f[j]) \in Nat
      /\ \A j \in 1..L :
           /\ s[j] \in Digits => Len(f[j]) = Len(f[j - 1])
           /\ s[j] \notin Digits => Len(f[j]) = Len(f[j - 1]) + 1
  BY <1>1, UndigitedGrows
<1>3. \A j \in (B + 1)..L : s[j] = Unrolled(u, j - B - 1)
  BY DEF Looped
<1>4. \A m \in Nat : IsFiniteSet(Until(m)) /\ Cardinality(Until(m)) \in Nat
  <2> TAKE m \in Nat
  <2>1. IsFiniteSet(1..m) /\ Until(m) \subseteq 1..m
    BY FS_Interval
  <2> HIDE DEF Until
  <2> QED BY <2>1, FS_Subset, FS_CardinalityType
<1>5. DOMAIN u = 1..n
  BY UnitFacts
<1> HIDE DEF B, L
<1>6. 0 \in T
  <2>1. Until(0) = {}
    OBVIOUS
  <2>2. Cardinality(Until(0)) = 0 /\ B + 0 = B /\ B \in 0..L
    BY <1>1, <2>1, FS_EmptySet
  <2> QED BY <1>1, <1>2, <2>2
<1>7. ASSUME NEW m \in 0..(n - 1), m \in T PROVE m + 1 \in T
  <2> DEFINE i == B + m + 1
             c == Cardinality(Until(m))
             d == Cardinality(Until(m + 1))
  <2>1. /\ i \in (B + 1)..L /\ i \in 1..L /\ i - 1 = B + m /\ i - B - 1 = m
        /\ B + (m + 1) = i /\ m \in Nat /\ m + 1 \in Nat /\ m + 1 \in 0..n /\ m + 1 \in 1..n
        /\ B + m \in 0..L /\ B \in 0..L
    BY <1>1
  <2>2. s[i] = Unrolled(u, m) /\ m % n = m
    BY <1>1, <1>3, <2>1, SmallMod
  <2>3. s[i] \in Digits <=> u[m + 1] = "#"
    <3>1. 1 + (m % Len(u)) = m + 1
      BY <2>1, <2>2
    <3>2. /\ u[m + 1] # "#" => Unrolled(u, m) \notin Digits
          /\ u[m + 1] = "#" => Unrolled(u, m) \in Digits
      BY <2>1, <3>1, CounterFacts
    <3> QED BY <2>2, <3>2
  <2>4. Len(f[B + m]) = Len(f[B]) + c
    BY <1>7
  <2>5. c \in Nat /\ d \in Nat
    <3> HIDE DEF Until
    <3> QED BY <1>4, <2>1
  <2>6. Len(f[B]) \in Nat
    BY <1>2, <2>1
  <2>7. CASE u[m + 1] = "#"
    <3>1. Until(m + 1) = Until(m)
      BY <2>1, <2>7
    <3>2. Len(f[i]) = Len(f[B + m])
      BY <1>2, <2>1, <2>3, <2>7
    <3> QED BY <2>1, <2>4, <3>1, <3>2
  <2>8. CASE u[m + 1] # "#"
    <3>1. Until(m + 1) = Until(m) \cup {m + 1} /\ m + 1 \notin Until(m)
      BY <2>1, <2>8
    <3>2. d = c + 1
      <4> HIDE DEF Until
      <4> QED BY <1>4, <2>1, <3>1, FS_AddElement
    <3>3. Len(f[i]) = Len(f[B + m]) + 1
      BY <1>2, <2>1, <2>3, <2>8
    <3> DEFINE x == Len(f[i])
               y == Len(f[B + m])
               z == Len(f[B])
    <3>4. x = y + 1 /\ y = z + c /\ z \in Nat
      BY <2>4, <2>6, <3>3
    <3> HIDE DEF c, d, x, y, z
    <3>5. x = z + d
      BY <2>5, <3>2, <3>4
    <3> HIDE DEF i
    <3> QED BY <2>1, <3>5 DEF d, x, z
  <2> QED BY <2>7, <2>8
<1>8. \A m \in 0..n : m \in T
  <2> HIDE DEF T
  <2> QED BY <1>1, <1>6, <1>7, BoundedInduction
<1>9. Len(f[B + n]) = Len(f[B]) + Cardinality(Until(n))
  BY <1>1, <1>8
<1>10. Until(n) = Solid(u) /\ Cardinality(Until(n)) \in Nat
  BY <1>1, <1>4, <1>5 DEF Solid
<1>11. Len(f[B]) \in Nat
  <2>1. B \in 0..L
    BY <1>1
  <2> QED BY <1>2, <2>1
<1> HIDE DEF n, Until
<1> QED BY <1>9, <1>10, <1>11 DEF B, n

(* The kept text repeats itself every time that one round keeps.           *)
LEMMA UndigitedPeriodic ==
  ASSUME NEW b, NEW u \in Units, NEW s, Looped(b, u, s),
         NEW f, UndigitedScan(s, f), Len(b) + Len(u) <= Len(s),
         NEW q \in Nat \ {0}, Len(f[Len(b) + Len(u)]) - Len(f[Len(b)]) = q
  PROVE  Periodic(Undigited(s), Len(Undigited(s)) - Len(f[Len(b)]), q)
<1> DEFINE B == Len(b)
           L == Len(s)
           n == Len(u)
           g == Len(f[B])
           Held(i) == \A k \in 1..Len(f[i]) : k > g + q => f[i][k] = f[i][k - q]
           T == {i \in 0..L : i >= B => Held(i)}
<1>1. B \in Nat /\ L \in Nat /\ n \in Nat \ {0} /\ B + n <= L /\ s \in Seq(Char)
  BY UnitFacts DEF Looped
<1>2. /\ \A j \in 0..L : f[j] \in Seq(Char) /\ Len(f[j]) \in Nat
      /\ \A j \in 1..L :
           /\ s[j] \in Digits => f[j] = f[j - 1]
           /\ s[j] \notin Digits =>
                /\ Len(f[j]) = Len(f[j - 1]) + 1
                /\ \A k \in 1..Len(f[j - 1]) : f[j][k] = f[j - 1][k]
                /\ f[j][Len(f[j])] = s[j]
  BY <1>1, UndigitedGrows
<1>3. \A i \in 0..L : \A j \in i..L : Extends(f[i], f[j])
  BY <1>1, UndigitedGrows
<1>4. \A i \in B..(L - n) : Len(f[i + n]) - Len(f[i]) = q
  BY RoundsAlike
<1>5. \A j \in (B + 1)..(L - n) :
        /\ s[j + n] \in Digits <=> s[j] \in Digits
        /\ s[j] \notin Digits => s[j + n] = s[j]
  BY SaidAgain
<1>6. g \in Nat /\ Len(f[B + n]) = g + q
  <2>1. B \in 0..L /\ B + n \in 0..L
    BY <1>1
  <2>2. Len(f[B]) \in Nat /\ Len(f[B + n]) \in Nat
    BY <1>2, <2>1
  <2> QED BY <2>2
<1>7. Undigited(s) = f[L]
  BY DEF UndigitedScan
<1> HIDE DEF B, L, n, g
<1>8. \A i \in 0..(B + n) : Held(i)
  <2> TAKE i \in 0..(B + n)
  <2>1. i \in 0..L /\ B + n \in i..L
    BY <1>1
  <2>2. Extends(f[i], f[B + n])
    BY <1>3, <2>1
  <2>3. Len(f[i]) \in Nat /\ Len(f[i]) <= g + q
    BY <1>6, <2>2 DEF Extends
  <2> QED BY <1>6, <2>3
<1>9. 0 \in T
  BY <1>1, <1>8
<1>10. ASSUME NEW i \in 0..(L - 1), i \in T PROVE i + 1 \in T
  <2>1. i \in 0..L /\ i + 1 \in 1..L /\ i + 1 \in 0..L /\ (i + 1) - 1 = i
    BY <1>1
  <2>2. CASE i + 1 <= B + n
    BY <1>8, <2>1, <2>2
  <2>3. CASE i + 1 > B + n /\ s[i + 1] \in Digits
    <3>1. f[i + 1] = f[i]
      BY <1>2, <2>1, <2>3
    <3>2. i >= B
      BY <1>1, <2>1, <2>3
    <3> QED BY <1>10, <2>1, <3>1, <3>2
  <2>4. CASE i + 1 > B + n /\ s[i + 1] \notin Digits
    <3> DEFINE j == i - n
               l == Len(f[i])
               k0 == Len(f[j]) + 1
    <3>1. /\ i >= B /\ j \in B..(L - n) /\ j + n = i /\ j \in 0..L
          /\ j + 1 \in (B + 1)..(L - n) /\ j + 1 \in 1..L /\ j + 1 \in 0..L
          /\ (j + 1) + n = i + 1 /\ (j + 1) - 1 = j /\ i \in (j + 1)..L
      BY <1>1, <2>1, <2>4
    <3> HIDE DEF j
    <3>2. l \in Nat /\ Len(f[j]) \in Nat /\ l = Len(f[j]) + q /\ k0 \in Nat
      <4>1. Len(f[j + n]) - Len(f[j]) = q
        BY <1>4, <3>1
      <4> DEFINE m == Len(f[j])
      <4>2. l - m = q /\ l \in Nat /\ m \in Nat
        BY <1>2, <2>1, <3>1, <4>1
      <4>3. l = m + q /\ m + 1 \in Nat
        <5> HIDE DEF l, m
        <5> QED BY <4>2
      <4>4. k0 = m + 1
        OBVIOUS
      <4> HIDE DEF l, k0
      <4> QED BY <4>2, <4>3, <4>4
    <3>3. s[j + 1] = s[i + 1] /\ s[j + 1] \notin Digits
      <4> DEFINE m == j + 1
      <4>1. m \in (B + 1)..(L - n) /\ m + n = i + 1
        BY <3>1
      <4> HIDE DEF m
      <4>2. /\ s[m + n] \in Digits <=> s[m] \in Digits
            /\ s[m] \notin Digits => s[m + n] = s[m]
        BY <1>5, <4>1
      <4>3. s[m] = s[i + 1] /\ s[m] \notin Digits
        BY <2>4, <4>1, <4>2
      <4> QED BY <4>3 DEF m
    <3>4. Len(f[j + 1]) = k0 /\ f[j + 1][k0] = s[j + 1]
      <4>1. Len(f[j + 1]) = Len(f[j]) + 1 /\ f[j + 1][Len(f[j + 1])] = s[j + 1]
        BY <1>2, <3>1, <3>3
      <4> QED BY <4>1
    <3>5. Extends(f[j + 1], f[i])
      BY <1>3, <3>1
    <3>6. f[i][k0] = s[i + 1]
      <4>1. k0 \in 1..Len(f[j + 1])
        BY <3>2, <3>4
      <4> QED BY <3>3, <3>4, <3>5, <4>1 DEF Extends
    <3>7. /\ Len(f[i + 1]) = l + 1
          /\ \A k \in 1..l : f[i + 1][k] = f[i][k]
          /\ f[i + 1][l + 1] = s[i + 1]
      <4>1. /\ Len(f[i + 1]) = Len(f[i]) + 1
            /\ \A k \in 1..Len(f[i]) : f[i + 1][k] = f[i][k]
            /\ f[i + 1][Len(f[i + 1])] = s[i + 1]
        <5>1. s[i + 1] \notin Digits =>
                /\ Len(f[i + 1]) = Len(f[(i + 1) - 1]) + 1
                /\ \A k \in 1..Len(f[(i + 1) - 1]) : f[i + 1][k] = f[(i + 1) - 1][k]
                /\ f[i + 1][Len(f[i + 1])] = s[i + 1]
          BY <1>2, <2>1
        <5> QED BY <2>1, <2>4, <5>1
      <4> QED BY <4>1
    <3>8. Held(i)
      BY <1>10, <3>1
    <3>9. ASSUME NEW k \in 1..Len(f[i + 1]), k > g + q
          PROVE  f[i + 1][k] = f[i + 1][k - q]
      <4>1. k \in Nat /\ k - q \in 1..l
        BY <1>6, <3>2, <3>7, <3>9
      <4>2. f[i + 1][k - q] = f[i][k - q]
        BY <3>7, <4>1
      <4>3. CASE k = l + 1
        <5>1. k - q = k0
          BY <3>2, <4>3
        <5> QED BY <3>6, <3>7, <4>2, <4>3, <5>1
      <4>4. CASE k # l + 1
        <5>1. k \in 1..l
          BY <3>2, <3>7, <4>4
        <5>2. f[i][k] = f[i][k - q]
          BY <3>8, <3>9, <5>1
        <5> QED BY <3>7, <4>2, <5>1, <5>2
      <4> QED BY <4>3, <4>4
    <3> QED BY <2>1, <3>9
  <2> QED BY <1>1, <2>1, <2>2, <2>3, <2>4
<1>11. \A i \in 0..L : i \in T
  <2> HIDE DEF T
  <2> QED BY <1>1, <1>9, <1>10, BoundedInduction
<1>12. L \in 0..L /\ L >= B
  BY <1>1
<1>13. Held(L) /\ Len(f[L]) \in Nat
  BY <1>2, <1>11, <1>12
<1>14. ASSUME NEW k \in 1..Len(f[L]), k > Len(f[L]) - (Len(f[L]) - g) + q
       PROVE  f[L][k] = f[L][k - q]
  <2>1. k > g + q
    BY <1>6, <1>13, <1>14
  <2> QED BY <1>13, <2>1
<1> QED BY <1>7, <1>14 DEF Periodic, g, B


-----------------------------------------------------------------------------
(* Both repetitions are noticed.                                           *)

LEMMA LoopIsReason ==
  ASSUME NEW s, SequenceLoop(s) \/ NumberedBlockCycle(s)
  PROVE  LoopReason(s) # "none"
BY DEF LoopReason

LEMMA StretchType ==
  ASSUME NEW h \in Nat \ {0}, NEW d \in Nat
  PROVE  Stretch(h, d) \in Nat \ {0}
<1>1. h - 1 \in Nat /\ (h - 1) * d \in Nat
  OBVIOUS
<1> QED BY <1>1, ThresholdsAssumption DEF Stretch

(* A unit that comes back within the lookback.                             *)
LEMMA UnitNoticed ==
  ASSUME NEW b, NEW u \in Units, NEW s, Looped(b, u, s),
         NEW h \in Nat \ {0}, NEW d \in Nat,
         h >= MinHits, h * Window >= MinSum, d >= Window, Stretch(h, d) <= Lookback,
         d % Period(u) = 0, Len(b) + Stretch(h, d) <= Len(s)
  PROVE  SequenceLoop(s)
<1> DEFINE r == Stretch(h, d)
           P == Period(u)
<1>1. r \in Nat /\ P \in Nat \ {0} /\ s \in Seq(Char) /\ Len(s) \in Nat /\ Len(b) \in Nat
  <2>1. Stretch(h, d) \in Nat \ {0}
    BY StretchType
  <2>2. s \in Seq(Char) /\ Len(s) \in Nat /\ Len(b) \in Nat
    BY DEF Looped
  <2> QED BY <2>1, <2>2, PeriodFacts
<1>2. PICK m \in Nat : d = m * P
  BY <1>1, Multiple
<1>3. Periodic(s, r, P)
  BY <1>1, LoopedPeriodic
<1>4. r <= Len(s)
  <2> HIDE DEF r
  <2> QED BY <1>1 DEF r
<1>5. Periodic(s, r, d)
  <2> HIDE DEF r, P
  <2> QED BY <1>1, <1>2, <1>3, <1>4, PeriodicMultiple
<1> QED BY <1>1, <1>4, <1>5, RepetitionIsLoop

(* As many rounds keep as many characters, and they repeat themselves.     *)
LEMMA UndigitedStretch ==
  ASSUME NEW b, NEW u \in Units, NEW s, Looped(b, u, s),
         NEW q \in Nat \ {0}, Cardinality(Solid(u)) = q,
         NEW times \in Nat \ {0}, Len(b) + times * Len(u) <= Len(s),
         NEW r \in Nat, r <= times * q
  PROVE  /\ Undigited(s) \in Seq(Char)
         /\ r <= Len(Undigited(s))
         /\ Periodic(Undigited(s), r, q)
<1> DEFINE v == Undigited(s)
           i == Len(b) + times * Len(u)
<1>1. /\ s \in Seq(Char) /\ Len(s) \in Nat /\ Len(b) \in Nat
      /\ Len(u) \in Nat \ {0}
  BY UnitFacts DEF Looped
<1>2. PICK f : UndigitedScan(s, f)
  BY <1>1, UndigitedByScan
<1> DEFINE g == Len(f[Len(b)])
<1>3. i \in Nat /\ i <= Len(s) /\ Len(b) + Len(u) <= Len(s)
  <2>1. /\ times - 1 \in Nat /\ (times - 1) * Len(u) \in Nat
        /\ times * Len(u) = (times - 1) * Len(u) + Len(u)
    BY <1>1
  <2> QED BY <1>1, <2>1
<1>4. Len(f[Len(b) + Len(u)]) - Len(f[Len(b)]) = q
  BY <1>2, <1>3, FirstRound
<1>5. i \in 0..Len(s) /\ Len(f[i]) = g + times * q
  <2>1. KeepsByRounds(b, u, s, f, q)
    <3> HIDE DEF i
    <3> QED BY <1>2, <1>3, <1>4, Rounds
  <2>2. times \in Nat
    OBVIOUS
  <2>3. Len(f[i]) = g + times * q
    BY <1>3, <2>1, <2>2 DEF KeepsByRounds
  <2> HIDE DEF i
  <2>4. i \in 0..Len(s)
    BY <1>1, <1>3
  <2> QED BY <2>3, <2>4
<1>6. Len(s) \in i..Len(s) /\ Len(b) \in 0..Len(s) /\ Len(s) \in 0..Len(s)
  <2> HIDE DEF i
  <2> QED BY <1>1, <1>3
<1>7. v = f[Len(s)]
  BY <1>2 DEF UndigitedScan
<1>8. v \in Seq(Char) /\ Len(v) \in Nat /\ g \in Nat
  <2>1. \A j \in 0..Len(s) : f[j] \in Seq(Char) /\ Len(f[j]) \in Nat
    BY <1>1, <1>2, UndigitedGrows
  <2> QED BY <1>6, <1>7, <2>1
<1>9. Extends(f[i], v)
  <2>1. \A j \in 0..Len(s) : \A k \in j..Len(s) : Extends(f[j], f[k])
    BY <1>1, <1>2, UndigitedGrows
  <2> HIDE DEF i, v
  <2> QED BY <1>5, <1>6, <1>7, <2>1
<1>10. r <= Len(v) - g /\ Len(v) - g <= Len(v)
  <2> DEFINE x == Len(f[i])
             e == times * q
  <2>1. x <= Len(v) /\ x = g + e /\ e >= r /\ e \in Nat
    <3>1. e \in Nat /\ e >= r
      OBVIOUS
    <3> HIDE DEF e
    <3> QED BY <1>5, <1>9, <3>1 DEF Extends, e
  <2> HIDE DEF x, e, v, g
  <2> QED BY <1>8, <2>1
<1>11. Periodic(v, Len(v) - g, q)
  BY <1>2, <1>3, <1>4, UndigitedPeriodic
<1>12. Periodic(v, r, q)
  <2> HIDE DEF v, g
  <2> QED BY <1>8, <1>10, <1>11 DEF Periodic
<1> HIDE DEF v, g
<1> QED BY <1>8, <1>10, <1>12 DEF v

(* A unit that comes back but for its numbers.                             *)
LEMMA CountingNoticed ==
  ASSUME NEW b, NEW u \in Units, NEW s, Looped(b, u, s), Len(s) >= BlockLength,
         NEW h \in Nat \ {0}, NEW d \in Nat,
         h >= MinHits, h * Window >= MinSum, d >= Window, Stretch(h, d) <= Lookback,
         NEW q \in Nat \ {0}, Cardinality(Solid(u)) = q, d % q = 0,
         NEW times \in Nat \ {0}, times * q >= Stretch(h, d),
         Len(b) + times * Len(u) <= Len(s)
  PROVE  NumberedBlockCycle(s)
<1> DEFINE r == Stretch(h, d)
           v == Undigited(s)
<1>1. r \in Nat /\ r <= times * q
  <2>1. Stretch(h, d) \in Nat \ {0}
    BY StretchType
  <2>2. times * q \in Nat /\ times * q >= Stretch(h, d)
    OBVIOUS
  <2> QED BY <2>1, <2>2
<1>2. v \in Seq(Char) /\ r <= Len(v) /\ Periodic(v, r, q)
  <2> HIDE DEF r
  <2> QED BY <1>1, UndigitedStretch
<1>3. PICK m \in Nat : d = m * q
  BY Multiple
<1>4. Periodic(v, r, d)
  <2>1. Len(v) \in Nat
    BY <1>2
  <2> HIDE DEF v, r
  <2> QED BY <1>1, <1>2, <1>3, <2>1, PeriodicMultiple
<1>5. SequenceLoop(v)
  <2> HIDE DEF v
  <2> QED BY <1>2, <1>4, RepetitionIsLoop
<1> QED BY <1>5 DEF NumberedBlockCycle

-----------------------------------------------------------------------------
(* The reply is what its beginning and its unit say.                       *)
LoopInv ==
  /\ loop \in [beginning : Beginnings, unit : Units]
  /\ repeated = <<>> \/ Looped(loop.beginning, loop.unit, repeated)

LEMMA InitLoopInv == Begins => LoopInv
BY DEF Begins, LoopInv

LEMMA NextLoopInv == LoopInv /\ [Repeat]_loopVars => LoopInv'
<1> SUFFICES ASSUME LoopInv, Repeat PROVE LoopInv'
  BY DEF LoopInv, loopVars, Looped
<1> DEFINE b == loop.beginning
           u == loop.unit
           w == Len(repeated) - Len(b)
<1>1. b \in Seq(Char) /\ u \in Units /\ loop' = loop
  <2>1. b \in Seq(STRING) /\ u \in Units /\ loop' = loop
    BY LoopsAssumption DEF LoopInv, Repeat
  <2> QED BY <2>1, SeqMonotonic DEF Char
<1>2. Len(b) \in Nat
  BY <1>1
<1>3. CASE repeated = <<>> /\ b # <<>>
  <2>1. repeated' = b
    BY <1>3 DEF Repeat
  <2>2. Looped(b, u, b)
    BY <1>1 DEF Looped
  <2> QED BY <1>1, <2>1, <2>2 DEF LoopInv
<1>4. CASE ~(repeated = <<>> /\ b # <<>>)
  <2>1. repeated' = Append(repeated, Unrolled(u, w))
    BY <1>4 DEF Repeat
  <2>2. Looped(b, u, repeated)
    <3>1. CASE repeated = <<>>
      BY <1>1, <1>4, <3>1 DEF Looped
    <3>2. CASE repeated # <<>>
      BY <3>2 DEF LoopInv
    <3> QED BY <3>1, <3>2
  <2>3. repeated \in Seq(Char) /\ Len(repeated) \in Nat /\ w \in Nat
    <3>1. repeated \in Seq(Char) /\ Len(repeated) \in Nat /\ Len(b) <= Len(repeated)
      BY <2>2 DEF Looped
    <3> HIDE DEF b
    <3> QED BY <1>2, <3>1
  <2>4. Unrolled(u, w) \in Char
    BY <1>1, <2>3, CounterFacts
  <2> DEFINE s == Append(repeated, Unrolled(u, w))
  <2>5. /\ s \in Seq(Char)
        /\ Len(s) = Len(repeated) + 1
        /\ \A i \in 1..Len(repeated) : s[i] = repeated[i]
        /\ s[Len(s)] = Unrolled(u, w)
    <3> HIDE DEF w, u
    <3> QED BY <2>3, <2>4, AppendProperties
  <2> HIDE DEF s
  <2>6. ASSUME NEW i \in (Len(b) + 1)..Len(s) PROVE s[i] = Unrolled(u, i - Len(b) - 1)
    <3>1. CASE i = Len(s)
      <4>1. i - Len(b) - 1 = w
        BY <1>2, <2>3, <2>5, <3>1
      <4> QED BY <2>5, <3>1, <4>1
    <3>2. CASE i # Len(s)
      <4>1. i \in (Len(b) + 1)..Len(repeated) /\ i \in 1..Len(repeated)
        BY <1>2, <2>3, <2>5, <3>2
      <4> QED BY <2>2, <2>5, <4>1 DEF Looped
    <3> QED BY <3>1, <3>2
  <2>7. Looped(b, u, s)
    <3>1. Len(b) <= Len(s)
      BY <1>2, <2>2, <2>3, <2>5 DEF Looped
    <3> QED BY <1>1, <2>5, <2>6, <3>1 DEF Looped
  <2> QED BY <1>1, <2>1, <2>7 DEF LoopInv, s
<1> QED BY <1>3, <1>4

LEMMA LoopedNoticed ==
  ASSUME NEW b \in Beginnings, NEW u \in Units, NEW s, Looped(b, u, s), Len(s) >= Settled
  PROVE  LoopReason(s) # "none"
<1>0. /\ Len(s) \in Nat /\ Len(b) \in Nat /\ Settled \in Nat /\ BlockLength \in Nat
      /\ MinHits \in Nat /\ MinHits >= 2 /\ Window \in Nat /\ Lookback \in Nat
      /\ Len(u) \in Nat
  BY LoopsAssumption, ThresholdsAssumption, UnitFacts DEF Looped
<1>1. Noticeable(b, u)
  BY SettledAssumption
<1>2. PICK h \in MinHits..Lookback, d \in Window..Lookback :
        /\ h * Window >= MinSum
        /\ Stretch(h, d) <= Lookback
        /\ \/ /\ d % Period(u) = 0
              /\ Len(b) + Stretch(h, d) <= Settled
           \/ /\ Solid(u) # {}
              /\ d % Cardinality(Solid(u)) = 0
              /\ BlockLength <= Settled
              /\ \E times \in 1..Settled :
                   /\ times * Cardinality(Solid(u)) >= Stretch(h, d)
                   /\ Len(b) + times * Len(u) <= Settled
  BY <1>1 DEF Noticeable
<1>3. h \in Nat \ {0} /\ h >= MinHits /\ d \in Nat /\ d >= Window /\ Stretch(h, d) \in Nat
  <2>1. h \in Nat \ {0} /\ h >= MinHits /\ d \in Nat /\ d >= Window
    BY <1>0
  <2> QED BY <2>1, StretchType
<1>4. CASE d % Period(u) = 0 /\ Len(b) + Stretch(h, d) <= Settled
  <2>1. Len(b) + Stretch(h, d) <= Len(s)
    BY <1>0, <1>3, <1>4
  <2>2. SequenceLoop(s)
    BY <1>2, <1>3, <1>4, <2>1, UnitNoticed
  <2> QED BY <2>2, LoopIsReason
<1>5. CASE /\ Solid(u) # {}
           /\ d % Cardinality(Solid(u)) = 0
           /\ BlockLength <= Settled
           /\ \E times \in 1..Settled :
                /\ times * Cardinality(Solid(u)) >= Stretch(h, d)
                /\ Len(b) + times * Len(u) <= Settled
  <2>1. PICK times \in 1..Settled : /\ times * Cardinality(Solid(u)) >= Stretch(h, d)
                                    /\ Len(b) + times * Len(u) <= Settled
    BY <1>5
  <2>2. times \in Nat \ {0} /\ Len(s) >= BlockLength
    BY <1>0, <1>5
  <2> DEFINE q == Cardinality(Solid(u))
  <2>5. q \in Nat \ {0}
    <3>1. IsFiniteSet(1..Len(u)) /\ Solid(u) \subseteq 1..Len(u)
      <4>1. IsFiniteSet(1..Len(u))
        BY <1>0, FS_Interval
      <4>2. DOMAIN u = 1..Len(u)
        BY UnitFacts
      <4> QED BY <4>1, <4>2 DEF Solid
    <3>2. IsFiniteSet(Solid(u))
      BY <3>1, FS_Subset
    <3> QED BY <1>5, <3>2, FS_CardinalityType, FS_EmptySet
  <2>3. Len(b) + times * Len(u) <= Len(s)
    <3>1. times * Len(u) \in Nat
      BY <1>0, <2>2
    <3> QED BY <1>0, <2>1, <3>1
  <2>4. NumberedBlockCycle(s)
    <3>1. q = Cardinality(Solid(u)) /\ d % q = 0 /\ times * q >= Stretch(h, d)
      BY <1>5, <2>1
    <3> HIDE DEF q
    <3> QED BY <1>2, <1>3, <2>2, <2>3, <2>5, <3>1, CountingNoticed
  <2> QED BY <2>4, LoopIsReason
<1> QED BY <1>2, <1>4, <1>5

(* Whatever the thresholds, the beginning and the unit: a reply that goes  *)
(* on repeating itself is noticed from the moment it is Settled.           *)
THEOREM LoopsAreNoticed == LoopSpec => []LoopNoticed
<1>1. LoopInv => LoopNoticed
  <2> SUFFICES ASSUME LoopInv, Len(repeated) >= Settled PROVE LoopReason(repeated) # "none"
    BY DEF LoopNoticed
  <2>1. loop.beginning \in Beginnings /\ loop.unit \in Units
    BY DEF LoopInv
  <2>2. CASE repeated = <<>>
    <3>1. PICK h \in MinHits..Lookback, d \in Window..Lookback :
            \/ Len(loop.beginning) + Stretch(h, d) <= Settled
            \/ BlockLength <= Settled
      BY <2>1, SettledAssumption DEF Noticeable
    <3>2. Len(loop.beginning) \in Nat
      BY <2>1, LoopsAssumption
    <3>3. Settled # 0
      <4>1. h \in Nat \ {0} /\ d \in Nat
        BY ThresholdsAssumption
      <4>2. Stretch(h, d) \in Nat \ {0}
        BY <4>1, StretchType
      <4>3. Settled \in Nat /\ BlockLength \in Nat \ {0}
        BY LoopsAssumption, ThresholdsAssumption
      <4> QED BY <3>1, <3>2, <4>2, <4>3
    <3> QED BY <2>2, <3>3, LoopsAssumption
  <2>3. CASE Looped(loop.beginning, loop.unit, repeated)
    BY <2>1, <2>3, LoopedNoticed
  <2> QED BY <2>2, <2>3 DEF LoopInv
<1> QED BY <1>1, InitLoopInv, NextLoopInv, PTL DEF LoopSpec

(* What the default thresholds are made for.                               *)

LEMMA MultipleMod ==
  ASSUME NEW n \in Nat \ {0}, NEW m \in Nat
  PROVE  (m * n) % n = 0
<1> DEFINE T == {j \in 0..m : (j * n) % n = 0}
<1>1. 0 \in T
  <2>1. 0 * n = 0 /\ 0 % n = 0
    OBVIOUS
  <2> QED BY <2>1
<1>2. ASSUME NEW j \in 0..(m - 1), j \in T PROVE j + 1 \in T
  <2>1. j * n \in Nat /\ (j + 1) * n = j * n + n /\ j + 1 \in 0..m
    OBVIOUS
  <2>2. (j * n + n) % n = (j * n) % n
    BY <2>1, ModShift
  <2> QED BY <1>2, <2>1, <2>2
<1>3. \A j \in 0..m : j \in T
  <2> HIDE DEF T
  <2> QED BY <1>1, <1>2, BoundedInduction
<1>4. m \in T
  <2> HIDE DEF T
  <2> QED BY <1>3
<1> QED BY <1>4

IsMultiple(d, n) == d % n = 0

LEMMA FirstMultiple ==
  ASSUME NEW n \in Nat \ {0}, NEW low \in Nat \ {0}
  PROVE  \E d \in Nat : /\ low <= d
                        /\ d < 2 * low \/ d <= n
                        /\ IsMultiple(d, n)
<1>1. CASE n >= low
  <2>1. (1 * n) % n = 0 /\ 1 * n = n
    BY MultipleMod
  <2>2. IsMultiple(n, n)
    BY <2>1 DEF IsMultiple
  <2> QED BY <1>1, <2>2
<1>2. CASE n < low
  <2> DEFINE k == (low - 1) \div n
             r == (low - 1) % n
             e == n * k
             d == (k + 1) * n
  <2>1. k \in Nat /\ r \in 0..(n - 1) /\ low - 1 = n * k + r
    OBVIOUS
  <2>2. IsMultiple(d, n)
    <3> HIDE DEF k
    <3>1. ((k + 1) * n) % n = 0
      BY <2>1, MultipleMod
    <3> QED BY <3>1 DEF IsMultiple
  <2>3. d = e + n /\ e \in Nat
    <3> HIDE DEF k
    <3> QED BY <2>1
  <2> HIDE DEF k, r, d
  <2>4. low - 1 = e + r
    BY <2>1
  <2> HIDE DEF e
  <2>5. d \in Nat /\ low <= d /\ d < 2 * low
    BY <1>2, <2>1, <2>3, <2>4
  <2> QED BY <2>2, <2>5
<1> QED BY <1>1, <1>2

(* A distance to go back by: at least a window, and less than two or no    *)
(* more than the unit's.                                                   *)
Back(d, n) ==
  /\ d \in Nat /\ Window <= d
  /\ d < 2 * Window \/ d <= n
  /\ IsMultiple(d, n)

LEMMA BackSomewhere ==
  ASSUME NEW n, n \in Nat \ {0}
  PROVE  \E d : Back(d, n)
<1>1. Window \in Nat \ {0}
  BY ThresholdsAssumption
<1>2. PICK d \in Nat : Window <= d /\ (d < 2 * Window \/ d <= n) /\ IsMultiple(d, n)
  BY <1>1, FirstMultiple
<1> QED BY <1>2 DEF Back

(* That many windows, that far apart, are enough and in the lookback.      *)
Allowed(h, d) ==
  /\ h \in MinHits..Lookback /\ d \in Window..Lookback
  /\ h * Window >= MinSum /\ Stretch(h, d) <= Lookback

UnrolledOn(b, u, h, d) == d % Period(u) = 0 /\ Len(b) + Stretch(h, d) <= Settled

CountedOn(b, u, h, d) ==
  /\ Solid(u) # {} /\ d % Cardinality(Solid(u)) = 0 /\ BlockLength <= Settled
  /\ \E times \in 1..Settled :
       /\ times * Cardinality(Solid(u)) >= Stretch(h, d)
       /\ Len(b) + times * Len(u) <= Settled

LEMMA EitherWay ==
  ASSUME NEW b, NEW u, NEW h, NEW d, Allowed(h, d),
         UnrolledOn(b, u, h, d) \/ CountedOn(b, u, h, d)
  PROVE  Noticeable(b, u)
BY DEF Allowed, UnrolledOn, CountedOn, Noticeable

(* With the thresholds the code has unless the environment sets others     *)
(* (loop_guard.py:35-38, 135), the assumption of the theorem above holds   *)
(* of every unit that is back, or is back but for its numbers, within 1260 *)
(* characters, once the look-back's 4000 characters, or as many rounds,    *)
(* have been written.                                                      *)
THEOREM DefaultsNotice ==
  ASSUME Window = 220, Lookback = 4000, MinHits = 4, MinSum = 700, BlockLength = 1500,
         NEW b \in Seq(STRING), NEW u \in Seq(STRING) \ {<<>>},
         \/ Period(u) <= 1260 /\ Settled >= Len(b) + 4000
         \/ /\ Solid(u) # {} /\ Cardinality(Solid(u)) <= 1260
            /\ Settled >= Len(b) + 4000 * Len(u)
  PROVE  Noticeable(b, u)
<1>1. /\ Len(b) \in Nat /\ Len(u) \in Nat \ {0} /\ Settled \in Nat /\ DOMAIN u = 1..Len(u)
  BY LoopsAssumption
<1> DEFINE Near(n) == n \in Nat \ {0} /\ n <= 1260
           Reached(d, n) == /\ d \in Nat /\ Allowed(4, d) /\ IsMultiple(d, n)
                          /\ Stretch(4, d) = 3 * d + 220 /\ Stretch(4, d) <= 4000
<1>2. ASSUME NEW n, Near(n), NEW d, Back(d, n) PROVE Reached(d, n)
  <2>1. d \in Nat /\ 220 <= d /\ d <= 1260 /\ IsMultiple(d, n)
    BY <1>2 DEF Back
  <2>2. Stretch(4, d) = 3 * d + 220
    BY <2>1 DEF Stretch
  <2> QED BY <2>1, <2>2 DEF Allowed
<1>3. CASE Period(u) <= 1260 /\ Settled >= Len(b) + 4000
  <2> DEFINE n == Period(u)
  <2>1. n \in Nat \ {0} /\ n <= 1260
    <3>1. Period(u) \in {3 * Len(u), Len(u)}
      BY DEF Period
    <3> QED BY <1>1, <1>3, <3>1
  <2> HIDE DEF n
  <2>2. PICK d : Back(d, n)
    <3>1. n \in Nat \ {0}
      BY <2>1
    <3> QED BY ONLY <3>1, BackSomewhere
  <2>3. /\ d \in Nat /\ Allowed(4, d) /\ IsMultiple(d, n)
        /\ Stretch(4, d) = 3 * d + 220 /\ Stretch(4, d) <= 4000
    <3>1. Near(n)
      BY <2>1
    <3> HIDE DEF Near
    <3>2. Reached(d, n)
      <4> HIDE DEF Reached
      <4> QED BY ONLY <1>2, <2>2, <3>1
    <3> QED BY <3>2
  <2> DEFINE D == Stretch(4, d)
  <2>4. Len(b) + D <= Settled
    <3>1. D \in Nat /\ D <= 4000
      BY <2>3
    <3> HIDE DEF D
    <3> QED BY <1>1, <1>3, <3>1
  <2>5. UnrolledOn(b, u, 4, d)
    BY <2>3, <2>4 DEF UnrolledOn, IsMultiple, n
  <2> QED BY <2>3, <2>5, EitherWay
<1>4. CASE /\ Solid(u) # {} /\ Cardinality(Solid(u)) <= 1260
           /\ Settled >= Len(b) + 4000 * Len(u)
  <2> DEFINE q == Cardinality(Solid(u))
  <2>1. q \in Nat \ {0} /\ q <= 1260
    <3>1. IsFiniteSet(1..Len(u)) /\ Solid(u) \subseteq 1..Len(u)
      BY <1>1, FS_Interval DEF Solid
    <3>2. IsFiniteSet(Solid(u))
      BY <3>1, FS_Subset
    <3>3. q \in Nat /\ q # 0
      BY <1>4, <3>2, FS_CardinalityType, FS_EmptySet
    <3> QED BY <1>4, <3>3
  <2> HIDE DEF q
  <2>2. PICK d : Back(d, q)
    <3>1. q \in Nat \ {0}
      BY <2>1
    <3> QED BY ONLY <3>1, BackSomewhere
  <2>3. /\ d \in Nat /\ Allowed(4, d) /\ IsMultiple(d, q)
        /\ Stretch(4, d) = 3 * d + 220 /\ Stretch(4, d) <= 4000
    <3>1. Near(q)
      BY <2>1
    <3> HIDE DEF Near
    <3>2. Reached(d, q)
      <4> HIDE DEF Reached
      <4> QED BY ONLY <1>2, <2>2, <3>1
    <3> QED BY <3>2
  <2>4. /\ 4000 \in 1..Settled /\ BlockLength <= Settled
        /\ Len(b) + 4000 * Len(u) <= Settled
    BY <1>1, <1>4
  <2> DEFINE D == Stretch(4, d)
  <2>5. 4000 * q >= D
    <3>1. D \in Nat /\ D <= 4000
      BY <2>3
    <3> HIDE DEF D
    <3> QED BY <2>1, <3>1
  <2>6. CountedOn(b, u, 4, d)
    BY <1>4, <2>3, <2>4, <2>5 DEF CountedOn, IsMultiple, q
  <2> QED BY <2>3, <2>6, EitherWay
<1> QED BY <1>3, <1>4

============================================================================
