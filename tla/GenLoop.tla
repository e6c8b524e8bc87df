------------------------------ MODULE GenLoop ------------------------------
(***************************************************************************)
(* One inference call: step 5 of LLMProviderPool._call (pool.py:1456-1636) *)
(* with the three pipelines it drives.                                     *)
(*                                                                         *)
(* The conversation is sent to the server; a reply with tool calls has     *)
(* them executed one by one and is answered by a longer conversation       *)
(* (inner for-loop); a final reply is judged by the loop guard and then by *)
(* the JSON parser, and either returned, refused, or retried with a        *)
(* correction appended (outer while-loop).                                 *)
(*                                                                         *)
(* A reply is abstracted to what the control flow looks at: its tool       *)
(* calls, whether a loop detector matches its text and whether the text    *)
(* parses and validates.  Texts, arguments, usage and logging are left     *)
(* out; building and sending one request (with the Ollama preload before   *)
(* it) is the step Send, its arrival the step that consumes the reply.     *)
(***************************************************************************)
EXTENDS Integers, Sequences, FiniteSets

CONSTANTS
  Arguments,   \* the argument records a caller may pass, see ArgumentRecord
  Replies,     \* what the model may answer, see Reply
  Names,       \* tool names a reply may use
  Registry,    \* the names with a handler in tool_registry
  Ids,         \* tool call ids a server may give
  NoName,      \* a call without a name: an incomplete streaming chunk
  NoId         \* a call without an id

(* range(max_tool_rounds + 1) is empty for every negative count: -1 stands *)
(* for all of them.  A negative retry budget behaves as zero.              *)
ArgumentRecord ==
  [rounds : Nat \cup {-1}, loops : Nat, jsons : Nat, structured : BOOLEAN]

RawCall == [name : Names \cup {NoName}, id : Ids \cup {NoId}]

Reply == [calls : Seq(RawCall), loops : BOOLEAN, parses : BOOLEAN]

ASSUME ArgumentsAssumption == Arguments \subseteq ArgumentRecord
ASSUME RepliesAssumption == Replies \subseteq Reply
ASSUME RegistryAssumption == Registry \subseteq Names
ASSUME NoNameAssumption == NoName \notin Names
ASSUME NoIdAssumption == NoId \notin Ids

VARIABLES
  args,        \* the arguments of this call
  pc,          \* stage of _call the coroutine is in
  toolRound,   \* tool_round of the inner loop
  loopUsed,    \* loop_retries_used
  jsonUsed,    \* json_retries_used
  msgs,        \* attempt_messages
  reply,       \* the last response received
  toolCalls,   \* normalized_tool_calls of the round in progress
  queue,       \* those execute_tool_calls has still to run
  execs,       \* executions: the results so far
  asked,       \* history: chat requests sent
  ran,         \* history: handler invocations, the effects on the outside
  outcome      \* how the call ended, "none" before

vars == <<args, pc, toolRound, loopUsed, jsonUsed, msgs, reply, toolCalls,
          queue, execs, asked, ran, outcome>>

budget == <<args, loopUsed, jsonUsed>>
round  == <<toolCalls, queue, execs>>

-----------------------------------------------------------------------------
(* The tool pipeline's pure parts.                                         *)

(* f"tool_call_{idx}": the id made up for the idx-th call of a reply.      *)
SlotId(idx) == <<"tool_call_", idx>>

CallId == Ids \cup ({"tool_call_"} \X Nat)

ToolCall == [name : Names, id : CallId]

Identified(call, idx) ==
  [name |-> call.name, id |-> IF call.id = NoId THEN SlotId(idx) ELSE call.id]

(* Nameless entries are dropped; the others keep their order, and idx      *)
(* counts the dropped ones too.                                            *)
Normalize(calls) ==
  LET kept[n \in 0..Len(calls)] ==
        IF n = 0 THEN <<>>
        ELSE IF calls[n].name = NoName THEN kept[n - 1]
        ELSE Append(kept[n - 1], Identified(calls[n], n - 1))
  IN  kept[Len(calls)]

(* What a call leads to: the handler's value or its exception, as JSON, or *)
(* the "Unknown tool" error.                                               *)
Results(name) == IF name \in Registry THEN {"value", "failed"} ELSE {"unknown"}

Execution == [id : CallId, name : Names, result : {"value", "failed", "unknown"}]

AssistantMessage(calls) == [role |-> "assistant", calls |-> calls]

ToolMessages(done) ==
  [i \in 1..Len(done) |-> [role |-> "tool", exec |-> done[i]]]

(* The prepared messages of the caller, and the system + user pair a       *)
(* pipeline appends to ask for a better answer, stand for one entry each.  *)
Prompt == [role |-> "prompt"]
LoopFix == [role |-> "loop fix"]
JsonFix == [role |-> "json fix"]

Message ==
  [role : {"assistant"}, calls : Seq(ToolCall)] \cup
  [role : {"tool"}, exec : Execution] \cup
  [role : {"prompt", "loop fix", "json fix"}]

(* text = "" before anything is received.  It is no loop, and no JSON.     *)
Blank == [calls |-> <<>>, loops |-> FALSE, parses |-> FALSE]

-----------------------------------------------------------------------------
(* The call.                                                               *)

Init ==
  /\ args \in Arguments
  /\ pc = "setup"
  /\ toolRound = 0 /\ loopUsed = 0 /\ jsonUsed = 0
  /\ msgs = <<>>
  /\ reply = Blank
  /\ toolCalls = <<>> /\ queue = <<>> /\ execs = <<>>
  /\ asked = 0 /\ ran = 0
  /\ outcome = "none"

End(how) == pc' = "done" /\ outcome' = how

(* Steps 1-4: messages and options prepared, the service restarted and the *)
(* model loaded where the provider needs it.  What those do to the server  *)
(* is the subject of ServerRestart; here they succeed or raise.            *)
Setup ==
  /\ pc = "setup"
  /\ pc' = "ask"
  /\ msgs' = <<Prompt>>
  /\ UNCHANGED <<budget, round, toolRound, reply, asked, ran, outcome>>

SetupFails ==
  /\ pc = "setup"
  /\ End("setup")
  /\ UNCHANGED <<budget, round, toolRound, msgs, reply, asked, ran>>

(* One iteration of the inner loop begins: the request goes out.           *)
Send ==
  /\ pc = "ask"
  /\ toolRound <= args.rounds
  /\ pc' = "wait"
  /\ asked' = asked + 1
  /\ UNCHANGED <<budget, round, toolRound, msgs, reply, ran, outcome>>

(* The inner loop has no iteration: text stays "" and is judged.           *)
NoRequest ==
  /\ pc = "ask"
  /\ toolRound > args.rounds
  /\ pc' = "judge"
  /\ reply' = Blank
  /\ UNCHANGED <<budget, round, toolRound, msgs, asked, ran, outcome>>

(* TransportError out of _stream_chat_sync: HTTP status, refused or broken *)
(* connection, timeout.  Nothing in _call catches it.                      *)
TransportFails ==
  /\ pc = "wait"
  /\ End("transport")
  /\ UNCHANGED <<budget, round, toolRound, msgs, reply, asked, ran>>

FinalReply(r) ==
  /\ pc = "wait"
  /\ r.calls = <<>>
  /\ pc' = "judge"
  /\ reply' = r
  /\ UNCHANGED <<budget, round, toolRound, msgs, asked, ran, outcome>>

RoundsExhausted(r) ==
  /\ pc = "wait"
  /\ r.calls # <<>>
  /\ toolRound >= args.rounds
  /\ End("tool rounds")
  /\ reply' = r
  /\ UNCHANGED <<budget, round, toolRound, msgs, asked, ran>>

(* Mutant of ToolReply: one round more than range(max_tool_rounds) has.    *)
ToolReplyOneTooMany(r) ==
  /\ pc = "wait"
  /\ r.calls # <<>>
  /\ toolRound <= args.rounds
  /\ pc' = "tools"
  /\ reply' = r
  /\ toolCalls' = Normalize(r.calls)
  /\ queue' = Normalize(toolCalls')
  /\ execs' = <<>>
  /\ UNCHANGED <<budget, toolRound, msgs, asked, ran, outcome>>

(* execute_tool_calls normalises what is already normalised.               *)
ToolReply(r) ==
  /\ pc = "wait"
  /\ r.calls # <<>>
  /\ toolRound < args.rounds
  /\ pc' = "tools"
  /\ reply' = r
  /\ toolCalls' = Normalize(r.calls)
  /\ queue' = Normalize(toolCalls')
  /\ execs' = <<>>
  /\ UNCHANGED <<budget, toolRound, msgs, asked, ran, outcome>>

(* Mutant of RunTool: a handler that raises leaves no execution behind.    *)
RunToolLosesFailures ==
  /\ pc = "tools"
  /\ queue # <<>>
  /\ LET call == Head(queue) IN
       /\ \E result \in Results(call.name) :
            execs' = IF result = "failed" THEN execs
                     ELSE Append(execs, [id |-> call.id, name |-> call.name,
                                         result |-> result])
       /\ ran' = IF call.name \in Registry THEN ran + 1 ELSE ran
  /\ queue' = Tail(queue)
  /\ UNCHANGED <<budget, toolRound, pc, msgs, reply, toolCalls, asked, outcome>>

(* The next call of the list runs to its end: handler(arguments), awaited  *)
(* when it is a coroutine, an exception turned into an error result; an    *)
(* unknown name only yields the error.                                     *)
RunTool ==
  /\ pc = "tools"
  /\ queue # <<>>
  /\ LET call == Head(queue) IN
       /\ \E result \in Results(call.name) :
            execs' = Append(execs, [id |-> call.id, name |-> call.name,
                                    result |-> result])
       /\ ran' = IF call.name \in Registry THEN ran + 1 ELSE ran
  /\ queue' = Tail(queue)
  /\ UNCHANGED <<budget, toolRound, pc, msgs, reply, toolCalls, asked, outcome>>

(* Mutants of FinishTools: the raw calls are recorded, nameless ones and   *)
(* missing ids included; the round is not counted.                         *)
FinishToolsRaw ==
  /\ pc = "tools"
  /\ queue = <<>>
  /\ msgs' = Append(msgs, AssistantMessage(reply.calls)) \o ToolMessages(execs)
  /\ toolRound' = toolRound + 1
  /\ toolCalls' = <<>> /\ execs' = <<>>
  /\ pc' = "ask"
  /\ UNCHANGED <<budget, queue, reply, asked, ran, outcome>>

FinishToolsUncounted ==
  /\ pc = "tools"
  /\ queue = <<>>
  /\ msgs' = Append(msgs, AssistantMessage(Normalize(toolCalls)))
                \o ToolMessages(execs)
  /\ toolCalls' = <<>> /\ execs' = <<>>
  /\ pc' = "ask"
  /\ UNCHANGED <<budget, toolRound, queue, reply, asked, ran, outcome>>

(* All executed: the round enters the conversation at once.                *)
FinishTools ==
  /\ pc = "tools"
  /\ queue = <<>>
  /\ msgs' = Append(msgs, AssistantMessage(Normalize(toolCalls)))
                \o ToolMessages(execs)
  /\ toolRound' = toolRound + 1
  /\ toolCalls' = <<>> /\ execs' = <<>>
  /\ pc' = "ask"
  /\ UNCHANGED <<budget, queue, reply, asked, ran, outcome>>

(* Mutant of Again: the retry starts over from the caller's messages.      *)
AgainFresh(fix) ==
  /\ pc' = "ask"
  /\ toolRound' = 0
  /\ msgs' = <<Prompt, fix>>
  /\ UNCHANGED <<args, round, reply, asked, ran, outcome>>

(* The outer loop once more, from tool round 0, on a longer conversation.  *)
Again(fix) ==
  /\ pc' = "ask"
  /\ toolRound' = 0
  /\ msgs' = Append(msgs, fix)
  /\ UNCHANGED <<args, round, reply, asked, ran, outcome>>

(* Mutant of LoopRetry: the retry is not counted.                          *)
LoopRetryUncounted ==
  /\ pc = "judge"
  /\ reply.loops
  /\ loopUsed < args.loops
  /\ Again(LoopFix)
  /\ UNCHANGED <<loopUsed, jsonUsed>>

LoopRetry ==
  /\ pc = "judge"
  /\ reply.loops
  /\ loopUsed < args.loops
  /\ loopUsed' = loopUsed + 1
  /\ Again(LoopFix)
  /\ UNCHANGED jsonUsed

LoopFails ==
  /\ pc = "judge"
  /\ reply.loops
  /\ loopUsed >= args.loops
  /\ End("loop")
  /\ UNCHANGED <<budget, round, toolRound, msgs, reply, asked, ran>>

Unparsable == ~reply.loops /\ args.structured /\ ~reply.parses

(* Mutant of JsonRetry: charged to the other budget.                       *)
JsonRetryMischarged ==
  /\ pc = "judge"
  /\ Unparsable
  /\ jsonUsed < args.jsons
  /\ loopUsed' = loopUsed + 1
  /\ Again(JsonFix)
  /\ UNCHANGED jsonUsed

JsonRetry ==
  /\ pc = "judge"
  /\ Unparsable
  /\ jsonUsed < args.jsons
  /\ jsonUsed' = jsonUsed + 1
  /\ Again(JsonFix)
  /\ UNCHANGED loopUsed

JsonFails ==
  /\ pc = "judge"
  /\ Unparsable
  /\ jsonUsed >= args.jsons
  /\ End("json")
  /\ UNCHANGED <<budget, round, toolRound, msgs, reply, asked, ran>>

(* Mutant of Return: parsed before the loop guard has its say.             *)
ReturnUnguarded ==
  /\ pc = "judge"
  /\ args.structured => reply.parses
  /\ End(IF args.structured THEN "parsed" ELSE "text")
  /\ UNCHANGED <<budget, round, toolRound, msgs, reply, asked, ran>>

Return ==
  /\ pc = "judge"
  /\ ~reply.loops
  /\ args.structured => reply.parses
  /\ End(IF args.structured THEN "parsed" ELSE "text")
  /\ UNCHANGED <<budget, round, toolRound, msgs, reply, asked, ran>>

(* asyncio cancels the coroutine at an await (requests, handlers, logger). *)
(* A handler that was running has been invoked all the same.               *)
Cancel ==
  /\ pc # "done"
  /\ End("cancelled")
  /\ \/ ran' = ran
     \/ /\ pc = "tools" /\ queue # <<>> /\ Head(queue).name \in Registry
        /\ ran' = ran + 1
  /\ UNCHANGED <<budget, round, toolRound, msgs, reply, asked>>

Step ==
  \/ Setup \/ SetupFails
  \/ Send \/ NoRequest \/ TransportFails
  \/ \E r \in Replies : FinalReply(r) \/ RoundsExhausted(r) \/ ToolReply(r)
  \/ RunTool \/ FinishTools
  \/ LoopRetry \/ LoopFails \/ JsonRetry \/ JsonFails \/ Return

(* A call that ended stays as it is.                                       *)
Ended == pc = "done" /\ UNCHANGED vars

Next == Step \/ Cancel \/ Ended

Safety == Init /\ [][Next]_vars

(* The event loop keeps scheduling the coroutine, every request ends by an *)
(* answer or by the transport's timeout, and handlers return.  Nobody has  *)
(* to cancel.                                                              *)
Spec == Safety /\ WF_vars(Step)

-----------------------------------------------------------------------------
(* Properties.                                                             *)

Pcs == {"setup", "ask", "wait", "tools", "judge", "done"}

Outcomes == {"none", "setup", "text", "parsed", "tool rounds", "loop", "json",
             "transport", "cancelled"}

(* The state is what _call's locals can hold: the inner loop never starts  *)
(* an iteration beyond the last, no retry budget is overdrawn, and a stage *)
(* that handles a reply has one of its kind.                               *)
TypeOK ==
  /\ args \in Arguments
  /\ pc \in Pcs
  /\ toolRound \in Nat
  /\ toolRound <= args.rounds \/ (toolRound = 0 /\ args.rounds = -1)
  /\ loopUsed \in 0..args.loops
  /\ jsonUsed \in 0..args.jsons
  /\ msgs \in Seq(Message)
  /\ reply \in Reply
  /\ toolCalls \in Seq(ToolCall) /\ queue \in Seq(ToolCall)
  /\ execs \in Seq(Execution)
  /\ asked \in Nat /\ ran \in Nat
  /\ outcome \in Outcomes
  /\ pc = "done" <=> outcome # "none"
  /\ pc = "setup" => msgs = <<>>
  /\ pc \in {"wait", "tools"} => args.rounds >= 0
  /\ pc = "tools" => toolRound < args.rounds
  /\ pc = "judge" => reply.calls = <<>>

(* Requests the three budgets of a call allow together.                    *)
Limit == (args.rounds + 1) * (1 + args.loops + args.jsons)

(* Tool rounds, loop retries and JSON retries multiply, but they cannot    *)
(* feed each other: whatever the model answers, one call never asks more   *)
(* than Limit times (pool.py:1472-1627).                                   *)
RequestsBounded == asked <= Limit

Count(role) == Cardinality({i \in DOMAIN msgs : msgs[i].role = role})

(* No reply is forgotten and none is counted twice: every request sent so  *)
(* far left exactly one trace in the conversation, a tool round or a       *)
(* correction, except the one in hand; and the retries used are the        *)
(* corrections the model was shown.                                        *)
EveryReplyAccounted ==
  /\ Count("loop fix") = loopUsed
  /\ Count("json fix") = jsonUsed
  /\ args.rounds >= 0 /\ pc # "done" =>
       asked = Count("assistant") + loopUsed + jsonUsed
                 + (IF pc \in {"wait", "tools", "judge"} THEN 1 ELSE 0)

(* The conversation sent is always one a chat server accepts: each tool    *)
(* call of an assistant message is answered, in order and under its id, by *)
(* the tool messages right after it, and no tool message stands alone -    *)
(* dropped nameless calls, made-up ids and the three passes of             *)
(* normalize_tool_calls notwithstanding (tool.py:63-171).                  *)
ToolRepliesPaired ==
  /\ \A i \in DOMAIN msgs : msgs[i].role = "assistant" =>
       \A k \in DOMAIN msgs[i].calls :
          /\ i + k \in DOMAIN msgs
          /\ msgs[i + k].role = "tool"
          /\ msgs[i + k].exec.id = msgs[i].calls[k].id
          /\ msgs[i + k].exec.name = msgs[i].calls[k].name
  /\ \A i \in DOMAIN msgs : msgs[i].role = "tool" =>
       \E j \in 1..(i - 1) :
          msgs[j].role = "assistant" /\ i - j \in DOMAIN msgs[j].calls

RecordedEffects ==
  Cardinality({i \in DOMAIN msgs :
                 msgs[i].role = "tool" /\ msgs[i].exec.result # "unknown"})
  + Cardinality({i \in DOMAIN execs : execs[i].result # "unknown"})

(* The model is told of every effect: a handler that ran, whether it       *)
(* returned or raised, has its result in the conversation or in the round  *)
(* in progress, exactly once; only a cancellation can lose one, the one    *)
(* that was running.                                                       *)
EffectsRecorded ==
  /\ outcome # "cancelled" => ran = RecordedEffects
  /\ ran \in RecordedEffects..(RecordedEffects + 1)

(* A call returns only a text that was judged good, and raises only when   *)
(* the budget the error names is spent.                                    *)
OutcomeJustified ==
  /\ outcome \in {"text", "parsed"} =>
       /\ reply.calls = <<>>
       /\ ~reply.loops
       /\ outcome = "parsed" <=> args.structured
       /\ args.structured => reply.parses
  /\ outcome = "tool rounds" => reply.calls # <<>> /\ toolRound = args.rounds
  /\ outcome = "loop" => reply.loops /\ loopUsed = args.loops
  /\ outcome = "json" => args.structured /\ ~reply.parses /\ jsonUsed = args.jsons

(* Corrections and tool rounds are only ever appended: what the model has  *)
(* been shown is never edited or dropped by a later attempt.               *)
HistoryKept ==
  [][Len(msgs) <= Len(msgs') /\ SubSeq(msgs', 1, Len(msgs)) = msgs]_vars

Status ==
  IF pc # "done" THEN "working"
  ELSE IF outcome \in {"text", "parsed"} THEN "answered"
  ELSE IF outcome = "cancelled" THEN "cancelled"
  ELSE "failed"

Call == INSTANCE BoundedCall WITH limit <- Limit, status <- Status

(* The generation loop keeps the promise of BoundedCall, its liveness      *)
(* included: every call comes to an end, whatever the model keeps          *)
(* answering.                                                              *)
Contract == Call!Spec

(* pool.py:164-166: max_tool_rounds is the "Maximum tool-call /            *)
(* tool-result round trips before raising".                                *)
ToolTripsWithinMax == Count("assistant") <= args.rounds \/ args.rounds < 0

=============================================================================
