----------------------------- MODULE StreamLog -----------------------------
(***************************************************************************)
(* Streams and the log: _stream_chat_sync (pool.py:622-751) assembles a    *)
(* reply from the lines of a stream, in a worker thread, and writes its    *)
(* pieces to the log; _call (pool.py:1484-1634) writes the request before  *)
(* it and the verdict after it.  AsyncLLMLogger (llm_logger.py) keeps the  *)
(* state of one call, but a pool's calls share it.                         *)
(*                                                                         *)
(* The lock makes each write atomic.  It does not keep calls apart, nor a  *)
(* call from the stream of one that was cancelled and still runs.          *)
(***************************************************************************)
EXTENDS Naturals, Sequences, FiniteSets

CONSTANTS
  Calls,        \* calls that share one logger
  Concurrency,  \* calls the program keeps in flight
  Formats,      \* BOOLEAN or a part of it: TRUE for Ollama's own format
  MaxRequests,  \* bound on requests: tool rounds and retries of all calls
  MaxDeltas,    \* bound on texts and lists of tool calls of all streams
  MaxParts      \* bound on pieces of one tool call's arguments

ASSUME ConcurrencyAssumption == Concurrency \in Nat \ {0}
ASSUME FormatsAssumption == Formats \subseteq BOOLEAN
ASSUME MaxRequestsAssumption == MaxRequests \in Nat
ASSUME MaxDeltasAssumption == MaxDeltas \in Nat
ASSUME MaxPartsAssumption == MaxParts \in Nat

(* A piece of text is named by the count of deltas, a piece of a tool      *)
(* call's arguments by the tool call and its place in them.                *)
Kinds == {"think", "say"}
Part == Nat \X Nat
Slot == [index : Nat, name : Nat, arguments : Seq(Part)]
Reply == [think : Seq(Nat), say : Seq(Nat), tools : Seq(Slot)]
NoReply == [think |-> <<>>, say |-> <<>>, tools |-> <<>>]

(* What is written: a request or a footer with its number, a heading, a    *)
(* piece of text (0: the whole text of a reply, once more), or an |INFO|.  *)
Headings == {"[THINKING]", "[MESSAGE]"}
Entry == [is : Kinds \cup Headings \cup {"request", "info", "end"}, nr : Nat]
Line(is, nr) == [is |-> is, nr |-> nr]

Logger == [callNum : Nat, logEndWritten : BOOLEAN, inThinking : BOOLEAN,
           firstChunkWritten : BOOLEAN, file : Seq(Entry)]

VARIABLES
  native,    \* the format of the streams; fixed at the start
  log,       \* the logger and its file
  pc,        \* stage of each call
  number,    \* _call_num as each call's latest request set it
  thread,    \* whether the call's stream is being read
  deltas,    \* texts and lists of tool calls taken from all streams so far
  reply,     \* what the stream has come to
  meant,     \* history: what the model put into its tool calls
  mixed      \* history: requests in whose record another call wrote

vars == <<native, log, pc, number, thread, deltas, reply, meant, mixed>>
stream == <<thread, deltas, reply, meant>>

InFlight == {c \in Calls : pc[c] \in {"stream", "judge", "again"}}

Init ==
  /\ native \in Formats
  /\ log = [callNum |-> 0, logEndWritten |-> FALSE, inThinking |-> FALSE,
            firstChunkWritten |-> FALSE, file |-> <<>>]
  /\ pc = [c \in Calls |-> "idle"]
  /\ number = [c \in Calls |-> 0]
  /\ thread = [c \in Calls |-> FALSE]
  /\ deltas = 0
  /\ reply = [c \in Calls |-> NoReply]
  /\ meant = [c \in Calls |-> <<>>]
  /\ mixed = {}

-----------------------------------------------------------------------------
(* The logger.                                                             *)

(* Mutants of LogRequest: the number, the footer's flag or the section of  *)
(* the last record is kept.                                                *)
LogRequestUncounted(l) ==
  [l EXCEPT !.logEndWritten = FALSE, !.firstChunkWritten = FALSE,
            !.inThinking = FALSE, !.file = Append(@, Line("request", l.callNum + 1))]

LogRequestStillEnded(l) ==
  [l EXCEPT !.callNum = @ + 1, !.firstChunkWritten = FALSE,
            !.inThinking = FALSE, !.file = Append(@, Line("request", l.callNum + 1))]

LogRequestInSection(l) ==
  [l EXCEPT !.callNum = @ + 1, !.logEndWritten = FALSE, !.firstChunkWritten = FALSE,
            !.file = Append(@, Line("request", l.callNum + 1))]

LogRequest(l) ==
  [l EXCEPT !.callNum = @ + 1, !.logEndWritten = FALSE, !.firstChunkWritten = FALSE,
            !.inThinking = FALSE, !.file = Append(@, Line("request", l.callNum + 1))]

Heading(l, kind) ==
  IF kind = "think" /\ ~l.inThinking THEN <<Line("[THINKING]", 0)>>
  ELSE IF kind = "say" /\ (l.inThinking \/ ~l.firstChunkWritten) THEN <<Line("[MESSAGE]", 0)>>
  ELSE <<>>

WriteOutputChunk(l, kind, nr) ==
  [l EXCEPT !.inThinking = (kind = "think"), !.firstChunkWritten = TRUE,
            !.file = @ \o Heading(l, kind) \o <<Line(kind, nr)>>]

(* Mutant of WriteEnd: a record may be closed twice.                       *)
WriteEndAgain(l) ==
  [l EXCEPT !.logEndWritten = TRUE, !.inThinking = FALSE,
            !.file = Append(@, Line("end", l.callNum))]

WriteEnd(l) ==
  IF l.logEndWritten THEN l
  ELSE [l EXCEPT !.logEndWritten = TRUE, !.inThinking = FALSE,
                 !.file = Append(@, Line("end", l.callNum))]

LogInfo(l) == [l EXCEPT !.file = Append(@, Line("info", 0))]

LogResponse(l) == WriteEnd(LogInfo(WriteOutputChunk(l, "say", 0)))

(* A write by c goes to the latest request's record, whoever made that.    *)
Mixes(c) == IF number[c] = log.callNum THEN {} ELSE {number[c], log.callNum}

-----------------------------------------------------------------------------
(* The stream's thread.                                                    *)

(* What a line may carry of tool calls: fragments, each of a call (in the  *)
(* order the model makes them) with or without a piece of its arguments.   *)
(* OpenAI's format gives the call's index and sends its id and name with   *)
(* the first fragment.  Ollama's lists all calls of a reply in one line.   *)
Fragment == [call : Nat, first : BOOLEAN, parts : Seq(Part)]

Fragments(c) ==
  LET known == Len(meant[c])
      Opens(k) == { [call |-> k, first |-> TRUE, parts |-> p] : p \in {<<>>, <<<<k, 1>>>>} }
      Goes(k) == [call |-> k, first |-> FALSE, parts |-> <<<<k, meant[c][k] + 1>>>>]
      More == { Goes(k) : k \in {j \in 1..known : meant[c][j] < MaxParts} }
  IN  IF native
      THEN IF known > 0 THEN {} ELSE
             { <<f>> : f \in Opens(1) } \cup { <<f, g>> : f \in Opens(1), g \in Opens(2) }
      ELSE { <<f>> : f \in More }
             \cup (IF known = 2 THEN {} ELSE { <<f>> : f \in Opens(known + 1) })
             \cup (IF known # 1 THEN {} ELSE { <<f, g>> : f \in More, g \in Opens(2) })

Meant(m, f) ==
  IF f.first THEN Append(m, Len(f.parts)) ELSE [m EXCEPT ![f.call] = @ + Len(f.parts)]

(* Mutant of IndexOf: the place in the line, in either format.             *)
IndexInLine(f, place) == place - 1

(* Where a fragment goes: tc["index"], or enumerate's count for Ollama.    *)
IndexOf(f, place) == IF native THEN place - 1 ELSE f.call - 1

(* tool_calls_acc after one fragment; a first fragment sets id and name.   *)
Accumulate(acc, f, place) ==
  LET index == IndexOf(f, place)
      Given(name, arguments) == [index |-> index, name |-> IF f.first THEN f.call ELSE name,
                                 arguments |-> arguments \o f.parts]
  IN  IF \A i \in 1..Len(acc) : acc[i].index # index
      THEN Append(acc, Given(0, <<>>))
      ELSE [i \in 1..Len(acc) |-> IF acc[i].index # index THEN acc[i]
                                  ELSE Given(acc[i].name, acc[i].arguments)]

AccumulateLine(acc, fs) ==
  IF Len(fs) = 0 THEN acc
  ELSE IF Len(fs) = 1 THEN Accumulate(acc, fs[1], 1)
  ELSE Accumulate(Accumulate(acc, fs[1], 1), fs[2], 2)

MeantLine(m, fs) ==
  IF Len(fs) = 0 THEN m
  ELSE IF Len(fs) = 1 THEN Meant(m, fs[1])
  ELSE Meant(Meant(m, fs[1]), fs[2])

WithText(r, kind, nr) ==
  IF kind = "think" THEN [r EXCEPT !.think = Append(@, nr)] ELSE [r EXCEPT !.say = Append(@, nr)]

(* A delta of text: appended to the reply, then _fire_log.  A line with    *)
(* several deltas, or with text and tool calls, is taken as several.       *)
TakeText(c, kind) ==
  /\ thread[c] /\ deltas < MaxDeltas
  /\ deltas' = deltas + 1
  /\ reply' = [reply EXCEPT ![c] = WithText(@, kind, deltas + 1)]
  /\ log' = WriteOutputChunk(log, kind, deltas + 1)
  /\ mixed' = mixed \cup Mixes(c)
  /\ UNCHANGED <<native, pc, number, thread, meant>>

(* The tool calls of a line.                                               *)
TakeTools(c, fs) ==
  /\ thread[c] /\ deltas < MaxDeltas
  /\ deltas' = deltas + 1
  /\ reply' = [reply EXCEPT ![c].tools = AccumulateLine(@, fs)]
  /\ meant' = [meant EXCEPT ![c] = MeantLine(@, fs)]
  /\ UNCHANGED <<native, log, pc, number, thread, mixed>>

(* If the reply has no reasoning of its own, that may be in a <think>      *)
(* block at the start of its content: here, the first n pieces.            *)
Normalized(r, n) ==
  [r EXCEPT !.think = @ \o SubSeq(r.say, 1, n), !.say = SubSeq(@, n + 1, Len(@))]

(* "[DONE]", or just the end of the lines.                                 *)
StreamEnds(c) ==
  /\ thread[c]
  /\ thread' = [thread EXCEPT ![c] = FALSE]
  /\ pc' = IF pc[c] = "stream" THEN [pc EXCEPT ![c] = "judge"] ELSE pc
  /\ \E n \in 0..Len(reply[c].say) :
       /\ n = 0 \/ reply[c].think = <<>>
       /\ reply' = [reply EXCEPT ![c] = Normalized(@, n)]
  /\ UNCHANGED <<native, log, number, deltas, meant, mixed>>

(* HTTP error, timeout or broken connection.  The log is left as it is.    *)
StreamFails(c) ==
  /\ thread[c]
  /\ thread' = [thread EXCEPT ![c] = FALSE]
  /\ pc' = IF pc[c] = "stream" THEN [pc EXCEPT ![c] = "failed"] ELSE pc
  /\ UNCHANGED <<native, log, number, deltas, reply, meant, mixed>>

-----------------------------------------------------------------------------
(* The call's coroutine.                                                   *)

Ask(c) ==
  /\ pc[c] = "again" \/ (pc[c] = "idle" /\ Cardinality(InFlight) < Concurrency)
  /\ log.callNum < MaxRequests
  /\ log' = LogRequest(log)
  /\ number' = [number EXCEPT ![c] = log.callNum + 1]
  /\ pc' = [pc EXCEPT ![c] = "stream"]
  /\ thread' = [thread EXCEPT ![c] = TRUE]
  /\ reply' = [reply EXCEPT ![c] = NoReply]
  /\ meant' = [meant EXCEPT ![c] = <<>>]
  /\ UNCHANGED <<native, deltas, mixed>>

(* Tools run, their results are logged, another request follows.  Nothing  *)
(* closes the record.                                                      *)
ToolRound(c) ==
  /\ pc[c] = "judge"
  /\ reply[c].tools # <<>>
  /\ log' = LogInfo(log)
  /\ mixed' = mixed \cup Mixes(c)
  /\ pc' = [pc EXCEPT ![c] = "again"]
  /\ UNCHANGED <<native, number, stream>>

(* The rounds are used up: an error, which is not logged.                  *)
RoundsExhausted(c) ==
  /\ pc[c] = "judge"
  /\ reply[c].tools # <<>>
  /\ pc' = [pc EXCEPT ![c] = "failed"]
  /\ UNCHANGED <<native, log, number, stream, mixed>>

(* The loop guard or the JSON check refuses the text: log_response, then a *)
(* retry or an error.                                                      *)
Reject(c) ==
  /\ pc[c] = "judge"
  /\ reply[c].tools = <<>>
  /\ log' = LogResponse(log)
  /\ mixed' = mixed \cup Mixes(c)
  /\ \E next \in {"again", "failed"} : pc' = [pc EXCEPT ![c] = next]
  /\ UNCHANGED <<native, number, stream>>

(* log_end, then the parsed document if one was asked for; the result is   *)
(* returned.                                                               *)
Accept(c) ==
  /\ pc[c] = "judge"
  /\ reply[c].tools = <<>>
  /\ log' \in {WriteEnd(log), LogInfo(WriteEnd(log))}
  /\ mixed' = mixed \cup Mixes(c)
  /\ pc' = [pc EXCEPT ![c] = "ok"]
  /\ UNCHANGED <<native, number, stream>>

(* The coroutine is cancelled; its thread reads on.                        *)
Cancel(c) ==
  /\ pc[c] = "stream"
  /\ pc' = [pc EXCEPT ![c] = "failed"]
  /\ UNCHANGED <<native, log, number, stream, mixed>>

Next ==
  \E c \in Calls :
    \/ Ask(c)
    \/ \E kind \in Kinds : TakeText(c, kind)
    \/ \E fs \in Fragments(c) : TakeTools(c, fs)
    \/ StreamEnds(c) \/ StreamFails(c)
    \/ ToolRound(c) \/ RoundsExhausted(c) \/ Reject(c) \/ Accept(c) \/ Cancel(c)

Spec == Init /\ [][Next]_vars

-----------------------------------------------------------------------------
(* Properties.                                                             *)

file == log.file

(* The state is that of calls, streams and a logger.                       *)
TypeOK ==
  /\ native \in Formats
  /\ log \in Logger
  /\ pc \in [Calls -> {"idle", "stream", "judge", "again", "ok", "failed"}]
  /\ number \in [Calls -> 0..log.callNum]
  /\ thread \in [Calls -> BOOLEAN]
  /\ deltas \in 0..MaxDeltas
  /\ reply \in [Calls -> Reply]
  /\ meant \in [Calls -> Seq(Nat)]
  /\ mixed \subseteq 0..log.callNum

(* Whatever calls overlap, a request's record has at most one footer, in   *)
(* its place and with its number ("Idempotent", llm_logger.py:226).        *)
OneFooterPerRecord ==
  \A j \in 1..Len(file) : file[j].is = "end" =>
    \E i \in 1..(j - 1) :
      /\ file[i] = Line("request", file[j].nr)
      /\ \A k \in (i + 1)..(j - 1) : file[k].is \notin {"request", "end"}

(* Whatever calls overlap, in a record that is open every text stands      *)
(* under a heading of its kind.                                            *)
TextsUnderTheirHeading ==
  \A j \in 1..Len(file) :
    /\ file[j].is \in Kinds
    /\ \E i \in 1..(j - 1) :
         file[i].is = "request" /\ \A k \in (i + 1)..(j - 1) : file[k].is # "end"
    => \E i \in 1..(j - 1) :
         /\ file[i].is = IF file[j].is = "think" THEN "[THINKING]" ELSE "[MESSAGE]"
         /\ \A k \in (i + 1)..(j - 1) : file[k].is \notin Headings \cup {"request"}

(* The places of a request's record in a file.                             *)
Record(f, n) ==
  {j \in 1..Len(f) : \E i \in 1..(j - 1) :
     /\ f[i] = Line("request", n)
     /\ \A k \in (i + 1)..j : f[k].is # "request"}

(* Its entries of a kind have the numbers in s, in that order.             *)
Tells(f, n, kind, s) ==
  LET entries == {j \in Record(f, n) : f[j].is = kind}
  IN  /\ Cardinality(entries) = Len(s)
      /\ \A j \in entries : f[j].nr = s[Cardinality({i \in entries : i <= j})]

(* A record nobody else wrote in tells the reply as the caller gets it     *)
(* (a <think> block as the model sent it, in the message), and is closed   *)
(* when the call returns, whatever calls before it left of the logger's    *)
(* flags.                                                                  *)
LogTellsReply ==
  \A c \in Calls : number[c] \notin mixed =>
    /\ pc[c] \in {"judge", "ok"} =>
         \/ /\ Tells(file, number[c], "think", reply[c].think)
            /\ Tells(file, number[c], "say", reply[c].say)
         \/ /\ Tells(file, number[c], "think", <<>>)
            /\ Tells(file, number[c], "say", reply[c].think \o reply[c].say)
    /\ pc[c] = "ok" => Tells(file, number[c], "end", <<number[c]>>)

(* However the stream splits and interleaves tool calls, none is merged    *)
(* into another or loses a piece of its arguments.                         *)
ToolCallsApart ==
  \A c \in Calls :
    /\ Len(reply[c].tools) = Len(meant[c])
    /\ \A k \in 1..Len(meant[c]) :
         /\ reply[c].tools[k].name = k
         /\ reply[c].tools[k].arguments = [j \in 1..meant[c][k] |-> <<k, j>>]

=============================================================================
