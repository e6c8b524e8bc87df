-------------------------- MODULE StreamLogProofs --------------------------
(***************************************************************************)
(* Theorems about StreamLog, for any number of calls, requests, deltas and *)
(* pieces of arguments, however the calls overlap.                         *)
(***************************************************************************)
EXTENDS StreamLog, FiniteSetTheorems, SequenceTheorems, TLAPS

(* The logger's operations keep its type.                                  *)
LEMMA LineType ==
  ASSUME NEW is \in Kinds \cup Headings \cup {"request", "info", "end"}, NEW nr \in Nat
  PROVE  Line(is, nr) \in Entry
BY DEF Line, Entry

LEMMA LogRequestType ==
  ASSUME NEW l \in Logger
  PROVE  LogRequest(l) \in Logger /\ LogRequest(l).callNum = l.callNum + 1
<1>1. Line("request", l.callNum + 1) \in Entry
  <2>1. l.callNum + 1 \in Nat
    BY DEF Logger
  <2> QED BY <2>1, LineType
<1>2. Append(l.file, Line("request", l.callNum + 1)) \in Seq(Entry) /\ l.callNum + 1 \in Nat
  BY <1>1 DEF Logger
<1> QED BY <1>2 DEF LogRequest, Logger

LEMMA WriteOutputChunkType ==
  ASSUME NEW l \in Logger, NEW kind \in Kinds, NEW nr \in Nat
  PROVE  /\ WriteOutputChunk(l, kind, nr) \in Logger
         /\ WriteOutputChunk(l, kind, nr).callNum = l.callNum
         /\ Heading(l, kind) \in Seq(Entry)
<1>1. Line(kind, nr) \in Entry /\ \A h \in Headings : Line(h, 0) \in Entry
  BY LineType
<1>2. Heading(l, kind) \in Seq(Entry)
  <2>1. <<Line("[THINKING]", 0)>> \in Seq(Entry) /\ <<Line("[MESSAGE]", 0)>> \in Seq(Entry)
    BY <1>1 DEF Headings
  <2>2. <<>> \in Seq(Entry)
    OBVIOUS
  <2> QED BY <2>1, <2>2 DEF Heading
<1>3. l.file \o Heading(l, kind) \o <<Line(kind, nr)>> \in Seq(Entry)
  BY <1>1, <1>2 DEF Logger
<1>4. (kind = "think") \in BOOLEAN
  OBVIOUS
<1> QED BY <1>2, <1>3, <1>4 DEF WriteOutputChunk, Logger

LEMMA WriteEndType ==
  ASSUME NEW l \in Logger
  PROVE  WriteEnd(l) \in Logger /\ WriteEnd(l).callNum = l.callNum
<1>1. Line("end", l.callNum) \in Entry
  BY LineType DEF Logger
<1>2. Append(l.file, Line("end", l.callNum)) \in Seq(Entry)
  BY <1>1 DEF Logger
<1> QED BY <1>2 DEF WriteEnd, Logger

LEMMA LogInfoType ==
  ASSUME NEW l \in Logger
  PROVE  LogInfo(l) \in Logger /\ LogInfo(l).callNum = l.callNum
<1>1. Line("info", 0) \in Entry
  BY LineType
<1>2. Append(l.file, Line("info", 0)) \in Seq(Entry)
  BY <1>1 DEF Logger
<1> QED BY <1>2 DEF LogInfo, Logger

LEMMA LogResponseType ==
  ASSUME NEW l \in Logger
  PROVE  LogResponse(l) \in Logger /\ LogResponse(l).callNum = l.callNum
<1>1. /\ WriteOutputChunk(l, "say", 0) \in Logger
      /\ WriteOutputChunk(l, "say", 0).callNum = l.callNum
  BY WriteOutputChunkType DEF Kinds
<1>2. /\ LogInfo(WriteOutputChunk(l, "say", 0)) \in Logger
      /\ LogInfo(WriteOutputChunk(l, "say", 0)).callNum = l.callNum
  BY <1>1, LogInfoType
<1> QED BY <1>2, WriteEndType DEF LogResponse

(* Fragments, and what they are accumulated to.                            *)
LEMMA FragmentsType ==
  ASSUME TypeOK, NEW c \in Calls, NEW fs \in Fragments(c)
  PROVE  /\ fs \in Seq(Fragment) /\ Len(fs) \in 0..2
         /\ \A i \in 1..Len(fs) : fs[i].call >= 1 /\ (~fs[i].first => fs[i].call \in 1..Len(meant[c]))
<1> DEFINE known == Len(meant[c])
           Opens(k) == { [call |-> k, first |-> TRUE, parts |-> p] : p \in {<<>>, <<<<k, 1>>>>} }
           Goes(k) == [call |-> k, first |-> FALSE, parts |-> <<<<k, meant[c][k] + 1>>>>]
           More == { Goes(k) : k \in {j \in 1..known : meant[c][j] < MaxParts} }
           Good(f) == f \in Fragment /\ f.call >= 1 /\ (~f.first => f.call \in 1..known)
<1>1. meant[c] \in Seq(Nat) /\ known \in Nat
  BY DEF TypeOK
<1>2. \A k \in Nat \ {0} : \A f \in Opens(k) : Good(f)
  <2> SUFFICES ASSUME NEW k \in Nat \ {0}, NEW p \in {<<>>, <<<<k, 1>>>>}
               PROVE  Good([call |-> k, first |-> TRUE, parts |-> p])
    OBVIOUS
  <2>1. <<>> \in Seq(Part) /\ <<<<k, 1>>>> \in Seq(Part)
    BY DEF Part
  <2>2. p \in Seq(Part)
    BY <2>1
  <2> QED BY <2>2 DEF Fragment
<1>3. \A f \in More : Good(f)
  <2> SUFFICES ASSUME NEW k \in 1..known PROVE Good(Goes(k))
    OBVIOUS
  <2>1. meant[c][k] + 1 \in Nat
    BY <1>1
  <2>2. <<<<k, meant[c][k] + 1>>>> \in Seq(Part)
    BY <2>1 DEF Part
  <2> QED BY <2>2 DEF Fragment
<1>4. \/ \E f \in More \cup Opens(1) \cup Opens(known + 1) : fs = <<f>>
      \/ \E f \in More \cup Opens(1), g \in Opens(2) : fs = <<f, g>>
  BY DEF Fragments
<1>5. \A f \in More \cup Opens(1) \cup Opens(known + 1) \cup Opens(2) : Good(f)
  BY <1>1, <1>2, <1>3
<1> HIDE DEF More, Opens
<1>6. CASE \E f \in More \cup Opens(1) \cup Opens(known + 1) : fs = <<f>>
  <2>1. PICK f \in More \cup Opens(1) \cup Opens(known + 1) : fs = <<f>>
    BY <1>6
  <2>2. Good(f)
    BY <1>5
  <2> QED BY <2>1, <2>2
<1>7. CASE \E f \in More \cup Opens(1), g \in Opens(2) : fs = <<f, g>>
  <2>1. PICK f \in More \cup Opens(1), g \in Opens(2) : fs = <<f, g>>
    BY <1>7
  <2>2. Good(f) /\ Good(g)
    BY <1>5
  <2> QED BY <2>1, <2>2
<1> QED BY <1>4, <1>6, <1>7

LEMMA AccumulateType ==
  ASSUME NEW acc \in Seq(Slot), NEW f \in Fragment, NEW place \in Nat \ {0}, f.call >= 1
  PROVE  Accumulate(acc, f, place) \in Seq(Slot)
<1> DEFINE index == IndexOf(f, place)
           Given(name, arguments) == [index |-> index, name |-> IF f.first THEN f.call ELSE name,
                                      arguments |-> arguments \o f.parts]
           Kept(i) == IF acc[i].index # index THEN acc[i] ELSE Given(acc[i].name, acc[i].arguments)
<1>1. index \in Nat
  BY DEF IndexOf, Fragment
<1>2. \A name \in Nat, arguments \in Seq(Part) : Given(name, arguments) \in Slot
  <2> SUFFICES ASSUME NEW name \in Nat, NEW arguments \in Seq(Part)
               PROVE  Given(name, arguments) \in Slot
    OBVIOUS
  <2>1. arguments \o f.parts \in Seq(Part) /\ f.call \in Nat
    BY DEF Fragment
  <2> QED BY <1>1, <2>1 DEF Slot
<1> HIDE DEF index, Given
<1>3. Append(acc, Given(0, <<>>)) \in Seq(Slot)
  <2>1. <<>> \in Seq(Part) /\ 0 \in Nat
    OBVIOUS
  <2>2. Given(0, <<>>) \in Slot
    BY <1>2, <2>1
  <2> QED BY <2>2
<1>4. [i \in 1..Len(acc) |-> Kept(i)] \in Seq(Slot)
  <2>1. \A i \in 1..Len(acc) : acc[i] \in Slot
    OBVIOUS
  <2>2. \A i \in 1..Len(acc) : acc[i].name \in Nat /\ acc[i].arguments \in Seq(Part)
    BY <2>1 DEF Slot
  <2>3. \A i \in 1..Len(acc) : Kept(i) \in Slot
    BY <1>2, <2>1, <2>2
  <2> HIDE DEF Kept
  <2> QED BY <2>3
<1> USE DEF index, Given
<1>5. CASE \A i \in 1..Len(acc) : acc[i].index # index
  <2>1. Accumulate(acc, f, place) = Append(acc, Given(0, <<>>))
    BY <1>5, Zenon DEF Accumulate
  <2> QED BY <1>3, <2>1
<1>6. CASE ~ \A i \in 1..Len(acc) : acc[i].index # index
  <2>1. Accumulate(acc, f, place) = [i \in 1..Len(acc) |-> Kept(i)]
    BY <1>6, Zenon DEF Accumulate
  <2> QED BY <1>4, <2>1
<1> QED BY <1>5, <1>6

LEMMA MeantType ==
  ASSUME NEW m \in Seq(Nat), NEW f \in Fragment, ~f.first => f.call \in 1..Len(m)
  PROVE  Meant(m, f) \in Seq(Nat) /\ Len(Meant(m, f)) >= Len(m)
<1>1. Len(f.parts) \in Nat
  BY DEF Fragment
<1>2. CASE f.first
  BY <1>1, <1>2 DEF Meant
<1>3. CASE ~f.first
  <2>1. m[f.call] + Len(f.parts) \in Nat
    BY <1>1, <1>3
  <2> QED BY <1>3, <2>1 DEF Meant
<1> QED BY <1>2, <1>3 DEF Fragment

LEMMA WithTextType ==
  ASSUME NEW r \in Reply, NEW kind \in Kinds, NEW nr \in Nat
  PROVE  WithText(r, kind, nr) \in Reply
<1>1. Append(r.think, nr) \in Seq(Nat) /\ Append(r.say, nr) \in Seq(Nat)
  BY DEF Reply
<1> QED BY <1>1 DEF WithText, Reply

LEMMA NormalizedType ==
  ASSUME NEW r \in Reply, NEW n \in 0..Len(r.say)
  PROVE  Normalized(r, n) \in Reply
<1>1. r.say \in Seq(Nat) /\ r.think \in Seq(Nat)
  BY DEF Reply
<1>2. SubSeq(r.say, 1, n) \in Seq(Nat) /\ SubSeq(r.say, n + 1, Len(r.say)) \in Seq(Nat)
  BY <1>1
<1>3. r.think \o SubSeq(r.say, 1, n) \in Seq(Nat)
  BY <1>1, <1>2
<1> QED BY <1>2, <1>3 DEF Normalized, Reply

LEMMA LineTypes ==
  ASSUME TypeOK, NEW c \in Calls, NEW fs \in Fragments(c)
  PROVE  /\ AccumulateLine(reply[c].tools, fs) \in Seq(Slot)
         /\ MeantLine(meant[c], fs) \in Seq(Nat)
<1> DEFINE acc == reply[c].tools
           m == meant[c]
<1>1. acc \in Seq(Slot) /\ m \in Seq(Nat)
  BY DEF TypeOK, Reply
<1>2. /\ fs \in Seq(Fragment) /\ Len(fs) \in 0..2
      /\ \A i \in 1..Len(fs) : fs[i].call >= 1 /\ (~fs[i].first => fs[i].call \in 1..Len(m))
  BY FragmentsType
<1> HIDE DEF acc, m
<1>3. CASE Len(fs) = 0
  BY <1>1, <1>3 DEF AccumulateLine, MeantLine, acc, m
<1>4. CASE Len(fs) >= 1
  <2>1. fs[1] \in Fragment /\ fs[1].call >= 1 /\ (~fs[1].first => fs[1].call \in 1..Len(m))
    BY <1>2, <1>4
  <2>2. Accumulate(acc, fs[1], 1) \in Seq(Slot)
    BY <1>1, <2>1, AccumulateType
  <2>3. Meant(m, fs[1]) \in Seq(Nat) /\ Len(Meant(m, fs[1])) >= Len(m)
    BY <1>1, <2>1, MeantType
  <2>4. CASE Len(fs) = 1
    BY <2>2, <2>3, <2>4 DEF AccumulateLine, MeantLine, acc, m
  <2>5. CASE Len(fs) = 2
    <3>1. fs[2] \in Fragment /\ fs[2].call >= 1 /\ (~fs[2].first => fs[2].call \in 1..Len(Meant(m, fs[1])))
      <4>0. 2 \in 1..Len(fs)
        BY <2>5
      <4>1. fs[2] \in Fragment /\ fs[2].call >= 1 /\ (~fs[2].first => fs[2].call \in 1..Len(m))
        <5>1. fs[2] \in Fragment
          BY <1>2, <4>0
        <5> QED BY <1>2, <4>0, <5>1
      <4>2. 1..Len(m) \subseteq 1..Len(Meant(m, fs[1]))
        BY <1>1, <2>3
      <4> QED BY <4>1, <4>2
    <3>2. Accumulate(Accumulate(acc, fs[1], 1), fs[2], 2) \in Seq(Slot)
      BY <2>2, <3>1, AccumulateType
    <3>3. Meant(Meant(m, fs[1]), fs[2]) \in Seq(Nat)
      BY <2>3, <3>1, MeantType
    <3> QED BY <2>5, <3>2, <3>3 DEF AccumulateLine, MeantLine, acc, m
  <2> QED BY <1>2, <1>4, <2>4, <2>5
<1> QED BY <1>2, <1>3, <1>4

(* Every step keeps the types.                                             *)
LEMMA TypeInit == Init => TypeOK
<1> SUFFICES ASSUME Init PROVE TypeOK
  OBVIOUS
<1>1. log \in Logger /\ log.callNum = 0
  BY DEF Init, Logger
<1>2. NoReply \in Reply
  BY DEF NoReply, Reply
<1>3. deltas \in 0..MaxDeltas
  BY MaxDeltasAssumption DEF Init
<1>4. number \in [Calls -> 0..log.callNum]
  BY <1>1 DEF Init
<1> QED BY <1>1, <1>2, <1>3, <1>4 DEF Init, TypeOK

(* A call's footer or text leaves the counter; whose record is mixed, and  *)
(* which number a call has, stay below it.                                 *)
LEMMA MixesType ==
  ASSUME TypeOK, NEW c \in Calls, log' \in Logger, log'.callNum = log.callNum,
         mixed' = mixed \cup Mixes(c), number' = number
  PROVE  mixed' \subseteq 0..log'.callNum /\ number' \in [Calls -> 0..log'.callNum]
<1>1. log.callNum \in Nat /\ number[c] \in 0..log.callNum
  BY DEF TypeOK, Logger
<1>2. Mixes(c) \subseteq 0..log.callNum
  BY <1>1 DEF Mixes
<1>3. mixed' \subseteq 0..log.callNum
  BY <1>2 DEF TypeOK
<1> QED BY <1>3 DEF TypeOK

LEMMA TypeStep == TypeOK /\ [Next]_vars => TypeOK'
<1> SUFFICES ASSUME TypeOK, [Next]_vars PROVE TypeOK'
  OBVIOUS
<1>1. ASSUME NEW c \in Calls, Ask(c) PROVE TypeOK'
  <2>1. log' \in Logger /\ log'.callNum = log.callNum + 1 /\ log.callNum \in Nat
    BY <1>1, LogRequestType DEF Ask, TypeOK, Logger
  <2>2. 0..log.callNum \subseteq 0..log'.callNum /\ log'.callNum \in 0..log'.callNum
    BY <2>1
  <2>3. number' \in [Calls -> 0..log'.callNum] /\ mixed' \subseteq 0..log'.callNum
    BY <1>1, <2>1, <2>2 DEF Ask, TypeOK
  <2>4. NoReply \in Reply /\ <<>> \in Seq(Nat)
    BY DEF NoReply, Reply
  <2> QED BY <1>1, <2>1, <2>3, <2>4 DEF Ask, TypeOK
<1>2. ASSUME NEW c \in Calls, NEW kind \in Kinds, TakeText(c, kind) PROVE TypeOK'
  <2>1. deltas \in Nat /\ deltas' = deltas + 1 /\ deltas' \in 0..MaxDeltas
    BY <1>2, MaxDeltasAssumption DEF TakeText, TypeOK
  <2>2. log' \in Logger /\ log'.callNum = log.callNum
    <3>1. log \in Logger /\ log' = WriteOutputChunk(log, kind, deltas + 1) /\ deltas + 1 \in Nat
      BY <1>2, <2>1 DEF TakeText, TypeOK
    <3> QED BY <3>1, WriteOutputChunkType
  <2>3. reply' \in [Calls -> Reply]
    <3>1. WithText(reply[c], kind, deltas + 1) \in Reply
      BY <2>1, WithTextType DEF TypeOK
    <3> QED BY <1>2, <3>1 DEF TakeText, TypeOK
  <2>4. mixed' \subseteq 0..log'.callNum /\ number' \in [Calls -> 0..log'.callNum]
    BY <1>2, <2>2, MixesType DEF TakeText
  <2> QED BY <1>2, <2>1, <2>2, <2>3, <2>4 DEF TakeText, TypeOK
<1>3. ASSUME NEW c \in Calls, NEW fs \in Fragments(c), TakeTools(c, fs) PROVE TypeOK'
  <2>1. AccumulateLine(reply[c].tools, fs) \in Seq(Slot) /\ MeantLine(meant[c], fs) \in Seq(Nat)
    BY LineTypes
  <2>2. reply' \in [Calls -> Reply]
    BY <1>3, <2>1 DEF TakeTools, TypeOK, Reply
  <2>3. meant' \in [Calls -> Seq(Nat)]
    BY <1>3, <2>1 DEF TakeTools, TypeOK
  <2>4. deltas' \in 0..MaxDeltas
    BY <1>3, MaxDeltasAssumption DEF TakeTools, TypeOK
  <2> QED BY <1>3, <2>2, <2>3, <2>4 DEF TakeTools, TypeOK
<1>4. ASSUME NEW c \in Calls, StreamEnds(c) PROVE TypeOK'
  <2>1. PICK n \in 0..Len(reply[c].say) : reply' = [reply EXCEPT ![c] = Normalized(@, n)]
    BY <1>4 DEF StreamEnds
  <2>2. reply' \in [Calls -> Reply]
    <3>1. Normalized(reply[c], n) \in Reply
      BY NormalizedType DEF TypeOK
    <3> QED BY <2>1, <3>1 DEF TypeOK
  <2> QED BY <1>4, <2>2 DEF StreamEnds, TypeOK
<1>5. ASSUME NEW c \in Calls, StreamFails(c) \/ RoundsExhausted(c) \/ Cancel(c) PROVE TypeOK'
  BY <1>5 DEF StreamFails, RoundsExhausted, Cancel, stream, TypeOK
<1>6. ASSUME NEW c \in Calls, ToolRound(c) \/ Reject(c) \/ Accept(c) PROVE TypeOK'
  <2>1. log' \in Logger /\ log'.callNum = log.callNum
    <3>1. log \in Logger
      BY DEF TypeOK
    <3>2. WriteEnd(log) \in Logger /\ WriteEnd(log).callNum = log.callNum
      BY <3>1, WriteEndType
    <3> QED BY <1>6, <3>1, <3>2, LogResponseType, LogInfoType DEF ToolRound, Reject, Accept
  <2>2. mixed' \subseteq 0..log'.callNum /\ number' \in [Calls -> 0..log'.callNum]
    BY <1>6, <2>1, MixesType DEF ToolRound, Reject, Accept
  <2>3. pc' \in [Calls -> {"idle", "stream", "judge", "again", "ok", "failed"}]
    BY <1>6 DEF ToolRound, Reject, Accept, TypeOK
  <2> QED BY <1>6, <2>1, <2>2, <2>3 DEF ToolRound, Reject, Accept, stream, TypeOK
<1>7. CASE UNCHANGED vars
  BY <1>7 DEF vars, TypeOK
<1> QED BY <1>1, <1>2, <1>3, <1>4, <1>5, <1>6, <1>7 DEF Next

(* The state has its type.                                                 *)
THEOREM TypeCorrect == Spec => []TypeOK
BY TypeInit, TypeStep, PTL DEF Spec

-----------------------------------------------------------------------------
(* What makes OneFooterPerRecord inductive: the footer's flag says whether *)
(* the latest request's record has one, and that record has its number.    *)

Footed(f) ==
  \A j \in 1..Len(f) : f[j].is = "end" =>
    \E i \in 1..(j - 1) :
      /\ f[i] = Line("request", f[j].nr)
      /\ \A k \in (i + 1)..(j - 1) : f[k].is \notin {"request", "end"}

Latest(f, n, ended) ==
  \E i \in 1..Len(f) :
    /\ f[i] = Line("request", n)
    /\ \A k \in (i + 1)..Len(f) : f[k].is # "request" /\ (ended \/ f[k].is # "end")

Sound(l) == Footed(l.file) /\ (l.callNum = 0 \/ Latest(l.file, l.callNum, l.logEndWritten))

FooterInv ==
  /\ TypeOK
  /\ Sound(log)
  /\ \A c \in Calls : pc[c] \in {"stream", "judge"} => log.callNum # 0

(* An entry that is neither a request nor a footer disturbs nothing.       *)
LEMMA AppendText ==
  ASSUME NEW f \in Seq(Entry), NEW e \in Entry, e.is \notin {"request", "end"}
  PROVE  /\ Footed(f) => Footed(Append(f, e))
         /\ \A n \in Nat, ended \in BOOLEAN : Latest(f, n, ended) => Latest(Append(f, e), n, ended)
<1> DEFINE g == Append(f, e)
<1>1. /\ Len(f) \in Nat /\ Len(g) = Len(f) + 1 /\ g[Len(f) + 1] = e
      /\ \A i \in 1..Len(f) : g[i] = f[i]
  OBVIOUS
<1> HIDE DEF g
<1>2. ASSUME Footed(f) PROVE Footed(g)
  <2> SUFFICES ASSUME NEW j \in 1..Len(g), g[j].is = "end"
               PROVE  \E i \in 1..(j - 1) :
                        /\ g[i] = Line("request", g[j].nr)
                        /\ \A k \in (i + 1)..(j - 1) : g[k].is \notin {"request", "end"}
    BY DEF Footed
  <2>1. j \in 1..Len(f)
    BY <1>1
  <2>2. PICK i \in 1..(j - 1) :
               /\ f[i] = Line("request", f[j].nr)
               /\ \A k \in (i + 1)..(j - 1) : f[k].is \notin {"request", "end"}
    BY <1>1, <1>2, <2>1 DEF Footed
  <2>3. g[i] = f[i] /\ g[j] = f[j] /\ \A k \in (i + 1)..(j - 1) : g[k] = f[k]
    BY <1>1, <2>1
  <2> QED BY <2>2, <2>3
<1>3. ASSUME NEW n \in Nat, NEW ended \in BOOLEAN, Latest(f, n, ended) PROVE Latest(g, n, ended)
  <2>1. PICK i \in 1..Len(f) :
               /\ f[i] = Line("request", n)
               /\ \A k \in (i + 1)..Len(f) : f[k].is # "request" /\ (ended \/ f[k].is # "end")
    BY <1>3 DEF Latest
  <2>2. i \in 1..Len(g) /\ g[i] = Line("request", n)
    BY <1>1, <2>1
  <2>3. \A k \in (i + 1)..Len(g) : g[k].is # "request" /\ (ended \/ g[k].is # "end")
    BY <1>1, <2>1
  <2> QED BY <2>2, <2>3 DEF Latest
<1> QED BY <1>2, <1>3 DEF g

LEMMA WriteOutputChunkSound ==
  ASSUME NEW l \in Logger, NEW kind \in Kinds, NEW nr \in Nat, Sound(l)
  PROVE  Sound(WriteOutputChunk(l, kind, nr))
<1> DEFINE f == l.file \o Heading(l, kind)
           e == Line(kind, nr)
<1>1. /\ l.file \in Seq(Entry) /\ l.callNum \in Nat /\ l.logEndWritten \in BOOLEAN
      /\ e \in Entry /\ e.is \notin {"request", "end"}
  BY LineType DEF Logger, Line, Kinds
<1>2. f \in Seq(Entry) /\ Footed(f) /\ (l.callNum = 0 \/ Latest(f, l.callNum, l.logEndWritten))
  <2>1. CASE Heading(l, kind) = <<>>
    BY <1>1, <2>1 DEF Sound
  <2>2. ASSUME NEW h \in Headings, Heading(l, kind) = <<Line(h, 0)>>
        PROVE  f \in Seq(Entry) /\ Footed(f) /\ (l.callNum = 0 \/ Latest(f, l.callNum, l.logEndWritten))
    <3>1. Line(h, 0) \in Entry /\ Line(h, 0).is \notin {"request", "end"}
      BY LineType DEF Line, Headings
    <3>2. f = Append(l.file, Line(h, 0))
      BY <1>1, <2>2, <3>1
    <3>3. Append(l.file, Line(h, 0)) \in Seq(Entry)
      BY <1>1, <3>1
    <3> QED BY <1>1, <3>1, <3>2, <3>3, AppendText DEF Sound
  <2>3. Heading(l, kind) \in {<<>>, <<Line("[THINKING]", 0)>>, <<Line("[MESSAGE]", 0)>>}
    BY DEF Heading
  <2> QED BY <2>1, <2>2, <2>3 DEF Headings
<1>3. l.file \o Heading(l, kind) \o <<Line(kind, nr)>> = Append(f, e)
  BY <1>1, <1>2
<1>4. /\ WriteOutputChunk(l, kind, nr).file = Append(f, e)
      /\ WriteOutputChunk(l, kind, nr).callNum = l.callNum
      /\ WriteOutputChunk(l, kind, nr).logEndWritten = l.logEndWritten
  BY <1>3 DEF WriteOutputChunk, Logger
<1> HIDE DEF f, e
<1> QED BY <1>1, <1>2, <1>4, AppendText DEF Sound

LEMMA LogInfoSound ==
  ASSUME NEW l \in Logger, Sound(l)
  PROVE  Sound(LogInfo(l))
<1> DEFINE e == Line("info", 0)
<1>1. /\ l.file \in Seq(Entry) /\ l.callNum \in Nat /\ l.logEndWritten \in BOOLEAN
      /\ e \in Entry /\ e.is \notin {"request", "end"}
  BY LineType DEF Logger, Line
<1>2. /\ LogInfo(l).file = Append(l.file, e)
      /\ LogInfo(l).callNum = l.callNum
      /\ LogInfo(l).logEndWritten = l.logEndWritten
  BY DEF LogInfo, Logger
<1> HIDE DEF e
<1> QED BY <1>1, <1>2, AppendText DEF Sound

LEMMA WriteEndSound ==
  ASSUME NEW l \in Logger, Sound(l), l.callNum # 0
  PROVE  Sound(WriteEnd(l))
<1>1. CASE l.logEndWritten
  BY <1>1 DEF WriteEnd
<1>2. CASE ~l.logEndWritten
  <2> DEFINE f == l.file
             e == Line("end", l.callNum)
             g == Append(f, e)
  <2>1. f \in Seq(Entry) /\ e \in Entry /\ e.is = "end" /\ e.nr = l.callNum /\ l.callNum \in Nat
    BY LineType DEF Logger, Line
  <2>2. /\ WriteEnd(l).file = g /\ WriteEnd(l).callNum = l.callNum
        /\ WriteEnd(l).logEndWritten = TRUE
    BY <1>2 DEF WriteEnd, Logger
  <2> HIDE DEF e
  <2>3. /\ Len(f) \in Nat /\ Len(g) = Len(f) + 1 /\ g[Len(f) + 1] = e
        /\ \A i \in 1..Len(f) : g[i] = f[i]
    BY <2>1
  <2> HIDE DEF f, g
  <2>4. PICK r \in 1..Len(f) :
               /\ f[r] = Line("request", l.callNum)
               /\ \A k \in (r + 1)..Len(f) : f[k].is # "request" /\ f[k].is # "end"
    BY <1>2 DEF Sound, Latest, f
  <2>5. Footed(g)
    <3> SUFFICES ASSUME NEW j \in 1..Len(g), g[j].is = "end"
                 PROVE  \E i \in 1..(j - 1) :
                          /\ g[i] = Line("request", g[j].nr)
                          /\ \A k \in (i + 1)..(j - 1) : g[k].is \notin {"request", "end"}
      BY DEF Footed
    <3>1. CASE j = Len(g)
      <4>1. r \in 1..(j - 1) /\ g[r] = Line("request", g[j].nr)
        BY <2>1, <2>3, <2>4, <3>1
      <4>2. \A k \in (r + 1)..(j - 1) : g[k].is \notin {"request", "end"}
        BY <2>3, <2>4, <3>1
      <4> QED BY <4>1, <4>2
    <3>2. CASE j # Len(g)
      <4>1. j \in 1..Len(f) /\ g[j] = f[j]
        BY <2>3, <3>2
      <4>2. PICK i \in 1..(j - 1) :
                   /\ f[i] = Line("request", f[j].nr)
                   /\ \A k \in (i + 1)..(j - 1) : f[k].is \notin {"request", "end"}
        BY <4>1 DEF Sound, Footed, f
      <4> QED BY <2>3, <4>1, <4>2
    <3> QED BY <3>1, <3>2
  <2>6. Latest(g, l.callNum, TRUE)
    <3>1. r \in 1..Len(g) /\ g[r] = Line("request", l.callNum)
      BY <2>3, <2>4
    <3>2. \A k \in (r + 1)..Len(g) : g[k].is # "request"
      BY <2>1, <2>3, <2>4
    <3> QED BY <3>1, <3>2 DEF Latest
  <2> QED BY <2>2, <2>5, <2>6 DEF Sound
<1> QED BY <1>1, <1>2

LEMMA LogRequestSound ==
  ASSUME NEW l \in Logger, Sound(l)
  PROVE  Sound(LogRequest(l))
<1> DEFINE f == l.file
           e == Line("request", l.callNum + 1)
           g == Append(f, e)
<1>1. f \in Seq(Entry) /\ e \in Entry /\ e.is = "request" /\ l.callNum + 1 \in Nat
  BY LineType DEF Logger, Line
<1>2. /\ LogRequest(l).file = g /\ LogRequest(l).callNum = l.callNum + 1
      /\ LogRequest(l).logEndWritten = FALSE
  BY DEF LogRequest, Logger
<1>3. e = Line("request", l.callNum + 1)
  OBVIOUS
<1> HIDE DEF e
<1>4. /\ Len(f) \in Nat /\ Len(g) = Len(f) + 1 /\ g[Len(f) + 1] = e
      /\ \A i \in 1..Len(f) : g[i] = f[i]
  BY <1>1
<1> HIDE DEF f, g
<1>5. Footed(g)
  <2> SUFFICES ASSUME NEW j \in 1..Len(g), g[j].is = "end"
               PROVE  \E i \in 1..(j - 1) :
                        /\ g[i] = Line("request", g[j].nr)
                        /\ \A k \in (i + 1)..(j - 1) : g[k].is \notin {"request", "end"}
    BY DEF Footed
  <2>1. j \in 1..Len(f) /\ g[j] = f[j]
    BY <1>1, <1>4
  <2>2. PICK i \in 1..(j - 1) :
               /\ f[i] = Line("request", f[j].nr)
               /\ \A k \in (i + 1)..(j - 1) : f[k].is \notin {"request", "end"}
    BY <2>1 DEF Sound, Footed, f
  <2> QED BY <1>4, <2>1, <2>2
<1>6. Latest(g, l.callNum + 1, FALSE)
  <2>1. Len(g) \in 1..Len(g) /\ g[Len(g)] = Line("request", l.callNum + 1)
    BY <1>3, <1>4
  <2>2. \A k \in (Len(g) + 1)..Len(g) : FALSE
    BY <1>4
  <2> QED BY <2>1, <2>2 DEF Latest
<1> QED BY <1>2, <1>5, <1>6 DEF Sound

LEMMA FooterInit == Init => FooterInv
<1> SUFFICES ASSUME Init PROVE FooterInv
  OBVIOUS
<1>1. log.file = <<>> /\ log.callNum = 0
  BY DEF Init
<1>2. Sound(log)
  BY <1>1 DEF Sound, Footed
<1> QED BY <1>2, TypeInit DEF Init, FooterInv

LEMMA FooterStep == FooterInv /\ [Next]_vars => FooterInv'
<1> SUFFICES ASSUME FooterInv, [Next]_vars PROVE FooterInv'
  OBVIOUS
<1>0. TypeOK /\ TypeOK' /\ Sound(log) /\ log \in Logger /\ log.callNum \in Nat
  BY TypeStep DEF FooterInv, TypeOK, Logger
<1> DEFINE Asked == \A c \in Calls : pc[c] \in {"stream", "judge"} => log.callNum # 0
<1>1. ASSUME NEW c \in Calls, Ask(c) PROVE Sound(log)' /\ Asked'
  <2>1. log' = LogRequest(log)
    BY <1>1 DEF Ask
  <2>2. log'.callNum = log.callNum + 1
    BY <1>0, <2>1, LogRequestType
  <2>3. Sound(log')
    BY <1>0, <2>1, LogRequestSound
  <2> QED BY <1>0, <2>2, <2>3 DEF Sound
<1>2. ASSUME NEW c \in Calls, NEW kind \in Kinds, TakeText(c, kind) PROVE Sound(log)' /\ Asked'
  <2>1. log' = WriteOutputChunk(log, kind, deltas + 1) /\ deltas + 1 \in Nat /\ pc' = pc
    BY <1>0, <1>2, MaxDeltasAssumption DEF TakeText, TypeOK
  <2>2. log'.callNum = log.callNum
    BY <1>0, <2>1, WriteOutputChunkType
  <2>3. Sound(log')
    BY <1>0, <2>1, WriteOutputChunkSound
  <2> QED BY <2>1, <2>2, <2>3 DEF Sound, FooterInv
<1>3. ASSUME NEW c \in Calls,
             StreamEnds(c) \/ StreamFails(c) \/ RoundsExhausted(c) \/ Cancel(c)
             \/ \E fs \in Fragments(c) : TakeTools(c, fs)
      PROVE  Sound(log)' /\ Asked'
  <2>1. log' = log
    BY <1>3 DEF StreamEnds, StreamFails, RoundsExhausted, Cancel, TakeTools
  <2>2. \A d \in Calls : pc'[d] \in {"stream", "judge"} => pc[d] \in {"stream", "judge"}
    BY <1>0, <1>3 DEF StreamEnds, StreamFails, RoundsExhausted, Cancel, TakeTools, TypeOK
  <2> QED BY <1>0, <2>1, <2>2 DEF Sound, FooterInv
<1>4. ASSUME NEW c \in Calls, ToolRound(c) \/ Reject(c) \/ Accept(c) PROVE Sound(log)' /\ Asked'
  <2>1. log.callNum # 0
    BY <1>4 DEF ToolRound, Reject, Accept, FooterInv
  <2>2. CASE ToolRound(c)
    <3>1. log' = LogInfo(log)
      BY <2>2 DEF ToolRound
    <3>2. Sound(log') /\ log'.callNum = log.callNum
      BY <1>0, <3>1, LogInfoSound, LogInfoType
    <3> QED BY <2>1, <3>2 DEF Sound
  <2>3. CASE Accept(c)
    <3> DEFINE l == WriteEnd(log)
    <3>1. log' = l \/ log' = LogInfo(l)
      BY <2>3 DEF Accept
    <3>2. l \in Logger /\ l.callNum = log.callNum /\ Sound(l)
      BY <1>0, <2>1, WriteEndType, WriteEndSound
    <3> HIDE DEF l
    <3>3. Sound(log') /\ log'.callNum = log.callNum
      BY <3>1, <3>2, LogInfoSound, LogInfoType
    <3> QED BY <2>1, <3>3 DEF Sound
  <2>4. CASE Reject(c)
    <3> DEFINE l == WriteOutputChunk(log, "say", 0)
               m == LogInfo(l)
    <3>1. log' = WriteEnd(m)
      BY <2>4 DEF Reject, LogResponse
    <3>2. l \in Logger /\ l.callNum = log.callNum /\ Sound(l)
      BY <1>0, WriteOutputChunkType, WriteOutputChunkSound DEF Kinds
    <3> HIDE DEF l
    <3>3. m \in Logger /\ m.callNum = log.callNum /\ Sound(m)
      BY <3>2, LogInfoSound, LogInfoType
    <3> HIDE DEF m
    <3>4. Sound(log') /\ log'.callNum = log.callNum
      BY <2>1, <3>1, <3>3, WriteEndSound, WriteEndType
    <3> QED BY <2>1, <3>4 DEF Sound
  <2> QED BY <1>4, <2>2, <2>3, <2>4
<1>5. ASSUME UNCHANGED vars PROVE Sound(log)' /\ Asked'
  <2>1. log' = log /\ pc' = pc
    BY <1>5 DEF vars
  <2> QED BY <1>0, <2>1 DEF Sound, FooterInv
<1>6. Sound(log)' /\ Asked'
  <2> HIDE DEF Asked
  <2>1. CASE Next
    <3>1. PICK c \in Calls :
            \/ Ask(c)
            \/ \E kind \in Kinds : TakeText(c, kind)
            \/ \E fs \in Fragments(c) : TakeTools(c, fs)
            \/ StreamEnds(c) \/ StreamFails(c)
            \/ ToolRound(c) \/ RoundsExhausted(c) \/ Reject(c) \/ Accept(c) \/ Cancel(c)
      BY <2>1, Zenon DEF Next
    <3> QED BY <1>1, <1>2, <1>3, <1>4, <3>1, Zenon
  <2> QED BY <1>5, <2>1
<1> QED BY <1>0, <1>6 DEF FooterInv

(* Whatever calls overlap, fail or outlive their cancellation, no request  *)
(* gets two footers, and a footer has the number of the record it closes.  *)
THEOREM RecordsHaveOneFooter == Spec => []OneFooterPerRecord
<1>1. FooterInv => OneFooterPerRecord
  BY DEF FooterInv, Sound, Footed, OneFooterPerRecord, file
<1> QED BY <1>1, FooterInit, FooterStep, PTL DEF Spec

-----------------------------------------------------------------------------
(* What makes TextsUnderTheirHeading inductive: while a record is open the *)
(* logger's flags say under which heading its last entries stand; once it  *)
(* is closed, no record is open.                                           *)

HeadingOf(kind) == IF kind = "think" THEN "[THINKING]" ELSE "[MESSAGE]"

Under(f, h) ==
  \E i \in 1..Len(f) :
    /\ f[i].is = h
    /\ \A k \in (i + 1)..Len(f) : f[k].is \notin Headings \cup {"request"}

Closed(f) ==
  \A i \in 1..Len(f) : f[i].is = "request" => \E k \in (i + 1)..Len(f) : f[k].is = "end"

Titled(f) ==
  \A j \in 1..Len(f) :
    /\ f[j].is \in Kinds
    /\ \E i \in 1..(j - 1) :
         f[i].is = "request" /\ \A k \in (i + 1)..(j - 1) : f[k].is # "end"
    => \E i \in 1..(j - 1) :
         /\ f[i].is = HeadingOf(f[j].is)
         /\ \A k \in (i + 1)..(j - 1) : f[k].is \notin Headings \cup {"request"}

Sections(l) ==
  /\ Titled(l.file)
  /\ l.inThinking => l.firstChunkWritten
  /\ l.logEndWritten => Closed(l.file)
  /\ ~l.logEndWritten /\ l.firstChunkWritten =>
       Under(l.file, IF l.inThinking THEN "[THINKING]" ELSE "[MESSAGE]")

(* What one more entry does to a file.                                     *)
LEMMA Appended ==
  ASSUME NEW f \in Seq(Entry), NEW e \in Entry
  PROVE  /\ Append(f, e) \in Seq(Entry) /\ Len(f) \in Nat
         /\ Len(Append(f, e)) = Len(f) + 1 /\ Append(f, e)[Len(f) + 1] = e
         /\ \A i \in 1..Len(f) : Append(f, e)[i] = f[i]
OBVIOUS

LEMMA AppendUnder ==
  ASSUME NEW f \in Seq(Entry), NEW e \in Entry, NEW h \in Headings,
         e.is = h \/ (Under(f, h) /\ e.is \notin Headings \cup {"request"})
  PROVE  Under(Append(f, e), h)
<1> DEFINE g == Append(f, e)
<1>1. /\ Len(f) \in Nat /\ Len(g) = Len(f) + 1 /\ g[Len(f) + 1] = e
      /\ \A i \in 1..Len(f) : g[i] = f[i]
  BY Appended
<1> HIDE DEF g
<1>2. CASE e.is = h
  <2>1. Len(g) \in 1..Len(g) /\ g[Len(g)].is = h
    BY <1>1, <1>2
  <2>2. \A k \in (Len(g) + 1)..Len(g) : FALSE
    BY <1>1
  <2> QED BY <2>1, <2>2 DEF Under, g
<1>3. CASE Under(f, h) /\ e.is \notin Headings \cup {"request"}
  <2>1. PICK i \in 1..Len(f) :
               /\ f[i].is = h
               /\ \A k \in (i + 1)..Len(f) : f[k].is \notin Headings \cup {"request"}
    BY <1>3 DEF Under
  <2>2. i \in 1..Len(g) /\ g[i].is = h
    BY <1>1, <2>1
  <2>3. ASSUME NEW k \in (i + 1)..Len(g) PROVE g[k].is \notin Headings \cup {"request"}
    <3>1. k \in (i + 1)..Len(f) \/ k = Len(f) + 1
      BY <1>1
    <3>2. CASE k = Len(f) + 1
      BY <1>1, <1>3, <3>2
    <3>3. CASE k \in (i + 1)..Len(f)
      BY <1>1, <2>1, <3>3
    <3> QED BY <3>1, <3>2, <3>3
  <2> QED BY <2>2, <2>3 DEF Under, g
<1> QED BY <1>2, <1>3

LEMMA AppendClosed ==
  ASSUME NEW f \in Seq(Entry), NEW e \in Entry,
         e.is = "end" \/ (Closed(f) /\ e.is # "request")
  PROVE  Closed(Append(f, e))
<1> DEFINE g == Append(f, e)
<1>1. /\ Len(f) \in Nat /\ Len(g) = Len(f) + 1 /\ g[Len(f) + 1] = e
      /\ \A i \in 1..Len(f) : g[i] = f[i]
  BY Appended
<1> HIDE DEF g
<1> SUFFICES ASSUME NEW i \in 1..Len(g), g[i].is = "request"
             PROVE  \E k \in (i + 1)..Len(g) : g[k].is = "end"
  BY DEF Closed, g
<1>2. i \in 1..Len(f) /\ f[i].is = "request"
  <2>1. e.is # "request"
    OBVIOUS
  <2> QED BY <1>1, <2>1
<1>3. CASE e.is = "end"
  BY <1>1, <1>2, <1>3
<1>4. CASE Closed(f)
  <2>1. PICK k \in (i + 1)..Len(f) : f[k].is = "end"
    BY <1>2, <1>4 DEF Closed
  <2>2. k \in (i + 1)..Len(g) /\ g[k].is = "end"
    BY <1>1, <1>2, <2>1
  <2> QED BY <2>2
<1> QED BY <1>3, <1>4

LEMMA AppendTitled ==
  ASSUME NEW f \in Seq(Entry), NEW e \in Entry, Titled(f),
         e.is \in Kinds => Closed(f) \/ Under(f, HeadingOf(e.is))
  PROVE  Titled(Append(f, e))
<1> DEFINE g == Append(f, e)
<1>1. /\ Len(f) \in Nat /\ Len(g) = Len(f) + 1 /\ g[Len(f) + 1] = e
      /\ \A i \in 1..Len(f) : g[i] = f[i]
  BY Appended
<1> HIDE DEF g
<1> SUFFICES ASSUME NEW j \in 1..Len(g), g[j].is \in Kinds,
                    \E i \in 1..(j - 1) :
                      g[i].is = "request" /\ \A k \in (i + 1)..(j - 1) : g[k].is # "end"
             PROVE  \E i \in 1..(j - 1) :
                      /\ g[i].is = HeadingOf(g[j].is)
                      /\ \A k \in (i + 1)..(j - 1) : g[k].is \notin Headings \cup {"request"}
  BY DEF Titled, g
<1>2. PICK r \in 1..(j - 1) : g[r].is = "request" /\ \A k \in (r + 1)..(j - 1) : g[k].is # "end"
  OBVIOUS
<1>3. j \in Nat /\ j - 1 <= Len(f) /\ \A k \in 1..(j - 1) : k \in 1..Len(f) /\ g[k] = f[k]
  BY <1>1
<1>4. CASE j = Len(f) + 1
  <2>1. g[j] = e /\ j - 1 = Len(f)
    BY <1>1, <1>4
  <2>2. ~Closed(f)
    <3>1. r \in 1..Len(f) /\ f[r].is = "request"
      BY <1>2, <1>3
    <3>2. \A k \in (r + 1)..Len(f) : f[k].is # "end"
      <4> SUFFICES ASSUME NEW k \in (r + 1)..Len(f) PROVE f[k].is # "end"
        OBVIOUS
      <4>1. k \in (r + 1)..(j - 1) /\ k \in 1..Len(f)
        BY <2>1, <3>1
      <4> QED BY <1>1, <1>2, <4>1
    <3> QED BY <3>1, <3>2 DEF Closed
  <2>3. Under(f, HeadingOf(e.is))
    BY <2>1, <2>2
  <2>4. PICK i \in 1..Len(f) :
               /\ f[i].is = HeadingOf(e.is)
               /\ \A k \in (i + 1)..Len(f) : f[k].is \notin Headings \cup {"request"}
    BY <2>3 DEF Under
  <2>5. i \in 1..(j - 1) /\ g[i].is = HeadingOf(g[j].is)
    BY <1>1, <2>1, <2>4
  <2>6. ASSUME NEW k \in (i + 1)..(j - 1) PROVE g[k].is \notin Headings \cup {"request"}
    <3>1. k \in (i + 1)..Len(f) /\ k \in 1..Len(f)
      BY <2>1, <2>4
    <3> QED BY <1>1, <2>4, <3>1
  <2> QED BY <2>5, <2>6
<1>5. CASE j # Len(f) + 1
  <2>1. j \in 1..Len(f) /\ g[j] = f[j]
    BY <1>1, <1>5
  <2>2. r \in 1..(j - 1) /\ f[r].is = "request" /\ \A k \in (r + 1)..(j - 1) : f[k].is # "end"
    <3>1. \A k \in (r + 1)..(j - 1) : k \in 1..(j - 1)
      BY <1>2, <1>3
    <3> QED BY <1>2, <1>3, <3>1
  <2>3. PICK i \in 1..(j - 1) :
               /\ f[i].is = HeadingOf(f[j].is)
               /\ \A k \in (i + 1)..(j - 1) : f[k].is \notin Headings \cup {"request"}
    <3>1. f[j].is \in Kinds
      BY <2>1
    <3> QED BY <2>1, <2>2, <3>1 DEF Titled
  <2>4. \A k \in (i + 1)..(j - 1) : k \in 1..(j - 1)
    BY <1>3, <2>3
  <2> QED BY <1>3, <2>1, <2>3, <2>4
<1> QED BY <1>4, <1>5

(* What a piece of text adds to the file: its heading, if the section      *)
(* changes or has none, and the text.                                      *)
Wrote(l, kind, out, h, e) ==
  /\ out.callNum = l.callNum /\ out.logEndWritten = l.logEndWritten
  /\ out.inThinking = (kind = "think") /\ out.firstChunkWritten = TRUE
  /\ \/ out.file = Append(Append(l.file, h), e)
     \/ /\ out.file = Append(l.file, e)
        /\ IF kind = "think" THEN l.inThinking ELSE ~l.inThinking /\ l.firstChunkWritten
  /\ h \in Entry /\ e \in Entry
  /\ h.is \in Headings /\ e.is \in Kinds

LEMMA ChunkFile ==
  ASSUME NEW l \in Logger, NEW kind \in Kinds, NEW nr \in Nat,
         NEW out, out = WriteOutputChunk(l, kind, nr),
         NEW h, h = Line(HeadingOf(kind), 0), NEW e, e = Line(kind, nr)
  PROVE  Wrote(l, kind, out, h, e)
<1>1. HeadingOf(kind) \in Headings
  BY DEF HeadingOf, Headings
<1>2. h \in Entry /\ e \in Entry
  BY <1>1, LineType
<1>3. h.is \in Headings /\ e.is \in Kinds
  BY <1>1 DEF Line
<1>4. l.file \in Seq(Entry)
  BY DEF Logger
<1>5. /\ out.callNum = l.callNum /\ out.logEndWritten = l.logEndWritten
      /\ out.inThinking = (kind = "think") /\ out.firstChunkWritten = TRUE
      /\ out.file = l.file \o Heading(l, kind) \o <<e>>
  BY DEF WriteOutputChunk, Logger
<1>6. CASE Heading(l, kind) = <<h>>
  <2>1. l.file \o <<h>> \o <<e>> = Append(Append(l.file, h), e)
    BY <1>2, <1>4
  <2> QED BY <1>2, <1>3, <1>5, <1>6, <2>1 DEF Wrote
<1>7. CASE Heading(l, kind) = <<>>
  <2>1. IF kind = "think" THEN l.inThinking ELSE ~l.inThinking /\ l.firstChunkWritten
    BY <1>7 DEF Heading, Kinds
  <2>2. l.file \o <<>> \o <<e>> = Append(l.file, e)
    BY <1>2, <1>4
  <2> QED BY <1>2, <1>3, <1>5, <1>7, <2>1, <2>2 DEF Wrote
<1>8. Heading(l, kind) = <<h>> \/ Heading(l, kind) = <<>>
  BY DEF Heading, HeadingOf, Kinds
<1> QED BY <1>6, <1>7, <1>8

(* The logger's operations keep the sections.                              *)
LEMMA LogRequestSections ==
  ASSUME NEW l \in Logger, Sections(l)
  PROVE  Sections(LogRequest(l))
<1> DEFINE e == Line("request", l.callNum + 1)
<1>1. l.file \in Seq(Entry) /\ l.callNum + 1 \in Nat
  BY DEF Logger
<1>2. e \in Entry /\ e.is = "request"
  <2>1. e.is = "request"
    BY DEF Line
  <2> QED BY <1>1, <2>1, LineType
<1>3. /\ LogRequest(l).file = Append(l.file, e) /\ LogRequest(l).logEndWritten = FALSE
      /\ LogRequest(l).inThinking = FALSE /\ LogRequest(l).firstChunkWritten = FALSE
  BY DEF LogRequest, Logger
<1> HIDE DEF e
<1>4. Titled(Append(l.file, e))
  <2>1. Titled(l.file) /\ e.is \notin Kinds
    BY <1>2 DEF Sections, Kinds
  <2> QED BY <1>1, <1>2, <2>1, AppendTitled
<1> QED BY <1>3, <1>4 DEF Sections

LEMMA WriteOutputChunkSections ==
  ASSUME NEW l \in Logger, NEW kind \in Kinds, NEW nr \in Nat, Sections(l)
  PROVE  Sections(WriteOutputChunk(l, kind, nr))
<1> DEFINE out == WriteOutputChunk(l, kind, nr)
           h == Line(HeadingOf(kind), 0)
           e == Line(kind, nr)
<1>1. /\ out.logEndWritten = l.logEndWritten
      /\ out.inThinking = (kind = "think") /\ out.firstChunkWritten = TRUE
      /\ \/ out.file = Append(Append(l.file, h), e)
         \/ /\ out.file = Append(l.file, e)
            /\ IF kind = "think" THEN l.inThinking ELSE ~l.inThinking /\ l.firstChunkWritten
      /\ h \in Entry /\ e \in Entry
  <2> HIDE DEF out, h, e
  <2>1. out = WriteOutputChunk(l, kind, nr) /\ h = Line(HeadingOf(kind), 0) /\ e = Line(kind, nr)
    BY DEF out, h, e
  <2>2. Wrote(l, kind, out, h, e)
    BY <2>1, ChunkFile
  <2> QED BY <2>2 DEF Wrote
<1>2. l.file \in Seq(Entry)
  BY DEF Logger
<1>3. h.is = HeadingOf(kind) /\ e.is = kind
  BY DEF Line
<1> HIDE DEF h, e
<1>4. HeadingOf(kind) \in Headings /\ HeadingOf(kind) \notin Kinds \cup {"request", "end"}
  BY DEF HeadingOf, Headings, Kinds
<1>5. kind \notin Headings \cup {"request", "end"}
  BY DEF Headings, Kinds
<1>6. (IF out.inThinking THEN "[THINKING]" ELSE "[MESSAGE]") = HeadingOf(kind)
  BY <1>1 DEF HeadingOf
<1>7. ASSUME NEW f \in Seq(Entry), Titled(f), l.logEndWritten => Closed(f),
             l.logEndWritten \/ Under(f, HeadingOf(kind)), out.file = Append(f, e)
      PROVE  Sections(out)
  <2>1. Titled(Append(f, e))
    <3>1. e.is \in Kinds => Closed(f) \/ Under(f, HeadingOf(e.is))
      BY <1>3, <1>7
    <3> QED BY <1>1, <1>7, <3>1, AppendTitled
  <2>2. l.logEndWritten => Closed(Append(f, e))
    <3>1. e.is # "request"
      BY <1>3, <1>5
    <3> QED BY <1>1, <1>7, <3>1, AppendClosed
  <2>3. ~l.logEndWritten => Under(Append(f, e), HeadingOf(kind))
    <3>1. e.is \notin Headings \cup {"request"}
      BY <1>3, <1>5
    <3> QED BY <1>1, <1>4, <1>7, <3>1, AppendUnder
  <2> QED BY <1>1, <1>6, <1>7, <2>1, <2>2, <2>3 DEF Sections
<1>8. CASE out.file = Append(Append(l.file, h), e)
  <2> DEFINE f == Append(l.file, h)
  <2>1. f \in Seq(Entry)
    BY <1>1, <1>2
  <2>2. Titled(f)
    <3>1. Titled(l.file) /\ h.is \notin Kinds
      BY <1>3, <1>4 DEF Sections
    <3> QED BY <1>1, <1>2, <3>1, AppendTitled
  <2>3. l.logEndWritten => Closed(f)
    <3>1. h.is # "request" /\ (l.logEndWritten => Closed(l.file))
      BY <1>3, <1>4 DEF Sections
    <3> QED BY <1>1, <1>2, <3>1, AppendClosed
  <2>4. Under(f, HeadingOf(kind))
    BY <1>1, <1>2, <1>3, <1>4, AppendUnder
  <2> HIDE DEF f
  <2> QED BY <1>7, <1>8, <2>1, <2>2, <2>3, <2>4 DEF f
<1>9. CASE /\ out.file = Append(l.file, e)
           /\ IF kind = "think" THEN l.inThinking ELSE ~l.inThinking /\ l.firstChunkWritten
  <2>1. l.logEndWritten \/ Under(l.file, HeadingOf(kind))
    BY <1>9 DEF Sections, HeadingOf
  <2>2. Titled(l.file) /\ (l.logEndWritten => Closed(l.file))
    BY DEF Sections
  <2> QED BY <1>2, <1>7, <1>9, <2>1, <2>2
<1> QED BY <1>1, <1>8, <1>9

LEMMA LogInfoSections ==
  ASSUME NEW l \in Logger, Sections(l)
  PROVE  Sections(LogInfo(l))
<1> DEFINE e == Line("info", 0)
           h == IF l.inThinking THEN "[THINKING]" ELSE "[MESSAGE]"
<1>1. l.file \in Seq(Entry) /\ e \in Entry
  BY LineType DEF Logger
<1>2. e.is \notin Kinds \cup Headings \cup {"request", "end"} /\ h \in Headings
  BY DEF Line, Kinds, Headings
<1>3. /\ LogInfo(l).file = Append(l.file, e) /\ LogInfo(l).logEndWritten = l.logEndWritten
      /\ LogInfo(l).inThinking = l.inThinking
      /\ LogInfo(l).firstChunkWritten = l.firstChunkWritten
  BY DEF LogInfo, Logger
<1>4. /\ Titled(l.file) /\ (l.inThinking => l.firstChunkWritten)
      /\ (l.logEndWritten => Closed(l.file))
      /\ (~l.logEndWritten /\ l.firstChunkWritten => Under(l.file, h))
  BY DEF Sections
<1> HIDE DEF e, h
<1>5. Titled(Append(l.file, e))
  BY <1>1, <1>2, <1>4, AppendTitled
<1>6. l.logEndWritten => Closed(Append(l.file, e))
  BY <1>1, <1>2, <1>4, AppendClosed
<1>7. ~l.logEndWritten /\ l.firstChunkWritten => Under(Append(l.file, e), h)
  BY <1>1, <1>2, <1>4, AppendUnder
<1> QED BY <1>3, <1>4, <1>5, <1>6, <1>7 DEF Sections, h

LEMMA WriteEndSections ==
  ASSUME NEW l \in Logger, Sections(l)
  PROVE  Sections(WriteEnd(l))
<1>1. CASE l.logEndWritten
  BY <1>1 DEF WriteEnd
<1>2. CASE ~l.logEndWritten
  <2> DEFINE e == Line("end", l.callNum)
  <2>1. l.file \in Seq(Entry) /\ e \in Entry
    BY LineType DEF Logger
  <2>2. e.is = "end" /\ e.is \notin Kinds
    BY DEF Line, Kinds
  <2>3. /\ WriteEnd(l).file = Append(l.file, e) /\ WriteEnd(l).logEndWritten = TRUE
        /\ WriteEnd(l).inThinking = FALSE
    BY <1>2 DEF WriteEnd, Logger
  <2> HIDE DEF e
  <2>4. Titled(Append(l.file, e))
    <3>1. Titled(l.file)
      BY DEF Sections
    <3> QED BY <2>1, <2>2, <3>1, AppendTitled
  <2>5. Closed(Append(l.file, e))
    BY <2>1, <2>2, AppendClosed
  <2> QED BY <2>3, <2>4, <2>5 DEF Sections
<1> QED BY <1>1, <1>2

LEMMA LogResponseSections ==
  ASSUME NEW l \in Logger, Sections(l)
  PROVE  Sections(LogResponse(l))
<1> DEFINE m == WriteOutputChunk(l, "say", 0)
<1>1. m \in Logger /\ Sections(m)
  BY WriteOutputChunkType, WriteOutputChunkSections DEF Kinds
<1> HIDE DEF m
<1>2. LogInfo(m) \in Logger /\ Sections(LogInfo(m))
  BY <1>1, LogInfoType, LogInfoSections
<1> QED BY <1>2, WriteEndSections DEF LogResponse, m

LEMMA SectionsInit == Init => Sections(log)
<1> SUFFICES ASSUME Init PROVE Sections(log)
  OBVIOUS
<1>1. /\ log.file = <<>> /\ log.inThinking = FALSE /\ log.logEndWritten = FALSE
      /\ log.firstChunkWritten = FALSE
  BY DEF Init
<1>2. Titled(<<>>)
  BY DEF Titled
<1> QED BY <1>1, <1>2 DEF Sections

(* How a step may change the logger.                                       *)
LEMMA LogSteps ==
  ASSUME TypeOK, [Next]_vars
  PROVE  \/ log' = log
         \/ log' = LogRequest(log)
         \/ \E kind \in Kinds : log' = WriteOutputChunk(log, kind, deltas + 1) /\ deltas + 1 \in Nat
         \/ log' = LogInfo(log) \/ log' = LogResponse(log)
         \/ log' = WriteEnd(log) \/ log' = LogInfo(WriteEnd(log))
<1>1. deltas + 1 \in Nat
  BY MaxDeltasAssumption DEF TypeOK
<1>2. CASE Next
  <2>1. PICK c \in Calls :
          \/ Ask(c)
          \/ \E kind \in Kinds : TakeText(c, kind)
          \/ \E fs \in Fragments(c) : TakeTools(c, fs)
          \/ StreamEnds(c) \/ StreamFails(c)
          \/ ToolRound(c) \/ RoundsExhausted(c) \/ Reject(c) \/ Accept(c) \/ Cancel(c)
    BY <1>2, Zenon DEF Next
  <2> QED BY <1>1, <2>1 DEF Ask, TakeText, TakeTools, StreamEnds, StreamFails, ToolRound,
            RoundsExhausted, Reject, Accept, Cancel
<1>3. CASE UNCHANGED vars
  BY <1>3 DEF vars
<1> QED BY <1>2, <1>3

LEMMA SectionsStep == TypeOK /\ Sections(log) /\ [Next]_vars => Sections(log')
<1> SUFFICES ASSUME TypeOK, Sections(log), [Next]_vars PROVE Sections(log')
  OBVIOUS
<1>1. log \in Logger
  BY DEF TypeOK
<1>2. WriteEnd(log) \in Logger /\ Sections(WriteEnd(log))
  BY <1>1, WriteEndType, WriteEndSections
<1> QED BY <1>1, <1>2, LogSteps, LogRequestSections, WriteOutputChunkSections,
          LogInfoSections, LogResponseSections

(* Whatever calls overlap, in a record that is open every text stands      *)
(* under a heading of its kind: a call never inherits the section that an  *)
(* earlier one left the logger in.                                         *)
THEOREM TextsStandUnderTheirHeading == Spec => []TextsUnderTheirHeading
<1> DEFINE Inv == TypeOK /\ Sections(log)
<1>1. Init => Inv
  BY TypeInit, SectionsInit
<1>2. Inv /\ [Next]_vars => Inv'
  BY TypeStep, SectionsStep
<1>3. Inv => TextsUnderTheirHeading
  BY DEF Sections, Titled, HeadingOf, TextsUnderTheirHeading, file
<1> QED BY <1>1, <1>2, <1>3, PTL DEF Spec

-----------------------------------------------------------------------------
(* What makes ToolCallsApart inductive: each accumulated call has the      *)
(* index of its place, which is where the next fragment of it will look.   *)

Args(k, n) == [j \in 1..n |-> <<k, j>>]

Apart(acc, m) ==
  /\ Len(acc) = Len(m)
  /\ \A k \in 1..Len(m) :
       acc[k].index = k - 1 /\ acc[k].name = k /\ acc[k].arguments = Args(k, m[k])

(* A fragment opens the next call, or goes on with one that was opened.    *)
Follows(m, f) ==
  \/ f.first /\ f.call = Len(m) + 1 /\ f.parts \in {<<>>, <<<<f.call, 1>>>>}
  \/ ~f.first /\ f.call \in 1..Len(m) /\ f.parts = <<<<f.call, m[f.call] + 1>>>>

LEMMA ArgsFacts ==
  ASSUME NEW k \in Nat, NEW n \in Nat
  PROVE  /\ Args(k, n) \in Seq(Part) /\ Len(Args(k, n)) = n
         /\ Args(k, 0) = <<>> /\ Args(k, 1) = <<<<k, 1>>>>
         /\ Args(k, n) \o <<<<k, n + 1>>>> = Args(k, n + 1)
<1>1. \A j \in Nat : <<k, j>> \in Part
  BY DEF Part
<1>2. \A i \in Nat : Args(k, i) \in Seq(Part) /\ Len(Args(k, i)) = i
  BY <1>1 DEF Args
<1>3. Args(k, 0) = <<>>
  BY <1>2
<1>4. Args(k, 1) = <<<<k, 1>>>>
  BY DEF Args
<1>5. Args(k, n) \o <<<<k, n + 1>>>> = Args(k, n + 1)
  <2> DEFINE x == Args(k, n)
             e == <<k, n + 1>>
             t == Args(k, n + 1)
  <2>1. x \in Seq(Part) /\ Len(x) = n /\ e \in Part /\ t \in Seq(Part) /\ Len(t) = n + 1
    BY <1>1, <1>2
  <2>2. \A j \in 1..n : x[j] = t[j]
    BY DEF Args
  <2>3. t[n + 1] = e
    BY DEF Args
  <2> HIDE DEF x, e, t
  <2>4. x \o <<e>> = t
    BY <2>1, <2>2, <2>3
  <2> QED BY <2>4 DEF x, e, t
<1> QED BY <1>2, <1>3, <1>4, <1>5

(* A fragment that follows, and goes where it belongs, keeps calls apart.  *)
LEMMA AccumulateApart ==
  ASSUME NEW acc \in Seq(Slot), NEW m \in Seq(Nat), Apart(acc, m),
         NEW f \in Fragment, Follows(m, f),
         NEW place \in Nat \ {0}, IndexOf(f, place) = f.call - 1
  PROVE  Apart(Accumulate(acc, f, place), Meant(m, f))
<1> DEFINE k == f.call
           n == Len(m)
           index == IndexOf(f, place)
           Given(name, arguments) == [index |-> index, name |-> IF f.first THEN f.call ELSE name,
                                      arguments |-> arguments \o f.parts]
<1>1. k \in Nat /\ n \in Nat /\ Len(acc) = n /\ f.parts \in Seq(Part)
  BY DEF Fragment, Apart
<1>2. \A i \in 1..n : acc[i].index = i - 1 /\ acc[i].name = i /\ acc[i].arguments = Args(i, m[i])
  BY DEF Apart
<1>3. \A i \in 1..n : acc[i].index = index <=> i = k
  BY <1>1, <1>2
<1>4. CASE f.first
  <2>1. k = n + 1 /\ f.parts \in {<<>>, <<<<k, 1>>>>}
    BY <1>4 DEF Follows
  <2>2. Accumulate(acc, f, place) = Append(acc, Given(0, <<>>))
    <3>1. \A i \in 1..Len(acc) : acc[i].index # index
      BY <1>1, <1>3, <2>1
    <3> QED BY <3>1, Zenon DEF Accumulate
  <2>3. Meant(m, f) = Append(m, Len(f.parts)) /\ Len(f.parts) \in Nat
    BY <1>1, <1>4 DEF Meant
  <2>4. f.parts = Args(k, Len(f.parts))
    <3>1. CASE f.parts = <<>>
      BY <1>1, <3>1, ArgsFacts
    <3>2. CASE f.parts = <<<<k, 1>>>>
      <4>1. Len(f.parts) = 1
        BY <3>2
      <4> QED BY <1>1, <3>2, <4>1, ArgsFacts
    <3> QED BY <2>1, <3>1, <3>2
  <2>5. Given(0, <<>>).index = k - 1 /\ Given(0, <<>>).name = k /\ Given(0, <<>>).arguments = f.parts
    BY <1>1, <1>4
  <2> DEFINE a == Append(acc, Given(0, <<>>))
             b == Append(m, Len(f.parts))
  <2>6. /\ Len(a) = n + 1 /\ Len(b) = n + 1 /\ a[n + 1] = Given(0, <<>>) /\ b[n + 1] = Len(f.parts)
        /\ \A i \in 1..n : a[i] = acc[i] /\ b[i] = m[i]
    <3> HIDE DEF Given
    <3> QED BY <1>1, <2>3
  <2> HIDE DEF a, b, Given, index, n, k
  <2>7. ASSUME NEW i \in 1..(n + 1)
        PROVE  a[i].index = i - 1 /\ a[i].name = i /\ a[i].arguments = Args(i, b[i])
    <3>1. CASE i = n + 1
      BY <2>1, <2>4, <2>5, <2>6, <3>1
    <3>2. CASE i # n + 1
      <4>1. i \in 1..n
        BY <1>1, <3>2
      <4> QED BY <1>2, <2>6, <4>1
    <3> QED BY <3>1, <3>2
  <2> QED BY <2>2, <2>3, <2>6, <2>7 DEF Apart, a, b
<1>5. CASE ~f.first
  <2> DEFINE Kept(i) == IF acc[i].index # index THEN acc[i] ELSE Given(acc[i].name, acc[i].arguments)
             a == [i \in 1..Len(acc) |-> Kept(i)]
             b == [m EXCEPT ![k] = m[k] + 1]
  <2>1. k \in 1..n /\ f.parts = <<<<k, m[k] + 1>>>> /\ m[k] \in Nat
    BY <1>5 DEF Follows
  <2>2. Accumulate(acc, f, place) = a
    <3>1. ~ \A i \in 1..Len(acc) : acc[i].index # index
      BY <1>1, <1>3, <2>1
    <3> QED BY <3>1, Zenon DEF Accumulate
  <2>3. Meant(m, f) = b
    <3>1. Len(f.parts) = 1
      BY <2>1
    <3> QED BY <1>5, <3>1 DEF Meant
  <2>4. Len(b) = n /\ b[k] = m[k] + 1 /\ \A i \in 1..n : i # k => b[i] = m[i]
    BY <1>1, <2>1
  <2>5. Len(a) = n /\ \A i \in 1..n : a[i] = Kept(i)
    <3> HIDE DEF Kept
    <3> QED BY <1>1
  <2>6. acc[k].arguments \o f.parts = Args(k, m[k] + 1)
    <3>1. acc[k].arguments = Args(k, m[k])
      BY <1>2, <2>1
    <3>2. Args(k, m[k]) \o <<<<k, m[k] + 1>>>> = Args(k, m[k] + 1)
      BY <1>1, <2>1, ArgsFacts
    <3> QED BY <2>1, <3>1, <3>2
  <2>7. Kept(k).index = k - 1 /\ Kept(k).name = k /\ Kept(k).arguments = acc[k].arguments \o f.parts
    <3>1. acc[k].index = index /\ acc[k].name = k /\ index = k - 1
      BY <1>2, <1>3, <2>1
    <3> QED BY <1>5, <3>1
  <2>8. ASSUME NEW i \in 1..n, i # k PROVE Kept(i) = acc[i]
    BY <1>3, <2>8
  <2> HIDE DEF a, b, n, k, Kept, Given, index
  <2>9. ASSUME NEW i \in 1..n
        PROVE  a[i].index = i - 1 /\ a[i].name = i /\ a[i].arguments = Args(i, b[i])
    <3>1. CASE i = k
      BY <2>4, <2>5, <2>6, <2>7, <3>1
    <3>2. CASE i # k
      BY <1>2, <2>4, <2>5, <2>8, <3>2
    <3> QED BY <3>1, <3>2
  <2> QED BY <2>2, <2>3, <2>4, <2>5, <2>9 DEF Apart
<1> QED BY <1>4, <1>5

(* What a line may carry, whichever the format: fragments that follow, one *)
(* after another, and that go where they belong.                           *)
LEMMA FragmentsFollow ==
  ASSUME TypeOK, NEW c \in Calls, NEW fs \in Fragments(c)
  PROVE  /\ Len(fs) \in {1, 2}
         /\ Follows(meant[c], fs[1]) /\ IndexOf(fs[1], 1) = fs[1].call - 1
         /\ Len(fs) = 2 => /\ Follows(Meant(meant[c], fs[1]), fs[2])
                           /\ IndexOf(fs[2], 2) = fs[2].call - 1
<1> DEFINE m == meant[c]
           known == Len(m)
           Opens(k) == { [call |-> k, first |-> TRUE, parts |-> p] : p \in {<<>>, <<<<k, 1>>>>} }
           Goes(k) == [call |-> k, first |-> FALSE, parts |-> <<<<k, m[k] + 1>>>>]
           More == { Goes(k) : k \in {j \in 1..known : m[j] < MaxParts} }
           Opening(f, k) == f.first /\ f.call = k /\ f.parts \in {<<>>, <<<<k, 1>>>>}
           Going(f) == ~f.first /\ f.call \in 1..known /\ f.parts = <<<<f.call, m[f.call] + 1>>>>
<1>1. m \in Seq(Nat) /\ known \in Nat
  BY DEF TypeOK
<1>2. \A k \in Nat : \A f \in Opens(k) : Opening(f, k)
  OBVIOUS
<1>3. \A f \in More : Going(f)
  OBVIOUS
<1>4. \/ native /\ known = 0 /\ \E f \in Opens(1) : fs = <<f>>
      \/ native /\ known = 0 /\ \E f \in Opens(1), g \in Opens(2) : fs = <<f, g>>
      \/ ~native /\ \E f \in More \cup Opens(known + 1) : fs = <<f>>
      \/ ~native /\ known = 1 /\ \E f \in More, g \in Opens(2) : fs = <<f, g>>
  BY DEF Fragments
<1> HIDE DEF More, Opens
<1>5. \A f : Opening(f, known + 1) \/ Going(f) => Follows(m, f)
  BY DEF Follows
<1>6. CASE native /\ known = 0 /\ \E f \in Opens(1) : fs = <<f>>
  <2>1. PICK f \in Opens(1) : fs = <<f>>
    BY <1>6
  <2>2. Opening(f, 1)
    BY <1>2
  <2> QED BY <1>5, <1>6, <2>1, <2>2 DEF IndexOf
<1>7. CASE native /\ known = 0 /\ \E f \in Opens(1), g \in Opens(2) : fs = <<f, g>>
  <2>1. PICK f \in Opens(1), g \in Opens(2) : fs = <<f, g>>
    BY <1>7
  <2>2. Opening(f, 1) /\ Opening(g, 2)
    BY <1>2
  <2>3. Len(Meant(m, f)) = 1
    BY <1>1, <1>7, <2>2 DEF Meant
  <2>4. Follows(m, f) /\ Follows(Meant(m, f), g)
    BY <1>5, <1>7, <2>2, <2>3 DEF Follows
  <2>5. IndexOf(f, 1) = 0 /\ IndexOf(g, 2) = 1
    BY <1>7 DEF IndexOf
  <2>6. Len(fs) = 2 /\ fs[1] = f /\ fs[2] = g
    BY <2>1
  <2> QED BY <2>2, <2>4, <2>5, <2>6
<1>8. CASE ~native /\ \E f \in More \cup Opens(known + 1) : fs = <<f>>
  <2>1. PICK f \in More \cup Opens(known + 1) : fs = <<f>>
    BY <1>8
  <2>2. Follows(m, f)
    BY <1>1, <1>2, <1>3, <1>5
  <2>3. Len(fs) = 1 /\ fs[1] = f
    BY <2>1
  <2> QED BY <1>8, <2>2, <2>3 DEF IndexOf
<1>9. CASE ~native /\ known = 1 /\ \E f \in More, g \in Opens(2) : fs = <<f, g>>
  <2>1. PICK f \in More, g \in Opens(2) : fs = <<f, g>>
    BY <1>9
  <2>2. Going(f) /\ Opening(g, 2)
    BY <1>2, <1>3
  <2>3. Len(Meant(m, f)) = 1
    BY <1>1, <1>9, <2>2 DEF Meant
  <2>4. Follows(m, f) /\ Follows(Meant(m, f), g)
    BY <1>5, <2>2, <2>3 DEF Follows
  <2>5. Len(fs) = 2 /\ fs[1] = f /\ fs[2] = g
    BY <2>1
  <2> QED BY <1>9, <2>4, <2>5 DEF IndexOf
<1> QED BY <1>4, <1>6, <1>7, <1>8, <1>9

LEMMA LineApart ==
  ASSUME TypeOK, NEW c \in Calls, NEW fs \in Fragments(c), Apart(reply[c].tools, meant[c])
  PROVE  Apart(AccumulateLine(reply[c].tools, fs), MeantLine(meant[c], fs))
<1> DEFINE acc == reply[c].tools
           m == meant[c]
           a == Accumulate(acc, fs[1], 1)
           b == Meant(m, fs[1])
<1>1. acc \in Seq(Slot) /\ m \in Seq(Nat) /\ Apart(acc, m)
  BY DEF TypeOK, Reply
<1>2. /\ Len(fs) \in {1, 2} /\ fs \in Seq(Fragment)
      /\ \A i \in 1..Len(fs) : fs[i].call >= 1 /\ (~fs[i].first => fs[i].call \in 1..Len(m))
  BY FragmentsFollow, FragmentsType
<1>3. fs[1] \in Fragment /\ fs[1].call >= 1 /\ (~fs[1].first => fs[1].call \in 1..Len(m))
  BY <1>2
<1>4. /\ Follows(m, fs[1]) /\ IndexOf(fs[1], 1) = fs[1].call - 1
      /\ Len(fs) = 2 => Follows(b, fs[2]) /\ IndexOf(fs[2], 2) = fs[2].call - 1
  BY FragmentsFollow
<1> HIDE DEF acc, m
<1>5. a \in Seq(Slot)
  BY <1>1, <1>3, AccumulateType
<1>6. b \in Seq(Nat)
  BY <1>1, <1>3, MeantType
<1>7. Apart(a, b)
  BY <1>1, <1>3, <1>4, AccumulateApart
<1>8. CASE Len(fs) = 1
  BY <1>7, <1>8 DEF AccumulateLine, MeantLine, acc, m
<1>9. CASE Len(fs) = 2
  <2>1. fs[2] \in Fragment /\ Follows(b, fs[2]) /\ IndexOf(fs[2], 2) = fs[2].call - 1
    <3>1. 2 \in 1..Len(fs)
      BY <1>9
    <3>2. fs[2] \in Fragment
      BY <1>2, <3>1
    <3> HIDE DEF b
    <3> QED BY <1>4, <1>9, <3>2
  <2> HIDE DEF a, b
  <2>2. Apart(Accumulate(a, fs[2], 2), Meant(b, fs[2]))
    BY <1>5, <1>6, <1>7, <2>1, AccumulateApart
  <2> QED BY <1>9, <2>2 DEF AccumulateLine, MeantLine, acc, m, a, b
<1> QED BY <1>2, <1>8, <1>9

ApartInv == \A c \in Calls : Apart(reply[c].tools, meant[c])

LEMMA ApartStep == TypeOK /\ ApartInv /\ [Next]_vars => ApartInv'
<1> SUFFICES ASSUME TypeOK, ApartInv, [Next]_vars, NEW d \in Calls
             PROVE  Apart(reply'[d].tools, meant'[d])
  BY DEF ApartInv
<1>1. reply \in [Calls -> Reply] /\ meant \in [Calls -> Seq(Nat)]
  BY DEF TypeOK
<1>2. ASSUME reply'[d].tools = reply[d].tools, meant'[d] = meant[d]
      PROVE  Apart(reply'[d].tools, meant'[d])
  BY <1>2 DEF ApartInv
<1>3. ASSUME NEW c \in Calls, Ask(c) PROVE Apart(reply'[d].tools, meant'[d])
  <2>1. Apart(<<>>, <<>>)
    BY DEF Apart
  <2>2. d = c => reply'[d].tools = <<>> /\ meant'[d] = <<>>
    BY <1>1, <1>3 DEF Ask, NoReply
  <2>3. d # c => reply'[d].tools = reply[d].tools /\ meant'[d] = meant[d]
    BY <1>1, <1>3 DEF Ask
  <2> QED BY <1>2, <2>1, <2>2, <2>3
<1>4. ASSUME NEW c \in Calls, NEW kind \in Kinds, TakeText(c, kind)
      PROVE  Apart(reply'[d].tools, meant'[d])
  <2>1. reply' = [reply EXCEPT ![c] = WithText(reply[c], kind, deltas + 1)] /\ meant' = meant
    BY <1>4 DEF TakeText
  <2>2. WithText(reply[c], kind, deltas + 1).tools = reply[c].tools
    BY <1>1 DEF WithText, Reply
  <2> QED BY <1>1, <1>2, <2>1, <2>2
<1>5. ASSUME NEW c \in Calls, NEW fs \in Fragments(c), TakeTools(c, fs)
      PROVE  Apart(reply'[d].tools, meant'[d])
  <2>1. CASE d = c
    <3>1. /\ reply'[d].tools = AccumulateLine(reply[c].tools, fs)
          /\ meant'[d] = MeantLine(meant[c], fs)
      BY <1>1, <1>5, <2>1 DEF TakeTools, Reply
    <3>2. Apart(reply[c].tools, meant[c])
      BY DEF ApartInv
    <3> QED BY <3>1, <3>2, LineApart
  <2>2. CASE d # c
    BY <1>1, <1>2, <1>5, <2>2 DEF TakeTools
  <2> QED BY <2>1, <2>2
<1>6. ASSUME NEW c \in Calls, StreamEnds(c) PROVE Apart(reply'[d].tools, meant'[d])
  <2>1. PICK n \in 0..Len(reply[c].say) : reply' = [reply EXCEPT ![c] = Normalized(reply[c], n)]
    BY <1>6 DEF StreamEnds
  <2>2. Normalized(reply[c], n).tools = reply[c].tools
    BY <1>1 DEF Normalized, Reply
  <2> QED BY <1>1, <1>2, <1>6, <2>1, <2>2 DEF StreamEnds
<1>7. ASSUME NEW c \in Calls,
             StreamFails(c) \/ ToolRound(c) \/ RoundsExhausted(c) \/ Reject(c) \/ Accept(c) \/ Cancel(c)
      PROVE  Apart(reply'[d].tools, meant'[d])
  BY <1>2, <1>7 DEF StreamFails, ToolRound, RoundsExhausted, Reject, Accept, Cancel, stream
<1>8. CASE UNCHANGED vars
  BY <1>2, <1>8 DEF vars
<1>9. CASE Next
  <2>1. PICK c \in Calls :
          \/ Ask(c)
          \/ \E kind \in Kinds : TakeText(c, kind)
          \/ \E fs \in Fragments(c) : TakeTools(c, fs)
          \/ StreamEnds(c) \/ StreamFails(c)
          \/ ToolRound(c) \/ RoundsExhausted(c) \/ Reject(c) \/ Accept(c) \/ Cancel(c)
    BY <1>9, Zenon DEF Next
  <2> QED BY <1>3, <1>4, <1>5, <1>6, <1>7, <2>1, Zenon
<1> QED BY <1>8, <1>9

(* However a stream splits and interleaves its tool calls, and in either   *)
(* format, none is merged into another or loses a piece of its arguments.  *)
THEOREM ToolCallsAreKeptApart == Spec => []ToolCallsApart
<1> DEFINE Inv == TypeOK /\ ApartInv
<1>1. Init => Inv
  <2>1. ASSUME Init PROVE ApartInv
    BY <2>1 DEF Init, ApartInv, Apart, NoReply
  <2> QED BY <2>1, TypeInit
<1>2. Inv /\ [Next]_vars => Inv'
  BY TypeStep, ApartStep
<1>3. Inv => ToolCallsApart
  BY DEF ApartInv, Apart, Args, ToolCallsApart
<1> QED BY <1>1, <1>2, <1>3, PTL DEF Spec

-----------------------------------------------------------------------------
(* What makes LogTellsReply inductive: numbers of requests are told apart; *)
(* a record that is its call's own tells the stream so far, and is open    *)
(* until that call closes it.                                              *)
(*                                                                         *)
(* Records, and what they tell.  One more entry goes to the record of the  *)
(* latest request, if it is not a request itself, and to no other.         *)

LEMMA RecordOld ==
  ASSUME NEW f \in Seq(Entry), NEW e \in Entry, NEW n \in Nat, NEW j \in 1..Len(f)
  PROVE  j \in Record(Append(f, e), n) <=> j \in Record(f, n)
<1> DEFINE g == Append(f, e)
<1>1. /\ Len(f) \in Nat /\ Len(g) = Len(f) + 1
      /\ \A i \in 1..Len(f) : g[i] = f[i]
  BY Appended
<1> HIDE DEF g
<1>2. j \in 1..Len(g) /\ \A i \in 1..j : i \in 1..Len(f) /\ g[i] = f[i]
  BY <1>1
<1>3. ASSUME NEW i \in 1..(j - 1)
      PROVE  /\ g[i] = Line("request", n) <=> f[i] = Line("request", n)
             /\ (\A k \in (i + 1)..j : g[k].is # "request") <=> (\A k \in (i + 1)..j : f[k].is # "request")
  <2>1. i \in 1..j /\ \A k \in (i + 1)..j : k \in 1..j
    OBVIOUS
  <2> QED BY <1>2, <2>1
<1> QED BY <1>2, <1>3 DEF Record, g

LEMMA OneMore ==
  ASSUME NEW m \in Nat, NEW S, NEW R, S \subseteq 1..m, R \subseteq 1..(m + 1),
         \A i \in 1..m : i \in R <=> i \in S
  PROVE  /\ m + 1 \in R => R = S \cup {m + 1}
         /\ m + 1 \notin R => R = S
<1>1. \A i \in R : i \in 1..m \/ i = m + 1
  OBVIOUS
<1>2. R \ {m + 1} = S
  <2>1. m + 1 \notin S
    OBVIOUS
  <2> QED BY <1>1, <2>1
<1> QED BY <1>2

LEMMA RecordAppend ==
  ASSUME NEW f \in Seq(Entry), NEW e \in Entry, e.is # "request",
         NEW N \in Nat, NEW ended \in BOOLEAN, Latest(f, N, ended), NEW n \in Nat
  PROVE  /\ n = N => Record(Append(f, e), n) = Record(f, n) \cup {Len(f) + 1}
         /\ n # N => Record(Append(f, e), n) = Record(f, n)
<1> DEFINE g == Append(f, e)
           j == Len(f) + 1
<1>1. /\ Len(f) \in Nat /\ Len(g) = j /\ g[j] = e
      /\ \A i \in 1..Len(f) : g[i] = f[i]
  BY Appended
<1>2. \A i \in 1..Len(f) : i \in Record(g, n) <=> i \in Record(f, n)
  BY RecordOld
<1>3. PICK i \in 1..Len(f) :
             /\ f[i] = Line("request", N)
             /\ \A k \in (i + 1)..Len(f) : f[k].is # "request" /\ (ended \/ f[k].is # "end")
  BY DEF Latest
<1>4. Record(f, n) \subseteq 1..Len(f) /\ Record(g, n) \subseteq 1..(Len(f) + 1)
  BY <1>1 DEF Record
<1> HIDE DEF g
<1>5. CASE n = N
  <2>1. i \in 1..(j - 1) /\ g[i] = Line("request", n)
    BY <1>1, <1>3, <1>5
  <2>2. ASSUME NEW k \in (i + 1)..j PROVE g[k].is # "request"
    BY <1>1, <1>3
  <2>3. j \in Record(g, n)
    BY <1>1, <2>1, <2>2 DEF Record
  <2>4. Record(g, n) = Record(f, n) \cup {j}
    BY <1>1, <1>2, <1>4, <2>3, OneMore
  <2> QED BY <1>5, <2>4 DEF g
<1>6. CASE n # N
  <2>1. j \notin Record(g, n)
    <3> SUFFICES ASSUME NEW r \in 1..(j - 1), g[r] = Line("request", n),
                        \A k \in (r + 1)..j : g[k].is # "request"
                 PROVE  FALSE
      BY DEF Record
    <3>1. r \in 1..Len(f) /\ f[r] = Line("request", n) /\ g[i] = Line("request", N)
      BY <1>1, <1>3
    <3>2. g[i].is = "request" /\ f[r].is = "request"
      BY <3>1 DEF Line
    <3>3. r # i
      <4>1. Line("request", n).nr = n /\ Line("request", N).nr = N
        BY DEF Line
      <4> QED BY <1>3, <1>6, <3>1, <4>1
    <3>4. CASE r < i
      <4>1. i \in (r + 1)..j
        BY <1>1, <1>3, <3>1, <3>4
      <4> QED BY <3>2, <4>1
    <3>5. CASE i < r
      <4>1. r \in (i + 1)..Len(f)
        BY <1>1, <1>3, <3>1, <3>5
      <4> QED BY <1>3, <3>2, <4>1
    <3> QED BY <3>1, <3>3, <3>4, <3>5
  <2>2. Record(g, n) = Record(f, n)
    <3> DEFINE S == Record(f, n)
               R == Record(g, n)
               m == Len(f)
    <3>1. /\ m \in Nat /\ m + 1 \notin R /\ S \subseteq 1..m /\ R \subseteq 1..(m + 1)
          /\ \A k \in 1..m : k \in R <=> k \in S
      BY <1>1, <1>2, <1>4, <2>1
    <3> HIDE DEF R, S, m
    <3>2. R = S
      BY <3>1, OneMore
    <3> QED BY <3>2 DEF R, S
  <2> QED BY <1>6, <2>2 DEF g
<1> QED BY <1>5, <1>6

LEMMA RecordRequest ==
  ASSUME NEW f \in Seq(Entry), NEW e \in Entry, e.is = "request", NEW n \in Nat
  PROVE  Record(Append(f, e), n) = Record(f, n)
<1> DEFINE g == Append(f, e)
           j == Len(f) + 1
<1>1. Len(f) \in Nat /\ Len(g) = j /\ g[j] = e
  BY Appended
<1>2. \A i \in 1..Len(f) : i \in Record(g, n) <=> i \in Record(f, n)
  BY RecordOld
<1>3. Record(f, n) \subseteq 1..Len(f) /\ Record(g, n) \subseteq 1..(Len(f) + 1)
  BY <1>1 DEF Record
<1> HIDE DEF g
<1>4. j \notin Record(g, n)
  <2>1. \A r \in 1..(j - 1) : j \in (r + 1)..j
    BY <1>1
  <2> QED BY <1>1, <2>1 DEF Record
<1>5. Record(g, n) = Record(f, n)
  BY <1>1, <1>2, <1>3, <1>4, OneMore
<1> QED BY <1>5 DEF g

(* What a record tells of a kind: nothing new from an entry that is not in *)
(* it or of another kind, one more number from one that is.                *)
LEMMA TellsSame ==
  ASSUME NEW f \in Seq(Entry), NEW e \in Entry, NEW n \in Nat, NEW kind, NEW s,
         \/ Record(Append(f, e), n) = Record(f, n)
         \/ Record(Append(f, e), n) = Record(f, n) \cup {Len(f) + 1} /\ e.is # kind,
         Tells(f, n, kind, s)
  PROVE  Tells(Append(f, e), n, kind, s)
<1> DEFINE g == Append(f, e)
           E == {j \in Record(f, n) : f[j].is = kind}
           F == {j \in Record(g, n) : g[j].is = kind}
<1>1. /\ Len(f) \in Nat /\ Len(g) = Len(f) + 1 /\ g[Len(f) + 1] = e
      /\ \A i \in 1..Len(f) : g[i] = f[i]
  BY Appended
<1>2. Record(f, n) \subseteq 1..Len(f)
  BY DEF Record
<1>3. /\ Cardinality(E) = Len(s)
      /\ \A j \in E : f[j].nr = s[Cardinality({i \in E : i <= j})]
  BY DEF Tells
<1>4. Record(g, n) = Record(f, n) \/ (Record(g, n) = Record(f, n) \cup {Len(f) + 1} /\ e.is # kind)
  OBVIOUS
<1> HIDE DEF g
<1>5. F = E /\ \A j \in E : g[j] = f[j]
  BY <1>1, <1>2, <1>4
<1> HIDE DEF E, F
<1>6. /\ Cardinality(F) = Len(s)
      /\ \A j \in F : g[j].nr = s[Cardinality({i \in F : i <= j})]
  BY <1>3, <1>5
<1> QED BY <1>6 DEF Tells, g, F

LEMMA TellsMore ==
  ASSUME NEW f \in Seq(Entry), NEW e \in Entry, NEW n \in Nat, NEW s \in Seq(Nat),
         Record(Append(f, e), n) = Record(f, n) \cup {Len(f) + 1},
         Tells(f, n, e.is, s)
  PROVE  Tells(Append(f, e), n, e.is, Append(s, e.nr))
<1> DEFINE g == Append(f, e)
           l == Len(f) + 1
           t == Append(s, e.nr)
           E == {j \in Record(f, n) : f[j].is = e.is}
           F == {j \in Record(g, n) : g[j].is = e.is}
           Upto(S, j) == {i \in S : i <= j}
<1>1. /\ Len(f) \in Nat /\ Len(g) = l /\ g[l] = e
      /\ \A i \in 1..Len(f) : g[i] = f[i]
  BY Appended
<1>2. Record(f, n) \subseteq 1..Len(f)
  BY DEF Record
<1>3. /\ Cardinality(E) = Len(s)
      /\ \A j \in E : f[j].nr = s[Cardinality(Upto(E, j))]
  BY DEF Tells
<1>4. Record(g, n) = Record(f, n) \cup {l}
  OBVIOUS
<1>5. Len(s) \in Nat /\ e.nr \in Nat
  BY DEF Entry
<1>6. Len(t) = Len(s) + 1 /\ t[Len(s) + 1] = e.nr /\ \A i \in 1..Len(s) : t[i] = s[i]
  BY <1>5
<1> HIDE DEF g, t
<1>7. F = E \cup {l} /\ E \subseteq 1..Len(f) /\ l \notin E
  BY <1>1, <1>2, <1>4
<1>8. IsFiniteSet(E)
  <2>1. IsFiniteSet(1..Len(f))
    BY <1>1, FS_Interval
  <2> QED BY <1>7, <2>1, FS_Subset
<1> HIDE DEF E, F
<1>9. Cardinality(F) = Len(s) + 1
  <2>1. Cardinality(E \cup {l}) = Cardinality(E) + 1
    BY <1>7, <1>8, FS_AddElement
  <2> QED BY <1>3, <1>7, <2>1
<1>10. ASSUME NEW j \in F PROVE g[j].nr = t[Cardinality(Upto(F, j))]
  <2>1. CASE j = l
    <3>1. Upto(F, j) = F
      <4>1. \A i \in F : i <= j
        BY <1>1, <1>7, <2>1
      <4> QED BY <4>1
    <3> HIDE DEF Upto
    <3> QED BY <1>1, <1>6, <1>9, <2>1, <3>1
  <2>2. CASE j # l
    <3>1. j \in E /\ j \in 1..Len(f)
      BY <1>7, <2>2
    <3>2. Upto(F, j) = Upto(E, j)
      BY <1>1, <1>7, <3>1
    <3>3. Cardinality(Upto(E, j)) \in 1..Len(s)
      <4>1. Upto(E, j) \subseteq E /\ j \in Upto(E, j)
        BY <3>1
      <4> HIDE DEF Upto
      <4>2. IsFiniteSet(Upto(E, j)) /\ Cardinality(Upto(E, j)) <= Cardinality(E)
        BY <1>8, <4>1, FS_Subset
      <4>3. Cardinality(Upto(E, j)) \in Nat /\ Cardinality(Upto(E, j)) # 0
        <5>1. Cardinality(Upto(E, j)) \in Nat
          BY <4>2, FS_CardinalityType
        <5>2. Upto(E, j) # {}
          BY <4>1
        <5> QED BY <4>2, <5>1, <5>2, FS_EmptySet
      <4> QED BY <1>3, <1>5, <4>2, <4>3
    <3> HIDE DEF Upto
    <3>4. f[j].nr = s[Cardinality(Upto(E, j))] /\ g[j] = f[j]
      BY <1>1, <1>3, <3>1
    <3> QED BY <1>6, <3>2, <3>3, <3>4
  <2> QED BY <2>1, <2>2
<1>11. /\ Cardinality(F) = Len(t)
       /\ \A j \in F : g[j].nr = t[Cardinality(Upto(F, j))]
  BY <1>6, <1>9, <1>10
<1> QED BY <1>11 DEF Tells, g, F, t

LEMMA TellsNothing ==
  ASSUME NEW f, NEW n, NEW kind, Record(f, n) = {}
  PROVE  Tells(f, n, kind, <<>>)
<1> DEFINE E == {j \in Record(f, n) : f[j].is = kind}
<1>1. E = {}
  OBVIOUS
<1>2. Cardinality({}) = 0
  BY FS_EmptySet
<1> HIDE DEF E
<1>3. Cardinality(E) = Len(<<>>) /\ \A j \in E : FALSE
  BY <1>1, <1>2
<1> QED BY <1>3 DEF Tells, E

(* What a record tells stays, or one more number is told of one kind, in   *)
(* the latest record only.                                                 *)
Told == Kinds \cup {"end"}

Kept(f, g, n) == \A kind \in Told : \A s : Tells(f, n, kind, s) => Tells(g, n, kind, s)

OneTold(f, g, N, kind, nr) ==
  /\ \A n \in Nat \ {N} : Kept(f, g, n)
  /\ \A s \in Seq(Nat) : Tells(f, N, kind, s) => Tells(g, N, kind, Append(s, nr))
  /\ \A other \in Told \ {kind} : \A s : Tells(f, N, other, s) => Tells(g, N, other, s)

LEMMA EntryKept ==
  ASSUME NEW f \in Seq(Entry), NEW e \in Entry, e.is \notin Told \cup {"request"},
         NEW N \in Nat, NEW ended \in BOOLEAN, Latest(f, N, ended), NEW n \in Nat
  PROVE  Kept(f, Append(f, e), n)
<1>1. \/ Record(Append(f, e), n) = Record(f, n)
      \/ Record(Append(f, e), n) = Record(f, n) \cup {Len(f) + 1}
  <2>1. e.is # "request"
    OBVIOUS
  <2> QED BY <2>1, RecordAppend
<1>2. ASSUME NEW kind \in Told, NEW s, Tells(f, n, kind, s)
      PROVE  Tells(Append(f, e), n, kind, s)
  <2>1. e.is # kind
    OBVIOUS
  <2> QED BY <1>1, <1>2, <2>1, TellsSame
<1> QED BY <1>2 DEF Kept

LEMMA EntryTold ==
  ASSUME NEW f \in Seq(Entry), NEW e \in Entry, e.is \in Told,
         NEW N \in Nat, NEW ended \in BOOLEAN, Latest(f, N, ended)
  PROVE  OneTold(f, Append(f, e), N, e.is, e.nr)
<1> DEFINE g == Append(f, e)
<1>1. e.is # "request"
  BY DEF Told, Kinds
<1>2. ASSUME NEW n \in Nat \ {N} PROVE Kept(f, g, n)
  <2>1. Record(g, n) = Record(f, n)
    BY <1>1, RecordAppend
  <2>2. ASSUME NEW kind \in Told, NEW s, Tells(f, n, kind, s) PROVE Tells(g, n, kind, s)
    BY <2>1, <2>2, TellsSame
  <2> QED BY <2>2 DEF Kept
<1>3. Record(g, N) = Record(f, N) \cup {Len(f) + 1}
  BY <1>1, RecordAppend
<1>4. ASSUME NEW s \in Seq(Nat), Tells(f, N, e.is, s)
      PROVE  Tells(g, N, e.is, Append(s, e.nr))
  BY <1>3, <1>4, TellsMore
<1>5. ASSUME NEW other \in Told \ {e.is}, NEW s, Tells(f, N, other, s)
      PROVE  Tells(g, N, other, s)
  <2>1. e.is # other
    OBVIOUS
  <2> QED BY <1>3, <1>5, <2>1, TellsSame
<1> HIDE DEF g
<1>6. OneTold(f, g, N, e.is, e.nr)
  BY <1>2, <1>4, <1>5 DEF OneTold
<1> QED BY <1>6 DEF g

LEMMA ToldAfter ==
  ASSUME NEW f, NEW h, NEW g, NEW N \in Nat, NEW kind \in Told, NEW nr,
         \A n \in Nat : Kept(f, h, n), OneTold(h, g, N, kind, nr)
  PROVE  OneTold(f, g, N, kind, nr)
<1>1. ASSUME NEW n \in Nat, NEW k \in Told, NEW s, Tells(f, n, k, s) PROVE Tells(h, n, k, s)
  BY <1>1 DEF Kept
<1>2. ASSUME NEW n \in Nat \ {N} PROVE Kept(f, g, n)
  <2>1. Kept(h, g, n)
    BY DEF OneTold
  <2>2. ASSUME NEW k \in Told, NEW s, Tells(f, n, k, s) PROVE Tells(g, n, k, s)
    BY <1>1, <2>1, <2>2 DEF Kept
  <2> QED BY <2>2 DEF Kept
<1>3. ASSUME NEW s \in Seq(Nat), Tells(f, N, kind, s) PROVE Tells(g, N, kind, Append(s, nr))
  BY <1>1, <1>3 DEF OneTold
<1>4. ASSUME NEW other \in Told \ {kind}, NEW s, Tells(f, N, other, s) PROVE Tells(g, N, other, s)
  BY <1>1, <1>4 DEF OneTold
<1> QED BY <1>2, <1>3, <1>4 DEF OneTold

(* The logger's operations.                                                *)
LEMMA WriteOutputChunkTells ==
  ASSUME NEW l \in Logger, NEW kind \in Kinds, NEW nr \in Nat, Sound(l), l.callNum # 0
  PROVE  OneTold(l.file, WriteOutputChunk(l, kind, nr).file, l.callNum, kind, nr)
<1> DEFINE N == l.callNum
           f == l.file
           out == WriteOutputChunk(l, kind, nr)
           h == Line(HeadingOf(kind), 0)
           e == Line(kind, nr)
<1>1. out = WriteOutputChunk(l, kind, nr) /\ h = Line(HeadingOf(kind), 0) /\ e = Line(kind, nr)
  OBVIOUS
<1>2. f \in Seq(Entry) /\ N \in Nat /\ l.logEndWritten \in BOOLEAN /\ Latest(f, N, l.logEndWritten)
  BY DEF Sound, Logger
<1>3. h.is \notin Told \cup {"request", "end"} /\ e.is = kind /\ e.nr = nr /\ kind \in Told
  BY DEF Line, HeadingOf, Told, Kinds
<1> HIDE DEF out, h, e
<1>4. Wrote(l, kind, out, h, e)
  BY <1>1, ChunkFile
<1>5. /\ h \in Entry /\ e \in Entry
      /\ out.file = Append(Append(f, h), e) \/ out.file = Append(f, e)
  BY <1>4 DEF Wrote
<1> HIDE DEF N, f
<1>6. CASE out.file = Append(f, e)
  <2>1. OneTold(f, Append(f, e), N, e.is, e.nr)
    BY <1>2, <1>3, <1>5, EntryTold
  <2> QED BY <1>3, <1>6, <2>1 DEF f, N, out
<1>7. CASE out.file = Append(Append(f, h), e)
  <2> DEFINE g == Append(f, h)
  <2>1. g \in Seq(Entry)
    BY <1>2, <1>5
  <2>2. \A n \in Nat : Kept(f, g, n)
    BY <1>2, <1>3, <1>5, EntryKept
  <2>3. Latest(g, N, l.logEndWritten)
    BY <1>2, <1>3, <1>5, AppendText
  <2> HIDE DEF g
  <2>4. OneTold(g, Append(g, e), N, e.is, e.nr)
    BY <1>2, <1>3, <1>5, <2>1, <2>3, EntryTold
  <2>5. OneTold(f, Append(g, e), N, e.is, e.nr)
    BY <1>2, <1>3, <2>2, <2>4, ToldAfter
  <2> QED BY <1>3, <1>7, <2>5 DEF f, N, out, g
<1> QED BY <1>5, <1>6, <1>7

LEMMA LogInfoTells ==
  ASSUME NEW l \in Logger, Sound(l), l.callNum # 0, NEW n \in Nat
  PROVE  Kept(l.file, LogInfo(l).file, n)
<1> DEFINE e == Line("info", 0)
<1>1. /\ l.file \in Seq(Entry) /\ l.callNum \in Nat /\ l.logEndWritten \in BOOLEAN
      /\ Latest(l.file, l.callNum, l.logEndWritten)
  BY DEF Sound, Logger
<1>2. e \in Entry /\ e.is \notin Told \cup {"request"}
  BY LineType DEF Line, Told, Kinds
<1>3. LogInfo(l).file = Append(l.file, e)
  BY DEF LogInfo, Logger
<1> HIDE DEF e
<1>4. Kept(l.file, Append(l.file, e), n)
  BY <1>1, <1>2, EntryKept
<1> QED BY <1>3, <1>4

LEMMA WriteEndTells ==
  ASSUME NEW l \in Logger, Sound(l), l.callNum # 0
  PROVE  IF l.logEndWritten THEN WriteEnd(l) = l
         ELSE OneTold(l.file, WriteEnd(l).file, l.callNum, "end", l.callNum)
<1>1. CASE l.logEndWritten
  BY <1>1 DEF WriteEnd
<1>2. CASE ~l.logEndWritten
  <2> DEFINE e == Line("end", l.callNum)
  <2>1. /\ l.file \in Seq(Entry) /\ l.callNum \in Nat /\ l.logEndWritten \in BOOLEAN
        /\ Latest(l.file, l.callNum, l.logEndWritten)
    BY DEF Sound, Logger
  <2>2. e \in Entry /\ e.is = "end" /\ e.nr = l.callNum
    BY <2>1, LineType DEF Line
  <2>3. WriteEnd(l).file = Append(l.file, e)
    BY <1>2 DEF WriteEnd, Logger
  <2>4. "end" \in Told
    BY DEF Told
  <2> HIDE DEF e
  <2>5. OneTold(l.file, Append(l.file, e), l.callNum, e.is, e.nr)
    BY <2>1, <2>2, <2>4, EntryTold
  <2> QED BY <1>2, <2>2, <2>3, <2>5
<1> QED BY <1>1, <1>2

LEMMA LogResponseTells ==
  ASSUME NEW l \in Logger, Sound(l), l.callNum # 0, NEW n \in Nat, n # l.callNum
  PROVE  Kept(l.file, LogResponse(l).file, n)
<1> DEFINE a == WriteOutputChunk(l, "say", 0)
           b == LogInfo(a)
<1>1. a \in Logger /\ a.callNum = l.callNum /\ Sound(a)
  BY WriteOutputChunkType, WriteOutputChunkSound DEF Kinds
<1>2. Kept(l.file, a.file, n)
  <2>1. OneTold(l.file, a.file, l.callNum, "say", 0)
    BY WriteOutputChunkTells DEF Kinds
  <2> HIDE DEF a
  <2> QED BY <2>1 DEF OneTold
<1> HIDE DEF a
<1>3. b \in Logger /\ b.callNum = l.callNum /\ Sound(b)
  BY <1>1, LogInfoType, LogInfoSound
<1>4. Kept(a.file, b.file, n)
  BY <1>1, LogInfoTells
<1> HIDE DEF b
<1>5. Kept(b.file, WriteEnd(b).file, n)
  <2>1. IF b.logEndWritten THEN WriteEnd(b) = b
        ELSE OneTold(b.file, WriteEnd(b).file, b.callNum, "end", b.callNum)
    BY <1>3, WriteEndTells
  <2> QED BY <1>3, <2>1 DEF OneTold, Kept
<1>6. LogResponse(l).file = WriteEnd(b).file
  BY DEF LogResponse, a, b
<1> QED BY <1>2, <1>4, <1>5, <1>6 DEF Kept

(* No request has a number beyond the counter.                             *)
Numbered(l) == \A i \in 1..Len(l.file) : l.file[i].is = "request" => l.file[i].nr <= l.callNum

LEMMA LogRequestTells ==
  ASSUME NEW l \in Logger, Numbered(l)
  PROVE  /\ \A n \in Nat : Kept(l.file, LogRequest(l).file, n)
         /\ \A kind \in Told : Tells(LogRequest(l).file, l.callNum + 1, kind, <<>>)
<1> DEFINE e == Line("request", l.callNum + 1)
           f == l.file
           g == Append(f, e)
<1>1. f \in Seq(Entry) /\ l.callNum \in Nat /\ l.callNum + 1 \in Nat
  BY DEF Logger
<1>2. e \in Entry /\ e.is = "request"
  BY <1>1, LineType DEF Line
<1>3. LogRequest(l).file = g
  BY DEF LogRequest, Logger
<1>4. \A n \in Nat : Record(g, n) = Record(f, n)
  <2> HIDE DEF e, f
  <2> QED BY <1>1, <1>2, RecordRequest
<1>5. Record(f, l.callNum + 1) = {}
  <2> SUFFICES ASSUME NEW i \in 1..Len(f), f[i] = Line("request", l.callNum + 1) PROVE FALSE
    <3>1. \A j \in 1..Len(f) : \A i \in 1..(j - 1) : i \in 1..Len(f)
      BY <1>1
    <3> QED BY <3>1 DEF Record
  <2>1. f[i].is = "request" /\ f[i].nr = l.callNum + 1
    BY DEF Line
  <2> QED BY <1>1, <2>1 DEF Numbered
<1>6. \A kind \in Told : Tells(g, l.callNum + 1, kind, <<>>)
  <2>1. Record(g, l.callNum + 1) = {}
    BY <1>1, <1>4, <1>5
  <2> HIDE DEF g
  <2> QED BY <2>1, TellsNothing
<1>7. ASSUME NEW n \in Nat PROVE Kept(f, g, n)
  <2> HIDE DEF e, f
  <2>1. ASSUME NEW kind \in Told, NEW s, Tells(f, n, kind, s) PROVE Tells(g, n, kind, s)
    BY <1>1, <1>2, <1>4, <2>1, TellsSame
  <2> HIDE DEF g
  <2> QED BY <2>1 DEF Kept
<1> HIDE DEF f, g
<1> QED BY <1>3, <1>6, <1>7 DEF f

Requests(f, N) == \A i \in 1..Len(f) : f[i].is = "request" => f[i].nr <= N

LEMMA AppendRequests ==
  ASSUME NEW f \in Seq(Entry), NEW e \in Entry, NEW N \in Nat, NEW M \in Nat, N <= M,
         Requests(f, N), e.is = "request" => e.nr <= M
  PROVE  Requests(Append(f, e), M)
<1> DEFINE g == Append(f, e)
<1>1. /\ Len(f) \in Nat /\ Len(g) = Len(f) + 1 /\ g[Len(f) + 1] = e
      /\ \A i \in 1..Len(f) : g[i] = f[i]
  BY Appended
<1> HIDE DEF g
<1> SUFFICES ASSUME NEW i \in 1..Len(g), g[i].is = "request" PROVE g[i].nr <= M
  BY DEF Requests, g
<1>2. CASE i = Len(f) + 1
  BY <1>1, <1>2
<1>3. CASE i # Len(f) + 1
  <2>1. i \in 1..Len(f) /\ g[i] = f[i] /\ f[i] \in Entry
    BY <1>1, <1>3
  <2> QED BY <2>1 DEF Requests, Entry
<1> QED BY <1>2, <1>3

LEMMA WriteOutputChunkNumbered ==
  ASSUME NEW l \in Logger, NEW kind \in Kinds, NEW nr \in Nat, Numbered(l)
  PROVE  Numbered(WriteOutputChunk(l, kind, nr))
<1> DEFINE out == WriteOutputChunk(l, kind, nr)
           h == Line(HeadingOf(kind), 0)
           e == Line(kind, nr)
<1>1. out = WriteOutputChunk(l, kind, nr) /\ h = Line(HeadingOf(kind), 0) /\ e = Line(kind, nr)
  OBVIOUS
<1>2. h.is # "request" /\ e.is # "request"
  BY DEF Line, HeadingOf, Kinds
<1>3. l.file \in Seq(Entry) /\ l.callNum \in Nat /\ Requests(l.file, l.callNum)
  BY DEF Logger, Numbered, Requests
<1> HIDE DEF out, h, e
<1>4. Wrote(l, kind, out, h, e)
  BY <1>1, ChunkFile
<1>5. /\ h \in Entry /\ e \in Entry /\ out.callNum = l.callNum
      /\ out.file = Append(Append(l.file, h), e) \/ out.file = Append(l.file, e)
  BY <1>4 DEF Wrote
<1>6. Requests(Append(l.file, e), l.callNum)
  BY <1>2, <1>3, <1>5, AppendRequests
<1>7. Append(l.file, h) \in Seq(Entry) /\ Requests(Append(l.file, h), l.callNum)
  BY <1>2, <1>3, <1>5, AppendRequests
<1>8. Requests(Append(Append(l.file, h), e), l.callNum)
  <2> DEFINE f == Append(l.file, h)
             N == l.callNum
  <2>1. f \in Seq(Entry) /\ N \in Nat /\ N <= N /\ Requests(f, N) /\ e \in Entry /\ e.is # "request"
    BY <1>2, <1>3, <1>5, <1>7
  <2> HIDE DEF f, N
  <2>2. Requests(Append(f, e), N)
    BY <2>1, AppendRequests
  <2> QED BY <2>2 DEF f, N
<1>9. Requests(out.file, out.callNum)
  BY <1>5, <1>6, <1>8
<1> QED BY <1>9 DEF Numbered, Requests, out

LEMMA WriteEndNumbered ==
  ASSUME NEW l \in Logger, Numbered(l)
  PROVE  Numbered(WriteEnd(l))
<1> DEFINE e == Line("end", l.callNum)
<1>1. l.file \in Seq(Entry) /\ l.callNum \in Nat /\ Requests(l.file, l.callNum)
  BY DEF Logger, Numbered, Requests
<1>2. e \in Entry /\ e.is # "request"
  BY <1>1, LineType DEF Line
<1>3. \/ WriteEnd(l) = l
      \/ WriteEnd(l).file = Append(l.file, e) /\ WriteEnd(l).callNum = l.callNum
  BY DEF WriteEnd, Logger
<1> HIDE DEF e
<1>4. Requests(Append(l.file, e), l.callNum)
  BY <1>1, <1>2, AppendRequests
<1> QED BY <1>3, <1>4 DEF Numbered, Requests

LEMMA LogInfoNumbered ==
  ASSUME NEW l \in Logger, Numbered(l)
  PROVE  Numbered(LogInfo(l))
<1> DEFINE e == Line("info", 0)
<1>1. l.file \in Seq(Entry) /\ l.callNum \in Nat /\ Requests(l.file, l.callNum)
  BY DEF Logger, Numbered, Requests
<1>2. e \in Entry /\ e.is # "request"
  BY LineType DEF Line
<1>3. LogInfo(l).file = Append(l.file, e) /\ LogInfo(l).callNum = l.callNum
  BY DEF LogInfo, Logger
<1> HIDE DEF e
<1>4. Requests(Append(l.file, e), l.callNum)
  BY <1>1, <1>2, AppendRequests
<1> QED BY <1>3, <1>4 DEF Numbered, Requests

LEMMA LogRequestNumbered ==
  ASSUME NEW l \in Logger, Numbered(l)
  PROVE  Numbered(LogRequest(l))
<1> DEFINE e == Line("request", l.callNum + 1)
<1>1. /\ l.file \in Seq(Entry) /\ l.callNum \in Nat /\ Requests(l.file, l.callNum)
      /\ l.callNum + 1 \in Nat /\ l.callNum <= l.callNum + 1
  BY DEF Logger, Numbered, Requests
<1>2. e \in Entry /\ e.nr <= l.callNum + 1
  BY <1>1, LineType DEF Line
<1>3. LogRequest(l).file = Append(l.file, e) /\ LogRequest(l).callNum = l.callNum + 1
  BY DEF LogRequest, Logger
<1> HIDE DEF e
<1>4. Requests(Append(l.file, e), l.callNum + 1)
  BY <1>1, <1>2, AppendRequests
<1> QED BY <1>3, <1>4 DEF Numbered, Requests

LEMMA NumberedStep == TypeOK /\ Numbered(log) /\ [Next]_vars => Numbered(log')
<1> SUFFICES ASSUME TypeOK, Numbered(log), [Next]_vars PROVE Numbered(log')
  OBVIOUS
<1>1. log \in Logger
  BY DEF TypeOK
<1>2. WriteEnd(log) \in Logger /\ Numbered(WriteEnd(log))
  BY <1>1, WriteEndType, WriteEndNumbered
<1>3. Numbered(LogResponse(log))
  <2> DEFINE a == WriteOutputChunk(log, "say", 0)
  <2>1. a \in Logger /\ Numbered(a)
    BY <1>1, WriteOutputChunkType, WriteOutputChunkNumbered DEF Kinds
  <2> HIDE DEF a
  <2>2. LogInfo(a) \in Logger /\ Numbered(LogInfo(a))
    BY <2>1, LogInfoType, LogInfoNumbered
  <2> QED BY <2>2, WriteEndNumbered DEF LogResponse, a
<1> QED BY <1>1, <1>2, <1>3, LogSteps, LogRequestNumbered, WriteOutputChunkNumbered, LogInfoNumbered

(* The stages of calls, their threads and their numbers.                   *)
Stages ==
  \A c \in Calls :
    /\ pc[c] \in {"stream", "judge", "ok"} \/ thread[c] => number[c] >= 1
    /\ thread[c] => pc[c] \in {"stream", "failed"}
    /\ \A d \in Calls \ {c} : number[c] # number[d] \/ number[c] = 0

LEMMA StagesStep == TypeOK /\ Stages /\ [Next]_vars => Stages'
<1> SUFFICES ASSUME TypeOK, Stages, [Next]_vars PROVE Stages'
  OBVIOUS
<1>1. ASSUME NEW c \in Calls, Ask(c) PROVE Stages'
  <2>1. /\ log.callNum \in Nat /\ \A d \in Calls : number[d] \in 0..log.callNum
        /\ number' = [number EXCEPT ![c] = log.callNum + 1]
        /\ pc' = [pc EXCEPT ![c] = "stream"] /\ thread' = [thread EXCEPT ![c] = TRUE]
    BY <1>1 DEF Ask, TypeOK, Logger
  <2>2. number'[c] = log.callNum + 1 /\ \A d \in Calls \ {c} : number'[d] = number[d]
    BY <2>1 DEF TypeOK
  <2>3. \A d \in Calls \ {c} : pc'[d] = pc[d] /\ thread'[d] = thread[d]
    BY <2>1 DEF TypeOK
  <2>4. pc'[c] = "stream"
    BY <2>1 DEF TypeOK
  <2> SUFFICES ASSUME NEW d \in Calls
               PROVE  /\ pc'[d] \in {"stream", "judge", "ok"} \/ thread'[d] => number'[d] >= 1
                      /\ thread'[d] => pc'[d] \in {"stream", "failed"}
                      /\ \A b \in Calls \ {d} : number'[d] # number'[b] \/ number'[d] = 0
    BY DEF Stages
  <2>5. CASE d = c
    BY <2>1, <2>2, <2>4, <2>5
  <2>6. CASE d # c
    BY <2>1, <2>2, <2>3, <2>6 DEF Stages
  <2> QED BY <2>5, <2>6
<1>2. ASSUME NEW c \in Calls, StreamEnds(c) \/ StreamFails(c) PROVE Stages'
  <2>1. /\ thread' = [thread EXCEPT ![c] = FALSE] /\ number' = number /\ thread[c]
        /\ \E stage \in {"judge", "failed"} :
             pc' = IF pc[c] = "stream" THEN [pc EXCEPT ![c] = stage] ELSE pc
    BY <1>2 DEF StreamEnds, StreamFails
  <2> QED BY <2>1 DEF Stages, TypeOK
<1>3. ASSUME NEW c \in Calls, RoundsExhausted(c) \/ ToolRound(c) \/ Reject(c) \/ Accept(c) \/ Cancel(c)
      PROVE  Stages'
  <2>1. /\ thread' = thread /\ number' = number /\ pc[c] \in {"judge", "stream"}
        /\ \E stage \in {"again", "failed", "ok"} :
             /\ pc' = [pc EXCEPT ![c] = stage]
             /\ pc[c] = "stream" => stage = "failed"
    BY <1>3 DEF RoundsExhausted, ToolRound, Reject, Accept, Cancel, stream
  <2> QED BY <2>1 DEF Stages, TypeOK
<1>4. ASSUME UNCHANGED <<pc, thread, number>> PROVE Stages'
  BY <1>4 DEF Stages
<1>5. CASE Next
  <2>1. PICK c \in Calls :
          \/ Ask(c)
          \/ \E kind \in Kinds : TakeText(c, kind)
          \/ \E fs \in Fragments(c) : TakeTools(c, fs)
          \/ StreamEnds(c) \/ StreamFails(c)
          \/ ToolRound(c) \/ RoundsExhausted(c) \/ Reject(c) \/ Accept(c) \/ Cancel(c)
    BY <1>5, Zenon DEF Next
  <2>2. ASSUME (\E kind \in Kinds : TakeText(c, kind)) \/ \E fs \in Fragments(c) : TakeTools(c, fs)
        PROVE  Stages'
    BY <1>4, <2>2 DEF TakeText, TakeTools
  <2> QED BY <1>1, <1>2, <1>3, <2>1, <2>2, Zenon
<1>6. CASE UNCHANGED vars
  BY <1>4, <1>6 DEF vars
<1> QED BY <1>5, <1>6

(* A record that only its call wrote in tells what became of the stream.   *)
Whole(f, n, r) ==
  \/ Tells(f, n, "think", r.think) /\ Tells(f, n, "say", r.say)
  \/ Tells(f, n, "think", <<>>) /\ Tells(f, n, "say", r.think \o r.say)

Open(l, n) == n = l.callNum => ~l.logEndWritten

Telling(l, n, stage, r) ==
  /\ stage = "stream" => Tells(l.file, n, "think", r.think) /\ Tells(l.file, n, "say", r.say)
  /\ stage \in {"judge", "ok"} => Whole(l.file, n, r)
  /\ stage \in {"stream", "judge"} => Tells(l.file, n, "end", <<>>) /\ Open(l, n)
  /\ stage = "ok" => Tells(l.file, n, "end", <<n>>)

TellInv == \A c \in Calls : number[c] \notin mixed => Telling(log, number[c], pc[c], reply[c])

LEMMA TellingKept ==
  ASSUME NEW l, NEW m, NEW n, NEW stage, NEW r, NEW q, Telling(l, n, stage, r),
         Kept(l.file, m.file, n), Open(l, n) => Open(m, n),
         q.think = r.think, q.say = r.say
  PROVE  Telling(m, n, stage, q)
<1>1. \A kind \in {"think", "say", "end"} : \A s :
        Tells(l.file, n, kind, s) => Tells(m.file, n, kind, s)
  BY DEF Kept, Told, Kinds
<1>2. Whole(l.file, n, r) => Whole(m.file, n, q)
  BY <1>1 DEF Whole
<1> QED BY <1>1, <1>2 DEF Telling

(* A write by c: if its record stays its own, that is the latest one, and  *)
(* the record of a call that stays its own is not.                         *)
LEMMA OwnRecord ==
  ASSUME Stages, NEW c \in Calls, NEW d \in Calls, number[c] >= 1, log.callNum # 0,
         mixed' = mixed \cup Mixes(c), number[d] \notin mixed'
  PROVE  /\ number[d] \notin mixed
         /\ d = c => number[d] = log.callNum
         /\ d # c => number[d] # log.callNum
<1>1. d = c => number[d] = log.callNum
  BY DEF Mixes
<1>2. ASSUME d # c PROVE number[d] # log.callNum
  <2>1. CASE number[c] = log.callNum
    BY <1>2, <2>1 DEF Stages
  <2>2. CASE number[c] # log.callNum
    BY <2>2 DEF Mixes
  <2> QED BY <2>1, <2>2
<1> QED BY <1>1, <1>2

(* What the end of a stream may move to the reasoning is told as it came.  *)
LEMMA NormalizedWhole ==
  ASSUME NEW r \in Reply, NEW n \in 0..Len(r.say), n = 0 \/ r.think = <<>>, NEW f, NEW N,
         Tells(f, N, "think", r.think), Tells(f, N, "say", r.say)
  PROVE  Whole(f, N, Normalized(r, n))
<1> DEFINE s == r.say
           a == SubSeq(s, 1, n)
           b == SubSeq(s, n + 1, Len(s))
           q == Normalized(r, n)
<1>1. s \in Seq(Nat) /\ r.think \in Seq(Nat) /\ n \in Nat /\ n <= Len(s)
  BY DEF Reply
<1>2. q.think = r.think \o a /\ q.say = b
  BY DEF Normalized, Reply
<1>3. a \in Seq(Nat) /\ b \in Seq(Nat) /\ Len(a) = n /\ Len(b) = Len(s) - n
  BY <1>1
<1>4. (\A i \in 1..n : a[i] = s[i]) /\ (\A i \in 1..(Len(s) - n) : b[i] = s[n + i])
  BY <1>1
<1> HIDE DEF s, a, b, q
<1>5. CASE n = 0
  <2>1. a = <<>> /\ b = s
    BY <1>1, <1>3, <1>4, <1>5
  <2>2. q.think = r.think
    BY <1>1, <1>2, <2>1
  <2> QED BY <1>2, <2>1, <2>2 DEF Whole, q, s
<1>6. CASE r.think = <<>>
  <2>1. q.think = a
    BY <1>2, <1>3, <1>6
  <2>2. a \o b = s
    <3> DEFINE l == Len(s)
    <3>1. /\ l \in Nat /\ 1 \in 1..(Len(s) + 1) /\ n \in (1 - 1)..Len(s)
          /\ l \in n..Len(s)
      BY <1>1
    <3> HIDE DEF l
    <3>2. SubSeq(s, 1, n) \o SubSeq(s, n + 1, l) = SubSeq(s, 1, l)
      BY <1>1, <3>1, ConcatAdjacentSubSeq
    <3>3. SubSeq(s, 1, Len(s)) = s
      BY <1>1, SubSeqFull
    <3> QED BY <3>2, <3>3 DEF a, b, l
  <2> QED BY <1>2, <1>6, <2>1, <2>2 DEF Whole, q, s
<1> QED BY <1>5, <1>6

LEMMA TellAsk ==
  ASSUME FooterInv, Numbered(log), TellInv, NEW c \in Calls, Ask(c), NEW d \in Calls,
         number'[d] \notin mixed'
  PROVE  Telling(log', number'[d], pc'[d], reply'[d])
<1>1. log \in Logger /\ log.callNum \in Nat /\ number[d] \in Nat
  BY DEF FooterInv, TypeOK, Logger
<1>2. log' = LogRequest(log) /\ log'.logEndWritten = FALSE /\ mixed' = mixed
  BY <1>1 DEF Ask, LogRequest, Logger
<1>3. /\ \A n \in Nat : Kept(log.file, log'.file, n)
      /\ \A kind \in Told : Tells(log'.file, log.callNum + 1, kind, <<>>)
  BY <1>1, <1>2, LogRequestTells
<1>4. CASE d = c
  <2>1. number'[d] = log.callNum + 1 /\ pc'[d] = "stream" /\ reply'[d] = NoReply
    BY <1>4 DEF Ask, FooterInv, TypeOK
  <2> QED BY <1>2, <1>3, <2>1 DEF Telling, NoReply, Told, Kinds, Open
<1>5. CASE d # c
  <2>1. number'[d] = number[d] /\ pc'[d] = pc[d] /\ reply'[d] = reply[d]
    BY <1>5 DEF Ask, FooterInv, TypeOK
  <2>2. Telling(log, number[d], pc[d], reply[d])
    BY <1>2, <2>1 DEF TellInv
  <2>3. Open(log', number[d])
    BY <1>2 DEF Open
  <2>4. Kept(log.file, log'.file, number[d])
    BY <1>1, <1>3
  <2>5. Telling(log', number[d], pc[d], reply[d])
    BY <2>2, <2>3, <2>4, TellingKept
  <2> QED BY <2>1, <2>5
<1> QED BY <1>4, <1>5

LEMMA TellText ==
  ASSUME FooterInv, Stages, TellInv, NEW c \in Calls, NEW kind \in Kinds, TakeText(c, kind),
         NEW d \in Calls, number'[d] \notin mixed'
  PROVE  Telling(log', number'[d], pc'[d], reply'[d])
<1> DEFINE N == log.callNum
           nr == deltas + 1
<1>1. /\ log \in Logger /\ N \in Nat /\ number[d] \in Nat /\ nr \in Nat /\ Sound(log)
      /\ number[c] \in 0..N /\ number[c] >= 1 /\ pc[c] \in {"stream", "failed"}
  BY MaxDeltasAssumption DEF FooterInv, TypeOK, Logger, Stages, TakeText
<1>2. /\ log' = WriteOutputChunk(log, kind, nr) /\ number' = number /\ pc' = pc
      /\ mixed' = mixed \cup Mixes(c) /\ N # 0
  BY <1>1 DEF TakeText
<1>3. /\ number[d] \notin mixed
      /\ d = c => number[d] = N
      /\ d # c => number[d] # N
  BY <1>1, <1>2, OwnRecord
<1>4. log'.callNum = N /\ log'.logEndWritten = log.logEndWritten
  BY <1>1, <1>2 DEF WriteOutputChunk, Logger
<1> HIDE DEF nr
<1>5. OneTold(log.file, log'.file, N, kind, nr)
  BY <1>1, <1>2, WriteOutputChunkTells
<1>6. Telling(log, number[d], pc[d], reply[d])
  BY <1>3 DEF TellInv
<1>7. Open(log, number[d]) => Open(log', number[d])
  BY <1>4 DEF Open
<1>8. CASE d # c
  <2>1. reply'[d] = reply[d]
    BY <1>8 DEF TakeText, FooterInv, TypeOK
  <2>2. Kept(log.file, log'.file, number[d])
    BY <1>1, <1>3, <1>5, <1>8 DEF OneTold
  <2>3. Telling(log', number[d], pc[d], reply[d])
    BY <1>6, <1>7, <2>2, TellingKept
  <2> QED BY <1>2, <2>1, <2>3
<1>9. CASE d = c
  <2> DEFINE r == reply[c]
             q == reply'[c]
  <2>1. r \in Reply /\ q = WithText(r, kind, nr)
    BY DEF TakeText, FooterInv, TypeOK, nr
  <2>2. CASE pc[c] = "stream"
    <3>1. /\ Tells(log.file, N, "think", r.think) /\ Tells(log.file, N, "say", r.say)
          /\ Tells(log.file, N, "end", <<>>) /\ Open(log', N)
      BY <1>3, <1>6, <1>7, <1>9, <2>2 DEF Telling
    <3>2. r.think \in Seq(Nat) /\ r.say \in Seq(Nat)
      BY <2>1 DEF Reply
    <3>3. Tells(log'.file, N, "end", <<>>)
      BY <1>5, <3>1 DEF OneTold, Told, Kinds
    <3>4. Tells(log'.file, N, "think", q.think) /\ Tells(log'.file, N, "say", q.say)
      <4>1. CASE kind = "think"
        <5>1. q.think = Append(r.think, nr) /\ q.say = r.say
          BY <2>1, <4>1 DEF WithText, Reply
        <5> HIDE DEF q, r
        <5> QED BY <1>5, <3>1, <3>2, <4>1, <5>1 DEF OneTold, Told, Kinds
      <4>2. CASE kind = "say"
        <5>1. q.say = Append(r.say, nr) /\ q.think = r.think
          BY <2>1, <4>2 DEF WithText, Reply
        <5> HIDE DEF q, r
        <5> QED BY <1>5, <3>1, <3>2, <4>2, <5>1 DEF OneTold, Told, Kinds
      <4> QED BY <4>1, <4>2 DEF Kinds
    <3> QED BY <1>2, <1>3, <1>9, <2>2, <3>1, <3>3, <3>4 DEF Telling
  <2>3. CASE pc[c] = "failed"
    BY <1>2, <1>9, <2>3 DEF Telling
  <2> QED BY <1>1, <2>2, <2>3
<1> QED BY <1>8, <1>9

LEMMA TellEnds ==
  ASSUME FooterInv, Stages, TellInv, NEW c \in Calls, StreamEnds(c), NEW d \in Calls,
         number'[d] \notin mixed'
  PROVE  Telling(log', number'[d], pc'[d], reply'[d])
<1>1. log' = log /\ number' = number /\ mixed' = mixed
  BY DEF StreamEnds
<1>2. Telling(log, number[d], pc[d], reply[d])
  BY <1>1 DEF TellInv
<1>3. PICK n \in 0..Len(reply[c].say) :
             /\ n = 0 \/ reply[c].think = <<>>
             /\ reply' = [reply EXCEPT ![c] = Normalized(reply[c], n)]
  BY DEF StreamEnds
<1>4. pc' = IF pc[c] = "stream" THEN [pc EXCEPT ![c] = "judge"] ELSE pc
  BY DEF StreamEnds
<1>5. CASE d # c
  <2>1. pc'[d] = pc[d] /\ reply'[d] = reply[d]
    BY <1>3, <1>4, <1>5 DEF FooterInv, TypeOK
  <2> QED BY <1>1, <1>2, <2>1
<1>6. CASE d = c /\ pc[c] = "stream"
  <2>1. pc'[d] = "judge" /\ reply'[d] = Normalized(reply[c], n) /\ reply[c] \in Reply
    BY <1>3, <1>4, <1>6 DEF FooterInv, TypeOK
  <2>2. /\ Tells(log.file, number[d], "think", reply[c].think)
        /\ Tells(log.file, number[d], "say", reply[c].say)
        /\ Tells(log.file, number[d], "end", <<>>) /\ Open(log, number[d])
    BY <1>2, <1>6 DEF Telling
  <2>3. Whole(log.file, number[d], Normalized(reply[c], n))
    BY <1>3, <2>1, <2>2, NormalizedWhole
  <2> QED BY <1>1, <2>1, <2>2, <2>3 DEF Telling
<1>7. CASE d = c /\ pc[c] # "stream"
  <2>1. pc'[d] = "failed"
    BY <1>4, <1>7 DEF Stages, StreamEnds
  <2> QED BY <2>1 DEF Telling
<1> QED BY <1>5, <1>6, <1>7

LEMMA TellJudged ==
  ASSUME FooterInv, Stages, TellInv, NEW c \in Calls, ToolRound(c) \/ Reject(c) \/ Accept(c),
         NEW d \in Calls, number'[d] \notin mixed'
  PROVE  Telling(log', number'[d], pc'[d], reply'[d])
<1> DEFINE N == log.callNum
           n == number[d]
<1>1. /\ log \in Logger /\ N \in Nat /\ n \in Nat /\ Sound(log)
      /\ number[c] \in 0..N /\ number[c] >= 1 /\ N # 0
  BY DEF FooterInv, TypeOK, Logger, Stages, ToolRound, Reject, Accept
<1>2. number' = number /\ reply' = reply /\ mixed' = mixed \cup Mixes(c)
  BY DEF ToolRound, Reject, Accept, stream
<1>3. /\ n \notin mixed
      /\ d = c => n = N
      /\ d # c => n # N
  BY <1>1, <1>2, OwnRecord
<1>4. Telling(log, n, pc[d], reply[d])
  BY <1>3 DEF TellInv
<1> DEFINE ended == WriteEnd(log)
<1>5. ended \in Logger /\ ended.callNum = N /\ Sound(ended)
  BY <1>1, WriteEndType, WriteEndSound
<1>6. IF log.logEndWritten THEN ended = log
      ELSE OneTold(log.file, ended.file, N, "end", N)
  BY <1>1, WriteEndTells
<1>7. Accept(c) => log' = ended \/ log' = LogInfo(ended)
  BY DEF Accept
<1> HIDE DEF ended
<1>8. Accept(c) => Kept(ended.file, log'.file, n)
  <2>1. Kept(ended.file, LogInfo(ended).file, n)
    BY <1>1, <1>5, LogInfoTells
  <2>2. Kept(ended.file, ended.file, n)
    BY DEF Kept
  <2> QED BY <1>7, <2>1, <2>2
<1>9. CASE d # c
  <2>1. pc'[d] = pc[d]
    BY <1>9 DEF ToolRound, Reject, Accept, FooterInv, TypeOK
  <2>2. log'.callNum = N
    BY <1>1, <1>5, <1>7, LogInfoType, LogResponseType DEF ToolRound, Reject
  <2>3. Kept(log.file, log'.file, n)
    <3>1. CASE ToolRound(c)
      BY <1>1, <3>1, LogInfoTells DEF ToolRound
    <3>2. CASE Reject(c)
      BY <1>1, <1>3, <1>9, <3>2, LogResponseTells DEF Reject
    <3>3. CASE Accept(c)
      <4>1. Kept(log.file, ended.file, n)
        BY <1>1, <1>3, <1>6, <1>9 DEF OneTold, Kept
      <4> QED BY <1>8, <3>3, <4>1 DEF Kept
    <3> QED BY <3>1, <3>2, <3>3
  <2>4. Open(log', n)
    BY <1>3, <1>9, <2>2 DEF Open
  <2>5. Telling(log', n, pc[d], reply[d])
    BY <1>4, <2>3, <2>4, TellingKept
  <2> QED BY <1>2, <2>1, <2>5
<1>10. CASE d = c /\ Accept(c)
  <2>1. pc[c] = "judge" /\ pc'[c] = "ok"
    BY <1>10 DEF Accept, FooterInv, TypeOK
  <2>2. n = N /\ Whole(log.file, N, reply[c]) /\ Tells(log.file, N, "end", <<>>) /\ ~log.logEndWritten
    BY <1>3, <1>4, <1>10, <2>1 DEF Telling, Open
  <2>3. OneTold(log.file, ended.file, N, "end", N)
    BY <1>6, <2>2
  <2>4. \A kind \in {"think", "say"} : \A s :
          Tells(log.file, N, kind, s) => Tells(log'.file, N, kind, s)
    BY <1>8, <1>10, <2>2, <2>3 DEF OneTold, Kept, Told, Kinds
  <2>5. Whole(log'.file, N, reply[c])
    BY <2>2, <2>4 DEF Whole
  <2>6. Tells(log'.file, N, "end", <<N>>)
    <3>1. <<>> \in Seq(Nat)
      OBVIOUS
    <3>2. Append(<<>>, N) = <<N>>
      OBVIOUS
    <3> HIDE DEF N
    <3>3. Tells(ended.file, N, "end", Append(<<>>, N))
      BY <2>2, <2>3, <3>1, Zenon DEF OneTold
    <3>4. Tells(ended.file, n, "end", <<N>>)
      BY <2>2, <3>2, <3>3
    <3> QED BY <1>8, <1>10, <2>2, <3>4 DEF Kept, Told
  <2> QED BY <1>2, <1>10, <2>1, <2>2, <2>5, <2>6 DEF Telling
<1>11. CASE d = c /\ ~Accept(c)
  <2>1. pc'[d] \in {"again", "failed"}
    BY <1>11 DEF ToolRound, Reject, FooterInv, TypeOK
  <2> QED BY <2>1 DEF Telling
<1> QED BY <1>9, <1>10, <1>11

LEMMA TellStep ==
  ASSUME FooterInv, Numbered(log), Stages, TellInv, [Next]_vars
  PROVE  TellInv'
<1> SUFFICES ASSUME NEW d \in Calls, number'[d] \notin mixed'
             PROVE  Telling(log', number'[d], pc'[d], reply'[d])
  BY DEF TellInv
<1>1. ASSUME log' = log, number' = number, mixed' = mixed, reply'[d].think = reply[d].think,
             reply'[d].say = reply[d].say, pc'[d] \in {pc[d], "failed"}
      PROVE  Telling(log', number'[d], pc'[d], reply'[d])
  <2>1. Telling(log, number[d], pc[d], reply[d])
    BY <1>1 DEF TellInv
  <2> QED BY <1>1, <2>1 DEF Telling, Whole
<1>2. ASSUME NEW c \in Calls, NEW fs \in Fragments(c), TakeTools(c, fs)
      PROVE  Telling(log', number'[d], pc'[d], reply'[d])
  <2>1. reply' = [reply EXCEPT ![c].tools = AccumulateLine(reply[c].tools, fs)]
    BY <1>2 DEF TakeTools
  <2>2. reply'[d].think = reply[d].think /\ reply'[d].say = reply[d].say
    BY <2>1 DEF FooterInv, TypeOK, Reply
  <2> QED BY <1>1, <1>2, <2>2 DEF TakeTools
<1>3. ASSUME NEW c \in Calls, StreamFails(c) \/ RoundsExhausted(c) \/ Cancel(c)
      PROVE  Telling(log', number'[d], pc'[d], reply'[d])
  <2>1. pc'[d] \in {pc[d], "failed"}
    BY <1>3 DEF StreamFails, RoundsExhausted, Cancel, FooterInv, TypeOK
  <2> QED BY <1>1, <1>3, <2>1 DEF StreamFails, RoundsExhausted, Cancel, stream
<1>4. CASE Next
  <2>1. PICK c \in Calls :
          \/ Ask(c)
          \/ \E kind \in Kinds : TakeText(c, kind)
          \/ \E fs \in Fragments(c) : TakeTools(c, fs)
          \/ StreamEnds(c) \/ StreamFails(c)
          \/ ToolRound(c) \/ RoundsExhausted(c) \/ Reject(c) \/ Accept(c) \/ Cancel(c)
    BY <1>4, Zenon DEF Next
  <2>2. CASE Ask(c)
    BY <2>2, TellAsk
  <2>3. CASE \E kind \in Kinds : TakeText(c, kind)
    BY <2>3, TellText
  <2>4. CASE StreamEnds(c)
    BY <2>4, TellEnds
  <2>5. CASE ToolRound(c) \/ Reject(c) \/ Accept(c)
    BY <2>5, TellJudged
  <2> QED BY <1>2, <1>3, <2>1, <2>2, <2>3, <2>4, <2>5, Zenon
<1>5. CASE UNCHANGED vars
  BY <1>1, <1>5 DEF vars
<1> QED BY <1>4, <1>5

(* A record nobody else wrote in tells the reply as the caller gets it,    *)
(* and is closed when the call returns, whatever the calls before it left  *)
(* of the logger's flags.                                                  *)
THEOREM LogTellsTheReply == Spec => []LogTellsReply
<1> DEFINE Inv == FooterInv /\ Numbered(log) /\ Stages /\ TellInv
<1>1. Init => Inv
  <2> SUFFICES ASSUME Init PROVE Inv
    OBVIOUS
  <2>1. Numbered(log) /\ Stages
    BY DEF Init, Numbered, Stages
  <2>2. TellInv
    BY DEF Init, TellInv, Telling
  <2> QED BY <2>1, <2>2, FooterInit
<1>2. Inv /\ [Next]_vars => Inv'
  <2> SUFFICES ASSUME Inv, [Next]_vars PROVE Inv'
    OBVIOUS
  <2>1. TypeOK
    BY DEF FooterInv
  <2>2. FooterInv'
    BY FooterStep
  <2>3. Numbered(log')
    BY <2>1, NumberedStep
  <2>4. Stages'
    BY <2>1, StagesStep
  <2>5. TellInv'
    BY TellStep
  <2>6. Numbered(log)'
    BY <2>3 DEF Numbered
  <2> QED BY <2>2, <2>4, <2>5, <2>6
<1>3. Inv => LogTellsReply
  BY DEF TellInv, Telling, Whole, LogTellsReply, file
<1> QED BY <1>1, <1>2, <1>3, PTL DEF Spec

=============================================================================
