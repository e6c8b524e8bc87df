----------------------------- MODULE LoopGuard -----------------------------
(***************************************************************************)
(* The loop detectors (loop_guard.py:43-161).  A text is a sequence of     *)
(* characters; a run of digits is one of them.                             *)
(***************************************************************************)
EXTENDS Naturals, Sequences, SequencesExt, FiniteSetsExt

CONSTANTS
  Window, Lookback, MinHits, MinSum,   \* of the sequence detector
  MinTokens, MinSegment,               \* 1000 tokens, segments over 5 characters
  MinRun,                              \* lines alike but for their numbers
  MinNumbers, NumericLength,           \* 50 numbers in the last 2000 characters
  BlockLength                          \* 1500 characters

ASSUME ThresholdsAssumption ==
  /\ {Window, MinSum, MinTokens, MinSegment, MinNumbers, NumericLength,
      BlockLength} \subseteq Nat \ {0}
  /\ Lookback \in Nat /\ Lookback >= 2 * Window
  /\ MinHits \in Nat /\ MinHits >= 2
  /\ MinRun \in Nat /\ MinRun >= 2

Digits == {"1", "2", "3"}
White == {" ", "\n"}

-----------------------------------------------------------------------------
(* Python's string methods.                                                *)

From(s, n) == SubSeq(s, IF Len(s) > n THEN Len(s) - n + 1 ELSE 1, Len(s))

Occurs(t, s, i) == i + Len(t) - 1 <= Len(s) /\ SubSeq(s, i, i + Len(t) - 1) = t

(* Where s.count(t) and s.split(t) find t: leftmost first, not             *)
(* overlapping.                                                            *)
Found(t, s) ==
  LET found[i \in 0..Len(s)] ==
        IF i = 0 THEN <<>>
        ELSE LET at == found[i - 1]
             IN  IF Occurs(t, s, i) /\ (at = <<>> \/ at[Len(at)] + Len(t) <= i)
                 THEN Append(at, i) ELSE at
  IN  found[Len(s)]

Split(s, t) ==
  LET at == Found(t, s)
  IN  [k \in 1..Len(at) + 1 |->
         SubSeq(s, IF k = 1 THEN 1 ELSE at[k - 1] + Len(t),
                   IF k = Len(at) + 1 THEN Len(s) ELSE at[k] - 1)]

Stripped(s) ==
  LET solid == {i \in DOMAIN s : s[i] \notin White}
  IN  IF solid = {} THEN <<>> ELSE SubSeq(s, Min(solid), Max(solid))

(* s.split()                                                               *)
Tokens(s) ==
  SelectSeq(FoldLeft(LAMBDA out, c : IF c \in White THEN Append(out, <<>>)
                                     ELSE [out EXCEPT ![Len(out)] = Append(@, c)],
                     << <<>> >>, s),
            LAMBDA t : t # <<>>)

(* s.splitlines(): no line after a last newline.                           *)
Lines(s) ==
  LET lines == Split(s, <<"\n">>)
  IN  IF lines[Len(lines)] = <<>> THEN SubSeq(lines, 1, Len(lines) - 1) ELSE lines

(* _NUMBER_RE.sub("#", s) and _NUMBER_RE.sub("", s)                        *)
Template(s) ==
  FoldLeft(LAMBDA out, c : IF c \notin Digits THEN Append(out, c)
                           ELSE IF out # <<>> /\ out[Len(out)] = "#" THEN out
                           ELSE Append(out, "#"), <<>>, s)
Undigited(s) ==
  LET kept[i \in 0..Len(s)] ==
        IF i = 0 THEN <<>>
        ELSE IF s[i] \in Digits THEN kept[i - 1] ELSE Append(kept[i - 1], s[i])
  IN  kept[Len(s)]

-----------------------------------------------------------------------------
(* The detectors.                                                          *)

(* Mutant of SequenceLoop: the tail is the window.                         *)
SequenceLoopInWindow(s) ==
  /\ Len(s) >= 2 * Window
  /\ LET count == Len(Found(From(s, Window), From(s, 2 * Window)))
     IN  count >= MinHits /\ count * Window >= MinSum

SequenceLoop(s) ==
  /\ Len(s) >= 2 * Window
  /\ LET count == Len(Found(From(s, Window), From(s, Lookback)))
     IN  count >= MinHits /\ count * Window >= MinSum

(* The last but one token parts the text into equal segments.              *)
LastTokenSplit(s) ==
  LET tokens == Tokens(s)
  IN  /\ Len(tokens) >= MinTokens
      /\ LET parts == Split(s, tokens[Len(tokens) - 1])
             last == [k \in 1..3 |-> Stripped(parts[Len(parts) - 4 + k])]
         IN  /\ Len(parts) >= 4
             /\ last[1] = last[2] /\ last[2] = last[3]
             /\ Len(last[1]) > MinSegment

(* A run of lines with the same template; of parts between `",` if there   *)
(* are too few lines.                                                      *)
IncrementingSequence(s) ==
  LET parts == Split(s, <<"\"", ",">>)
      lines == IF Len(Lines(s)) >= MinRun THEN Lines(s)
               ELSE IF Len(parts) >= MinRun THEN parts ELSE <<>>
      checked == From(lines, 3 * MinRun)
      step(st, line) ==
        LET template == Template(Stripped(line))
        IN  IF template # <<>> /\ template = st.template
            THEN [st EXCEPT !.run = @ + 1, !.longest = Max({@, st.run + 1})]
            ELSE [st EXCEPT !.run = 1, !.template = template]
  IN  lines # <<>> /\
      FoldLeft(step, [run |-> 1, longest |-> 1,
                      template |-> Template(Stripped(Head(checked)))],
               Tail(checked)).longest >= MinRun

(* _NUMERIC_LIST_RE: numbers, each followed by blanks and at most one      *)
(* comma.                                                                  *)
NumericList(s) ==
  LET step(st, c) ==
        CASE c \in Digits ->
               [st EXCEPT !.at = "number", !.run = IF st.at = "none" THEN 0 ELSE @]
          [] c \in White \cup {","} /\ st.at = "number" ->
               [at |-> IF c = "," THEN "comma" ELSE "blank",
                run |-> st.run + 1, longest |-> Max({st.longest, st.run + 1})]
          [] c \in White /\ st.at \in {"blank", "comma"} -> st
          [] c = "," /\ st.at = "blank" -> [st EXCEPT !.at = "comma"]
          [] OTHER -> [st EXCEPT !.at = "none", !.run = 0]
  IN  /\ Len(s) >= NumericLength
      /\ FoldLeft(step, [at |-> "none", run |-> 0, longest |-> 0],
                  From(s, NumericLength)).longest >= MinNumbers

NumberedBlockCycle(s) == Len(s) >= BlockLength /\ SequenceLoop(Undigited(s))

(* check_loop                                                              *)
LoopReason(s) ==
  CASE LastTokenSplit(s) -> "last_token_split"
    [] ~LastTokenSplit(s) /\ SequenceLoop(s) -> "sequence_loop"
    [] OTHER -> CASE NumericList(s) -> "numeric_list"
                  [] ~NumericList(s) /\ IncrementingSequence(s) -> "incrementing_sequence"
                  [] OTHER -> IF NumberedBlockCycle(s) THEN "numbered_block_cycle"
                              ELSE "none"

=============================================================================
