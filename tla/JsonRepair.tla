----------------------------- MODULE JsonRepair -----------------------------
(***************************************************************************)
(* How structured replies are read (json_fix.py:38-213): comments, thought *)
(* blocks, code fences, prose and trailing commas are taken off until what *)
(* is left parses.                                                         *)
(*                                                                         *)
(* A text is a sequence of characters, with "x" for any without a meaning, *)
(* and with <think>, </think>, a code fence (json or not) and the words    *)
(* true and True as one each.  "x" is also any scalar or "key": scalar.     *)
(***************************************************************************)
EXTENDS Integers, Sequences, SequencesExt, FiniteSetsExt

Quote == "\""
Apostrophe == "'"
Backslash == "\\"
Newline == "\n"

Openers == {"{", "["}
Closers == {"}", "]"}
Blanks == {" ", Newline}
Closing(c) == IF c = "{" THEN "}" ELSE "]"

-----------------------------------------------------------------------------
(* What json.loads and ast.literal_eval accept, as a pushdown automaton:   *)
(* the closers still owed, and where in the document it is.  A string of   *)
(* Python's may stand between apostrophes ("single").                      *)

Start == [owed |-> <<>>, at |-> "start"]
InQuotes == {"string", "escape", "single", "singleEscape"}

After(st, c, atoms) ==
  LET to(where) == [st EXCEPT !.at = where]
  IN  CASE st.at = "string" /\ c = Quote -> to("value")
        [] st.at = "string" /\ c = Backslash -> to("escape")
        [] st.at = "string" /\ c \notin {Quote, Backslash, Newline} -> st
        [] st.at = "escape" /\ c \in {Quote, Backslash, "/", "x"} -> to("string")
        [] st.at = "single" /\ c = Apostrophe -> to("value")
        [] st.at = "single" /\ c = Backslash -> to("singleEscape")
        [] st.at = "single" /\ c \notin {Apostrophe, Backslash, Newline} -> st
        [] st.at = "singleEscape" /\ c \in {Quote, Apostrophe, Backslash, "x"} -> to("single")
        [] st.at \notin InQuotes \cup {"bad"} /\ c \in Blanks -> st
        [] st.at \in {"start", "open", "comma"} /\ c \in Openers ->
             [owed |-> <<Closing(c)>> \o st.owed, at |-> "open"]
        [] st.at \in {"open", "comma"} /\ c \in atoms ->
             to(IF c = Apostrophe THEN "single" ELSE "value")
        [] st.at \in {"open", "comma"} /\ c = Quote -> to("string")
        [] st.at = "value" /\ c = "," -> to("comma")
        [] st.at \in {"open", "value"} /\ c \in Closers /\ c = Head(st.owed) ->
             [owed |-> Tail(st.owed), at |-> IF Len(st.owed) = 1 THEN "end" ELSE "value"]
        [] OTHER -> to("bad")

JsonAtoms == {"x", "true"}
PythonAtoms == {"x", "True", Apostrophe}

(* Where it is after each character.                                       *)
Read(s, atoms) ==
  LET read[i \in 0..Len(s)] ==
        IF i = 0 THEN Start ELSE After(read[i - 1], s[i], atoms)
  IN  read

Accepted(s, atoms) == Read(s, atoms)[Len(s)].at = "end"

-----------------------------------------------------------------------------
(* The cleanup steps.                                                      *)

(* s.strip()                                                               *)
Trim(s) ==
  LET solid == {i \in DOMAIN s : s[i] \notin Blanks}
  IN  IF solid = {} THEN <<>>
      ELSE SubSeq(s, Min(solid), Max(solid))

(* _THINK_RE, one character on: each block up to the nearest end mark; one *)
(* that is not ended stays.                                                *)
Unthink(st, c) ==
  IF st.held # <<>> /\ c = "</think>" THEN [st EXCEPT !.held = <<>>]
  ELSE IF st.held # <<>> \/ c = "<think>" THEN [st EXCEPT !.held = Append(@, c)]
  ELSE [st EXCEPT !.out = Append(@, c)]

WithoutThoughts(s) ==
  LET state[i \in 0..Len(s)] ==
        IF i = 0 THEN [out |-> <<>>, held |-> <<>>] ELSE Unthink(state[i - 1], s[i])
  IN  state[Len(s)].out \o state[Len(s)].held

(* _CODE_FENCE_RE: what the first two fences enclose.                      *)
Unfenced(s) ==
  LET fences == {i \in DOMAIN s : s[i] = "fence"}
      later == fences \ {Min(fences)}
  IN  IF fences = {} \/ later = {} THEN s
      ELSE SubSeq(s, Min(fences) + 1, Min(later) - 1)

(* Mutant of AtQuote: strings are not recognised.                          *)
AtQuoteBlindly(c) == "code"

(* Outside strings a quote begins one.                                     *)
AtQuote(c) == IF c = Quote THEN "string" ELSE "code"

(* _strip_json_comments, one character on: outside strings; a block that   *)
(* is not ended takes the rest with it.                                    *)
Uncomment(st, c) ==
  LET code(out) == [out |-> Append(out, c), at |-> AtQuote(c)]
  IN  CASE st.at = "string" ->
             [out |-> Append(st.out, c),
              at |-> CASE c = Quote -> "code"
                       [] c = Backslash -> "escape"
                       [] OTHER -> "string"]
        [] st.at = "escape" -> [out |-> Append(st.out, c), at |-> "string"]
        [] st.at = "code" /\ c = "/" -> [st EXCEPT !.at = "slash"]
        [] st.at = "slash" /\ c = "/" -> [st EXCEPT !.at = "line"]
        [] st.at = "slash" /\ c = "*" -> [st EXCEPT !.at = "block"]
        [] st.at = "slash" /\ c \notin {"/", "*"} -> code(Append(st.out, "/"))
        [] st.at = "line" /\ c # Newline -> st
        [] st.at \in {"block", "star"} ->
             [st EXCEPT !.at = IF c = "*" THEN "star"
                               ELSE IF st.at = "star" /\ c = "/" THEN "code"
                               ELSE "block"]
        [] OTHER -> code(st.out)

Scanned(s) ==
  LET state[i \in 0..Len(s)] ==
        IF i = 0 THEN [out |-> <<>>, at |-> "code"] ELSE Uncomment(state[i - 1], s[i])
  IN  state[Len(s)]

WithoutComments(s) ==
  LET end == Scanned(s)
  IN  IF end.at = "slash" THEN Append(end.out, "/") ELSE end.out

(* _extract_balanced_json, one character on: how many brackets of the kind *)
(* of the first are open; the other kind does not count.                   *)
Nest(st, c, open) ==
  CASE st.at = "string" ->
         [st EXCEPT !.at = CASE c = Quote -> "code"
                             [] c = Backslash -> "escape"
                             [] OTHER -> "string"]
    [] st.at = "escape" -> [st EXCEPT !.at = "string"]
    [] st.at = "code" /\ c = Quote -> [st EXCEPT !.at = "string"]
    [] st.at = "code" /\ c = open -> [st EXCEPT !.depth = @ + 1]
    [] st.at = "code" /\ c = Closing(open) -> [st EXCEPT !.depth = @ - 1]
    [] OTHER -> st

(* From the first opener to where none of its kind is open.                *)
Balanced(s) ==
  LET starts == {i \in DOMAIN s : s[i] \in Openers}
      first == Min(starts)
      state[i \in 0..Len(s)] ==
        IF i < first THEN [at |-> "code", depth |-> 0]
        ELSE Nest(state[i - 1], s[i], s[first])
      ends == {i \in first..Len(s) : state[i].depth = 0}
  IN  IF starts = {} THEN Trim(s)
      ELSE IF ends = {} THEN Trim(SubSeq(s, first, Len(s)))
      ELSE SubSeq(s, first, Min(ends))

(* A comma that only blanks part from a closer.                            *)
Trailing(s, i) ==
  /\ s[i] = ","
  /\ \E j \in i + 1..Len(s) :
       s[j] \in Closers /\ \A k \in i + 1..j - 1 : s[k] \in Blanks

(* Trailing commas are dropped, in strings too.                            *)
WithoutTrailingCommas(s) ==
  LET kept[i \in 0..Len(s)] ==
        IF i = 0 THEN <<>>
        ELSE IF Trailing(s, i) THEN kept[i - 1] ELSE Append(kept[i - 1], s[i])
  IN  kept[Len(s)]

(* _normalize_json_like                                                    *)
Normalized(s) ==
  Trim(WithoutTrailingCommas(Balanced(Trim(WithoutComments(Unfenced(WithoutThoughts(s)))))))

(* re.sub true -> True, in strings too.                                    *)
Pythonish(s) == [i \in DOMAIN s |-> IF s[i] = "true" THEN "True" ELSE s[i]]

NoValue == <<"error">>

(* _loads_best_effort: the document that is parsed in the end.             *)
Loads(s) ==
  LET cleaned == Normalized(s)
  IN  IF Accepted(Trim(s), JsonAtoms) THEN Trim(s)
      ELSE IF Accepted(cleaned, JsonAtoms) THEN cleaned
      ELSE IF Accepted(Pythonish(cleaned), PythonAtoms) THEN Pythonish(cleaned)
      ELSE NoValue

=============================================================================
