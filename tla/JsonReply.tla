----------------------------- MODULE JsonReply -----------------------------
(***************************************************************************)
(* A structured reply while the model writes it: a document, with what     *)
(* models put around it (prose of any kind, code fences, thought blocks)   *)
(* and into it (comments, trailing commas, Python's literals).             *)
(***************************************************************************)
EXTENDS JsonRepair

CONSTANTS
  Around,         \* characters of the prose around a document
  Thoughts,       \* what <think> blocks and comments may hold
  MaxProse,       \* bound: characters of the prose around a document
  MaxStructured   \* bound: characters of a structured reply

ASSUME AroundAssumption == Around \subseteq STRING /\ "<think>" \notin Around

ASSUME ThoughtsAssumption ==
  /\ Thoughts \subseteq Seq(STRING)
  /\ \A s \in Thoughts : \A i \in DOMAIN s :
       /\ s[i] \notin {"<think>", "</think>", "fence", Newline}
       /\ s[i] = "*" => ~(i + 1 \in DOMAIN s /\ s[i + 1] = "/")

ASSUME BoundAssumption == MaxProse \in Nat /\ MaxStructured \in Nat

VARIABLES
  text,       \* the reply so far
  lead, tail, \* the prose before and after the document
  doc,        \* what of it is the document
  lex,        \* where in the document it is
  place,      \* "before" it, in it ("doc") or "after" it
  trailing    \* the last comma was one too many

written == <<text, lead, tail, doc, lex, place, trailing>>

Atoms == JsonAtoms \cup PythonAtoms

Unwritten ==
  /\ text = <<>> /\ lead = <<>> /\ tail = <<>> /\ doc = <<>> /\ lex = Start
  /\ place = "before" /\ trailing = FALSE

(* What a document needs to its end at least.                              *)
Rest(st) == Len(st.owed) + IF st.at \in InQuotes THEN 1 ELSE 0

(* Appended to the reply, and where in the document that is.               *)
Write(s, next) ==
  /\ Len(text) + Len(s) + Rest(next) <= MaxStructured
  /\ text' = text \o s
  /\ lex' = next

Prose ==
  /\ Len(lead) + Len(tail) < MaxProse
  /\ \E c \in Around :
       /\ Write(<<c>>, lex)
       /\ \/ place = "before" /\ lead' = Append(lead, c) /\ UNCHANGED tail
          \/ place = "after" /\ tail' = Append(tail, c) /\ UNCHANGED lead
  /\ UNCHANGED <<doc, place, trailing>>

Thought ==
  /\ place # "doc"
  /\ \E s \in Thoughts : Write(<<"<think>">> \o s \o <<"</think>">>, lex)
  /\ UNCHANGED <<lead, tail, doc, place, trailing>>

(* Any character that JSON or Python has there, beginning with an opener;  *)
(* after a trailing comma, blanks and a closer.                            *)
Character ==
  /\ place # "after"
  /\ \E c \in Openers \cup Closers \cup Atoms
              \cup {Quote, Backslash, Newline, ",", "/", "*", "fence", "<think>", "</think>"} :
       LET next == After(lex, c, Atoms)
       IN  /\ next.at \notin {"start", "bad"}
           /\ trailing => c \in Closers \cup {Newline}
           /\ Write(<<c>>, next)
           /\ doc' = Append(doc, c)
           /\ place' = IF next.at = "end" THEN "after" ELSE "doc"
           /\ trailing' = (trailing /\ c = Newline)
  /\ UNCHANGED <<lead, tail>>

Between == place = "doc" /\ lex.at \in {"open", "value", "comma"}

Comment ==
  /\ Between
  /\ \E s \in Thoughts :
       \/ Write(<<"/", "/">> \o s \o <<Newline>>, lex) /\ doc' = Append(doc, Newline)
       \/ Write(<<"/", "*">> \o s \o <<"*", "/">>, lex) /\ UNCHANGED doc
  /\ UNCHANGED <<lead, tail, place, trailing>>

TrailingComma ==
  /\ Between /\ lex.at = "value" /\ ~trailing
  /\ Write(<<",">>, lex)
  /\ trailing' = TRUE
  /\ UNCHANGED <<lead, tail, doc, place>>

WriteOn == Prose \/ Thought \/ Character \/ Comment \/ TrailingComma

WriteSpec == Unwritten /\ [][WriteOn]_written

-----------------------------------------------------------------------------
(* Properties.                                                             *)

Positions(s, where) == {i \in DOMAIN s : Read(s, Atoms)[i - 1].at \in where}

InStrings(s) == Positions(s, InQuotes)

(* What the scanners look for outside strings.                             *)
Sought == {Quote, "/"} \cup Openers \cup Closers

(* What of a document the cleanup steps do not leave alone.  Four rewrites *)
(* do not stop at strings: thought blocks and code fences are looked for   *)
(* in them, a comma before a closer is dropped, and where Python's names   *)
(* or strings are used `true` is made `True`.  And the scanners do not     *)
(* know strings between apostrophes: what they look for, they find there.  *)
Fragile(d) ==
  \/ \E i \in InStrings(d) : d[i] \in {"fence", "<think>"} \/ Trailing(d, i)
  \/ /\ \E i \in DOMAIN d \ InStrings(d) : d[i] \in {"True", Apostrophe}
     /\ \E i \in InStrings(d) : d[i] = "true"
  \/ \E i \in Positions(d, {"single", "singleEscape"}) :
       d[i] \in Sought

Fences(s) == {i \in DOMAIN s : s[i] = "fence"}

(* The scanner of comments takes p for text outside strings and comments,  *)
(* and leaves no bracket of it that a document could begin with.           *)
Clean(p) ==
  LET end == Scanned(p)
  IN  end.at \in {"code", "slash"} /\ \A i \in DOMAIN end.out : end.out[i] \notin Openers

(* The prose lets the document be found: if it is between the first two    *)
(* code fences, what is between the first and it is clean, and the reply   *)
(* does not begin with a bracket; if there is one fence at most, all that  *)
(* is before the document is clean.                                        *)
Harmless ==
  LET before == Fences(lead)
      after == Fences(tail)
  IN  \/ Cardinality(before) + Cardinality(after) <= 1 /\ Clean(lead)
      \/ /\ Cardinality(before) = 1 /\ after # {}
         /\ Clean(SubSeq(lead, Max(before) + 1, Len(lead)))
         /\ Trim(lead)[1] \notin Openers

(* The value of a document: Python's name of a scalar is the scalar.       *)
Meaning(d) ==
  [i \in DOMAIN d |->
     IF d[i] = "True" /\ i \notin InStrings(d) THEN "true" ELSE d[i]]

(* json_fix.py:9-16: a document inside prose, thought blocks and a code    *)
(* fence, with comments, trailing commas and Python's literals is read as  *)
(* the document alone, if the prose is harmless and the document not       *)
(* fragile.                                                                *)
DocumentRecovered ==
  place = "after" /\ ~Fragile(doc) /\ Harmless => Meaning(Loads(text)) = Meaning(doc)

(* The same of any prose.  It is not so: `see http://x: {"a": 1}` loses    *)
(* its document to the scanner of comments, `[1] {"a": 1}` to the one that *)
(* looks for a bracket.                                                    *)
DocumentFound ==
  place = "after" /\ ~Fragile(doc) => Meaning(Loads(text)) = Meaning(doc)

(* The same of any document.  It is not so either: `['//']` loses its end  *)
(* to the scanner of comments, `[']']` to the one that counts brackets, as *)
(* json_fix.py:17, "Python-formatted output", and its test                 *)
(* (test_local_llm_server.py:93-98) would not have it.                     *)
DocumentKept ==
  place = "after" /\ Harmless => Meaning(Loads(text)) = Meaning(doc)

(* json_fix.py:46-47, "to avoid stripping comment-like sequences inside    *)
(* string values": no part of a document is taken for a comment.           *)
CommentsSpareDocument == place = "after" => WithoutComments(doc) = doc

=============================================================================
