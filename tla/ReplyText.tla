----------------------------- MODULE ReplyText -----------------------------
(***************************************************************************)
(* A reply while the model writes it, judged as _call judges it            *)
(* (pool.py:1584-1622) by LoopGuard, JsonRepair and Schema.                *)
(*                                                                         *)
(* A structured reply is one of JsonReply, a looping reply one of          *)
(* LoopText; an answer is a document once it has been read, written member *)
(* by member under the description the caller gave.                        *)
(***************************************************************************)
EXTENDS JsonReply, LoopText, Schema

CONSTANTS
  Schemas,             \* descriptions of an answer
  Keys, Values,        \* members of answers
  MaxMembers           \* bound: members of an answer

VARIABLES
  kind,       \* "structured", "answer" or "looping"
  schema,     \* answer: its description
  answer      \* answer: the value so far

vars == <<kind, written, loopVars, schema, answer>>
asked == <<schema, answer>>

Dictionary(f) == [is |-> "dict", members |-> f]
Empty == [k \in {} |-> k]

Init ==
  /\ Unwritten
  /\ kind \in {"structured", "answer", "looping"}
  /\ IF kind = "looping" THEN Begins
     ELSE loop = [beginning |-> <<>>, unit |-> <<>>] /\ repeated = <<>>
  /\ schema \in IF kind = "answer" THEN Schemas ELSE {Dictionary(Empty)}
  /\ answer \in {Dictionary(Empty)} \cup
               IF kind = "answer" THEN {[is |-> "list", items |-> <<>>]} ELSE {}

(* A structured reply is written on.                                       *)
Structured ==
  /\ kind = "structured"
  /\ WriteOn
  /\ UNCHANGED <<kind, loopVars, asked>>

GoOn ==
  /\ kind = "looping"
  /\ Repeat
  /\ UNCHANGED <<kind, written, asked>>

(* A member of the answer; the request for one that has no model is not    *)
(* sent.                                                                   *)
Member(k, v) ==
  /\ kind = "answer"
  /\ Supported(schema)
  /\ answer.is = "dict"
  /\ Cardinality(DOMAIN answer.members) < MaxMembers
  /\ k \notin DOMAIN answer.members
  /\ answer' = Dictionary([j \in DOMAIN answer.members \cup {k} |->
                             IF j = k THEN v ELSE answer.members[j]])
  /\ UNCHANGED <<kind, written, loopVars, schema>>

Next ==
  \/ Structured
  \/ GoOn
  \/ \E k \in Keys, v \in Values : Member(k, v)

Spec == Init /\ [][Next]_vars

-----------------------------------------------------------------------------
(* Properties.                                                             *)

(* What is returned for a description (json_fix.py:273-289): nothing of    *)
(* the wrong type, at any depth.  If its fields have no type in common,    *)
(* every answer that fits it and no other; under a common type (280-288)   *)
(* members may be missing and others be there.                             *)
AnswerJudged ==
  kind = "answer" /\ Supported(schema) =>
    LET model == Annotation(schema)
    IN  IF Uniform(model) = {}
        THEN Returned(answer, model) <=> Fits(answer, schema)
        ELSE Returned(answer, model) =>
               /\ answer.is = "dict"
               /\ \A k \in DOMAIN answer.members \cap DOMAIN schema.members :
                    Fits(answer.members[k], schema.members[k])

(* README.md:457, "validates the model's output against the schema": an    *)
(* answer that is returned has what the description requires.              *)
AnswerFitsDescription ==
  kind = "answer" /\ Supported(schema) /\ Returned(answer, Annotation(schema)) =>
    Fits(answer, schema)

(* README.md:415-433 and pool.py:132-133, "JSON Schema describing the      *)
(* required response structure": an answer that conforms to a JSON Schema  *)
(* the caller passed is returned.                                          *)
JsonSchemaHonoured ==
  kind = "answer" /\ IsJsonSchema(schema) /\ Conforms(answer, schema) =>
    Returned(answer, Annotation(schema))

=============================================================================
