---------------------------- MODULE MCReplyText ----------------------------
(* ReplyText with the thresholds of the detectors scaled down, and answers *)
(* of two described members or fewer.                                      *)
EXTENDS ReplyText, TLC

MCThoughts == {<<>>, <<Quote>>, <<"}">>, <<"/">>}
MCAround == {"x", Newline, Quote, "/", "*", "[", "}", "fence"}

MCBeginnings == {<<>>, <<"b">>, <<"b", " ">>}
UnitCharacters == {"a", " ", "\n", "#", ",", Quote}
(* Digits that follow each other are one number.                           *)
MCUnits ==
  {u \in UNION {[1..n -> UnitCharacters] : n \in 1..3} :
     ~\E i \in DOMAIN u : u[i] = "#" /\ u[1 + (i % Len(u))] = "#"}

Type(t) == [is |-> "type", of |-> t]
Example(t, v) == [is |-> "example", of |-> t, value |-> v]
ListOf(items) == [is |-> "list", items |-> items]
Value(t, v) == [is |-> t, value |-> v]

Descriptions ==
  { Type("str"), Type("int"), Type("float"), Example("int", "7"), [is |-> "none"],
    Dictionary("n" :> Type("int")),
    ListOf(<<>>), ListOf(<<Type("int")>>), ListOf(<<Dictionary("n" :> Type("int"))>>),
    ListOf(<<Example("str", "x"), Example("str", "y")>>),
    ListOf(<<Type("int"), Example("str", "x")>>) }

(* README.md:418-425.                                                      *)
JsonSchema ==
  Dictionary(
    "type" :> Example("str", "object") @@
    "properties" :> Dictionary("name" :> Dictionary("type" :> Example("str", "string")) @@
                               "score" :> Dictionary("type" :> Example("str", "integer"))) @@
    "required" :> ListOf(<<Example("str", "name"), Example("str", "score")>>))

MCSchemas ==
  {Dictionary(f) : f \in UNION {[K -> Descriptions] : K \in SUBSET {"a", "b"}}}
OnlyJsonSchema == {JsonSchema}

MCKeys == {"a", "b", "c"}
JsonSchemaKeys == {"name", "score", "c"}
MCValues ==
  { Value("str", "x"), Value("str", "z"), Value("int", "42"), Value("float", "0.5"),
    Value("bool", "true"), Value("null", ""), Dictionary(Empty),
    Dictionary("n" :> Value("int", "42")), ListOf(<<Value("int", "42")>>),
    ListOf(<<Value("str", "x"), Value("str", "z")>>),
    ListOf(<<Dictionary("n" :> Value("str", "x"))>>) }

=============================================================================
