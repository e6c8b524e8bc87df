------------------------------- MODULE Schema -------------------------------
(***************************************************************************)
(* Structured answers: the description of an answer that a caller passes   *)
(* as schema_dict, the Pydantic model made of it (pydantic_helper.py:31-   *)
(* 113), and the judgement of a parsed reply (json_fix.py:197-289).        *)
(*                                                                         *)
(* A description is a record whose `is` tells its form:                    *)
(*   "type"    a Python type, named by `of`                                *)
(*   "example" a value of the type `of`                                    *)
(*   "none"    None                                                        *)
(*   "dict"    a dictionary, `members`                                     *)
(*   "list"    a list, `items`                                             *)
(* and so is a JSON value: "str", "int", "float", "bool" or "null", a      *)
(* "dict" or a "list".                                                     *)
(***************************************************************************)
EXTENDS Naturals, Sequences

Primitives == {"str", "int", "float", "bool"}

Anything == [is |-> "any"]

-----------------------------------------------------------------------------
(* dict_to_pydantic_schema.                                                *)

(* A list of one type or one dictionary says what its items are; one of    *)
(* values which they may be.                                               *)
RECURSIVE Annotation(_)
Annotation(d) ==
  LET model(members) ==
        [is |-> "model",
         fields |-> [k \in DOMAIN members |->
                       [annotation |-> Annotation(members[k]),
                        required |-> members[k].is \notin {"none", "example"}]]]
      item(items) ==
        CASE items = <<>> -> Anything
          [] Len(items) = 1 /\ items[1].is \in {"type", "dict"} -> Annotation(items[1])
          [] OTHER -> [is |-> "literal",
                       values |-> {<<items[i].of, items[i].value>> : i \in DOMAIN items}]
  IN  CASE d.is \in {"type", "example"} -> [is |-> "type", of |-> d.of]
        [] d.is = "none" -> Anything
        [] d.is = "dict" -> model(d.members)
        [] d.is = "list" -> [is |-> "list", item |-> item(d.items)]

(* Other lists are a ValueError; [None] and lists in lists are left out.   *)
RECURSIVE Supported(_)
Supported(d) ==
  CASE d.is = "dict" -> \A k \in DOMAIN d.members : Supported(d.members[k])
    [] d.is = "list" ->
         IF Len(d.items) = 1
         THEN d.items[1].is \in {"type", "dict", "example"} /\ Supported(d.items[1])
         ELSE \A i \in DOMAIN d.items : d.items[i].is = "example"
    [] OTHER -> TRUE

-----------------------------------------------------------------------------
(* Pydantic's model_validate(..., strict=False).                           *)

(* What it takes for each type; the numbers of a reply are neither 0 nor 1 *)
(* nor is a fraction whole, and no string reads as a number.               *)
Converted ==
  [str |-> {"str"}, int |-> {"int", "bool"}, float |-> {"float", "int", "bool"},
   bool |-> {"bool"}]

RECURSIVE Validates(_, _)
Validates(v, a) ==
  CASE a.is = "any" -> TRUE
    [] a.is = "type" -> v.is \in Converted[a.of]
    [] a.is = "literal" -> v.is \in Primitives /\ <<v.is, v.value>> \in a.values
    [] a.is = "list" ->
         v.is = "list" /\ \A i \in DOMAIN v.items : Validates(v.items[i], a.item)
    [] a.is = "model" ->
         /\ v.is = "dict"
         /\ \A k \in DOMAIN a.fields :
              IF k \in DOMAIN v.members
              THEN Validates(v.members[k], a.fields[k].annotation)
              ELSE ~a.fields[k].required

-----------------------------------------------------------------------------
(* JsonFixPipeline.parse, after the text has been read.                    *)

(* isinstance(v, t)                                                        *)
Instances ==
  [str |-> {"str"}, int |-> {"int", "bool"}, float |-> {"float"}, bool |-> {"bool"}]

(* Mutant of Uniform: the fields are not compared with each other.         *)
UniformOfAny(model) ==
  {t \in Primitives :
     \E k \in DOMAIN model.fields :
       model.fields[k].annotation = [is |-> "type", of |-> t]}

(* _flat_dict_value_type: the type that all fields have in common, if any. *)
Uniform(model) ==
  {t \in Primitives :
     /\ DOMAIN model.fields # {}
     /\ \A k \in DOMAIN model.fields :
          model.fields[k].annotation = [is |-> "type", of |-> t]}

(* Under a common type only the type of the values there are is looked at, *)
(* whatever their keys; otherwise the model decides.                       *)
Returned(v, model) ==
  IF v.is = "dict" /\ Uniform(model) # {}
  THEN \A t \in Uniform(model), k \in DOMAIN v.members :
         v.members[k].is \in Instances[t]
  ELSE Validates(v, model)

-----------------------------------------------------------------------------
(* What the forms of a description mean (pydantic_helper.py:41-50).        *)

RECURSIVE Fits(_, _)
Fits(v, d) ==
  CASE d.is \in {"type", "example"} -> v.is \in Converted[d.of]
    [] d.is = "none" -> TRUE
    [] d.is = "dict" ->
         /\ v.is = "dict"
         /\ \A k \in DOMAIN d.members :
              \/ k \in DOMAIN v.members /\ Fits(v.members[k], d.members[k])
              \/ k \notin DOMAIN v.members /\ d.members[k].is \in {"none", "example"}
    [] d.is = "list" ->
         /\ v.is = "list"
         /\ d.items # <<>> =>
              \A i \in DOMAIN v.items : \E j \in DOMAIN d.items :
                IF d.items[j].is = "example"
                THEN v.items[i] = [is |-> d.items[j].of, value |-> d.items[j].value]
                ELSE Fits(v.items[i], d.items[j])

(* A JSON Schema, as Python reads it: an object with properties of the     *)
(* simple types.                                                           *)
IsJsonSchema(d) ==
  /\ d.is = "dict"
  /\ {"type", "properties", "required"} \subseteq DOMAIN d.members
  /\ d.members["type"].is = "example" /\ d.members["type"].value = "object"

JsonType == [string |-> "str", integer |-> "int", number |-> "float", boolean |-> "bool"]

(* v is an instance of it.                                                 *)
Conforms(v, d) ==
  LET properties == d.members["properties"].members
      required == d.members["required"].items
  IN  /\ v.is = "dict"
      /\ \A i \in DOMAIN required : required[i].value \in DOMAIN v.members
      /\ \A k \in DOMAIN properties \cap DOMAIN v.members :
           v.members[k].is = JsonType[properties[k].members["type"].value]

=============================================================================
