----------------------------- MODULE MCGenLoop -----------------------------
(* GenLoop on a small model: two tools, one of them without a handler, and *)
(* a model that answers with text of every quality or with a burst of      *)
(* tool calls.                                                             *)
EXTENDS GenLoop

CONSTANTS search, absent, c1   \* a registered tool, an unknown one, an id

(* One named call with an id; a burst with a nameless call before an       *)
(* unknown tool and a call without id; a burst of nameless calls only.     *)
Bursts ==
  { <<[name |-> search, id |-> c1]>>,
    <<[name |-> NoName, id |-> c1], [name |-> absent, id |-> c1],
      [name |-> search, id |-> NoId]>>,
    <<[name |-> NoName, id |-> NoId]>> }

MCReplies ==
  [calls : {<<>>}, loops : BOOLEAN, parses : BOOLEAN] \cup
  [calls : Bursts, loops : {FALSE}, parses : {FALSE}]

(* Budgets up to two of each kind, as long as the tool rounds of all the   *)
(* attempts together stay within MaxToolTrips.                             *)
MaxToolTrips == 4

MCArguments ==
  {a \in [rounds : -1..2, loops : 0..2, jsons : 0..2, structured : BOOLEAN] :
     a.rounds * (1 + a.loops + a.jsons) <= MaxToolTrips}

MCNames == {search, absent}
MCRegistry == {search}
MCIds == {c1}

=============================================================================
