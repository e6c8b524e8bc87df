---------------------------- MODULE MCModelLoad ----------------------------
(* ModelLoad with three calls, two models and two context sizes;           *)
(* with Unsloth, a third name stands for the first model's file.           *)
EXTENDS ModelLoad, TLC

CONSTANTS c1, c2, c3, m1, m2, m3, v1, v2

MCCalls == {c1, c2, c3}
MCModels == {m1, m2, m3}
MCLocated == [m \in MCModels |-> IF m = m3 THEN m1 ELSE m]
MCValues == {v1, v2}

AskFor(m, s, t, g) == [model |-> m, config |-> [size |-> s, tuning |-> t], gpu |-> g]

(* One model without parameters, with either size, with another parameter  *)
(* or with gpu_offload; the others without parameters.                     *)
MCRequests ==
  { AskFor(m1, Unset, Unset, FALSE), AskFor(m1, v1, Unset, FALSE),
    AskFor(m1, v2, Unset, FALSE), AskFor(m1, Unset, v1, FALSE),
    AskFor(m1, v1, v1, TRUE), AskFor(m2, Unset, Unset, FALSE),
    AskFor(m3, Unset, Unset, FALSE) }

(* One model in either size.                                               *)
SizeRequests == {AskFor(m1, v1, Unset, FALSE), AskFor(m1, v2, Unset, FALSE)}

(* Which call is which makes no difference.                                *)
Symmetry == Permutations(Calls)

AllProviders == {"llama_cpp", "lm_studio", "unsloth"}
OnlyLMStudio == {"lm_studio"}

=============================================================================
