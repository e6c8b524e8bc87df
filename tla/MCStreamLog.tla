---------------------------- MODULE MCStreamLog ----------------------------
(* StreamLog with two calls in flight.                                     *)
EXTENDS StreamLog, TLC

CONSTANTS c1, c2

MCCalls == {c1, c2}

(* Which call is which makes no difference.                                *)
Symmetry == Permutations(Calls)

=============================================================================
