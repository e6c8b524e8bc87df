------------------------------ MODULE LoopText ------------------------------
(***************************************************************************)
(* A model that has begun to repeat itself: after a beginning of its own a *)
(* unit again and again, numbers counting on.                              *)
(***************************************************************************)
EXTENDS LoopGuard

CONSTANTS
  Beginnings, Units,   \* of looping replies; "#" is a number that counts
  MaxLooping,          \* bound: characters of a looping reply
  Settled              \* characters after which a loop must have been noticed

ASSUME LoopsAssumption ==
  /\ Beginnings \subseteq Seq(STRING)
  /\ Units \subseteq Seq(STRING) \ {<<>>}
  /\ \A u \in Units : \A i \in DOMAIN u : u[i] \notin Digits
  /\ {MaxLooping, Settled} \subseteq Nat

(* How long it takes until the unit is there again, and what is left of it *)
(* without its number.                                                     *)
Period(u) == IF \E i \in DOMAIN u : u[i] = "#" THEN 3 * Len(u) ELSE Len(u)
Solid(u) == {i \in DOMAIN u : u[i] # "#"}

(* h windows, each d after the last.                                       *)
Stretch(h, d) == (h - 1) * d + Window

(* The units that the thresholds of the sequence detector are made for: so *)
(* many windows of the repeated unit, or of the unit without its number,   *)
(* are within its lookback, and written when the loop has settled.         *)
Noticeable(b, u) ==
  \E h \in MinHits..Lookback, d \in Window..Lookback :
    /\ h * Window >= MinSum
    /\ Stretch(h, d) <= Lookback
    /\ \/ /\ d % Period(u) = 0
          /\ Len(b) + Stretch(h, d) <= Settled
       \/ /\ Solid(u) # {}
          /\ d % Cardinality(Solid(u)) = 0
          /\ BlockLength <= Settled
          /\ \E times \in 1..Settled :
               /\ times * Cardinality(Solid(u)) >= Stretch(h, d)
               /\ Len(b) + times * Len(u) <= Settled

ASSUME SettledAssumption == \A b \in Beginnings, u \in Units : Noticeable(b, u)

VARIABLES
  loop,       \* the beginning and the unit
  repeated    \* the looping reply so far

loopVars == <<loop, repeated>>

Begins ==
  /\ loop \in [beginning : Beginnings, unit : Units]
  /\ repeated = <<>>

(* What the unit, said again and again, has after w characters.            *)
Unrolled(u, w) ==
  LET c == u[1 + (w % Len(u))]
  IN  IF c # "#" THEN c ELSE <<"1", "2", "3">>[1 + ((w \div Len(u)) % 3)]

(* The beginning, then the next character of the unit.                     *)
Repeat ==
  /\ Len(repeated) < MaxLooping
  /\ repeated' = IF repeated = <<>> /\ loop.beginning # <<>> THEN loop.beginning
                 ELSE Append(repeated,
                             Unrolled(loop.unit, Len(repeated) - Len(loop.beginning)))
  /\ UNCHANGED loop

LoopSpec == Begins /\ [][Repeat]_loopVars

(* A reply that goes on repeating itself does not go on unnoticed, whatever *)
(* it began with and however long it goes on (loop_guard.py:5-7).          *)
LoopNoticed == Len(repeated) >= Settled => LoopReason(repeated) # "none"

=============================================================================
