---------------------------- MODULE SetupProofs ----------------------------
(***************************************************************************)
(* Theorems about the setup script, for any services and any number of     *)
(* runs, each of which may be cut short at any command.                    *)
(***************************************************************************)
EXTENDS Setup, TLAPS

Stages == {"ready", "units", "write", "rule", "tee", "done"}

SetupTypes ==
  /\ listed \subseteq Services
  /\ installed \subseteq Templates
  /\ file \in [Services -> Files]
  /\ pc \in Stages
  /\ todo \subseteq Services
  /\ cutShort \in BOOLEAN

(* The unit being written is the one of `todo` that this run has created,  *)
(* and holds nothing yet: WriteUnit overwrites no other.                   *)
BeingWritten ==
  /\ pc = "units" => todo \cap created = {}
  /\ pc = "write" => \E s \in todo : todo \cap created = {s} /\ file[s] = "cut"

WriteInv == SetupTypes /\ BeingWritten

(* As long as no run was cut short: only the unit being written is not     *)
(* whole, what the present run has left behind it needs no unit, and       *)
(* systemd is behind only while there is something to reload.              *)
WholeSoFar ==
  /\ \A s \in Services : file[s] = "cut" => pc = "write" /\ s \in todo \cap created
  /\ pc \in {"units", "write"} =>
       \A s \in (listed \cap installed) \ todo : file[s] # "absent"
  /\ pc \in {"rule", "tee", "done"} =>
       \A s \in listed \cap installed : file[s] # "absent"
  /\ known # file => pc \in {"units", "write"} /\ created # {}

ReadyInv ==
  /\ WriteInv
  /\ pc = "done" => rule = listed
  /\ ~cutShort => WholeSoFar

-----------------------------------------------------------------------------
LEMMA InitWriteInv == Init => WriteInv
BY DEF Init, WriteInv, SetupTypes, BeingWritten, Files, Stages

LEMMA NextWriteInv == WriteInv /\ [Next]_vars => WriteInv'
<1> SUFFICES ASSUME WriteInv, [Next]_vars PROVE WriteInv'
  OBVIOUS
<1> USE DEF WriteInv, SetupTypes, BeingWritten, Files, Stages, host
<1>1. CASE Begin
  BY <1>1 DEF Begin
<1>2. ASSUME NEW s \in Services, Skip(s) PROVE WriteInv'
  BY <1>2 DEF Skip, Visit
<1>3. ASSUME NEW s \in Services, OpenUnit(s) PROVE WriteInv'
  <2>1. todo' \cap created' = {s}
    BY <1>3 DEF OpenUnit, Visit
  <2>2. file' \in [Services -> Files] /\ file'[s] = "cut" /\ pc' = "write"
    BY <1>3 DEF OpenUnit, Visit
  <2> QED BY <1>3, <2>1, <2>2 DEF OpenUnit, Visit
<1>4. CASE WriteUnit
  <2>1. PICK s \in todo \cap created :
          file' = [file EXCEPT ![s] = "made"] /\ todo' = todo \ {s}
    BY <1>4 DEF WriteUnit
  <2> QED BY <1>4, <2>1 DEF WriteUnit
<1>5. CASE Reload
  BY <1>5 DEF Reload
<1>6. CASE OpenRule \/ WriteRule
  BY <1>6 DEF OpenRule, WriteRule
<1>7. CASE CutShort
  BY <1>7 DEF CutShort
<1>8. CASE Install \/ Enter
  BY <1>8 DEF Install, Enter
<1>9. CASE UNCHANGED vars
  BY <1>9 DEF vars
<1> QED
  BY <1>1, <1>2, <1>3, <1>4, <1>5, <1>6, <1>7, <1>8, <1>9 DEF Next, Script

(* However often it is run and wherever it is cut short, the script leaves *)
(* every unit file that somebody else or an earlier run has made as it is. *)
THEOREM UnitsAreKept == Spec => ExistingUnitsKept
<1> DEFINE Kept == \A s \in Services : file[s] \in {"own", "made"} => file'[s] = file[s]
<1>1. WriteInv /\ [Next]_vars => [Kept]_vars
  <2> SUFFICES ASSUME WriteInv, Next PROVE Kept
    OBVIOUS
  <2> USE DEF WriteInv, SetupTypes, BeingWritten, Files
  <2>1. ASSUME NEW s \in Services, OpenUnit(s) PROVE Kept
    BY <2>1 DEF OpenUnit, Visit, MustWrite
  <2>2. CASE WriteUnit
    <3>1. PICK s \in todo \cap created : file' = [file EXCEPT ![s] = "made"]
      BY <2>2 DEF WriteUnit
    <3>2. file[s] = "cut"
      BY <2>2, <3>1 DEF WriteUnit
    <3> QED BY <3>1, <3>2
  <2>3. CASE file' = file
    BY <2>3
  <2> QED
    BY <2>1, <2>2, <2>3
    DEF Next, Script, Begin, Skip, Visit, Reload, OpenRule, WriteRule, CutShort,
        Install, Enter
<1> QED
  BY <1>1, InitWriteInv, NextWriteInv, PTL DEF Spec, ExistingUnitsKept

-----------------------------------------------------------------------------
LEMMA InitReadyInv == Init => ReadyInv
BY InitWriteInv DEF Init, ReadyInv, WholeSoFar, Files

LEMMA NextReadyInv == ReadyInv /\ [Next]_vars => ReadyInv'
<1> SUFFICES ASSUME ReadyInv, [Next]_vars PROVE ReadyInv'
  OBVIOUS
<1> USE DEF ReadyInv
<1>0. WriteInv'
  BY NextWriteInv
<1> USE DEF WriteInv, SetupTypes, BeingWritten, WholeSoFar, Files, Stages, host
<1>1. CASE Begin
  BY <1>0, <1>1 DEF Begin
<1>2. ASSUME NEW s \in Services, Skip(s) PROVE ReadyInv'
  <2>1. s \in installed /\ s \in listed => file[s] # "absent"
    BY <1>2, TemplatesAssumption DEF Skip, MustWrite
  <2> QED BY <1>0, <1>2, <2>1 DEF Skip, Visit
<1>3. ASSUME NEW s \in Services, OpenUnit(s) PROVE ReadyInv'
  <2>1. /\ file' = [file EXCEPT ![s] = "cut"] /\ pc' = "write" /\ pc = "units"
        /\ created' = created \cup {s} /\ s \in todo
        /\ UNCHANGED <<listed, installed, todo, known, cutShort>>
    BY <1>3 DEF OpenUnit, Visit
  <2> QED BY <1>0, <2>1
<1>4. CASE WriteUnit
  <2>1. PICK s \in todo \cap created :
          file' = [file EXCEPT ![s] = "made"] /\ todo' = todo \ {s}
    BY <1>4 DEF WriteUnit
  <2>2. todo \cap created = {s} /\ pc = "write" /\ pc' = "units" /\ created' = created
    BY <1>4, <2>1 DEF WriteUnit
  <2> QED BY <1>0, <1>4, <2>1, <2>2 DEF WriteUnit
<1>5. CASE Reload
  BY <1>0, <1>5 DEF Reload
<1>6. CASE OpenRule \/ WriteRule
  BY <1>0, <1>6 DEF OpenRule, WriteRule
<1>7. CASE CutShort
  BY <1>0, <1>7 DEF CutShort
<1>8. CASE Install \/ Enter
  BY <1>0, <1>8 DEF Install, Enter
<1>9. CASE UNCHANGED vars
  BY <1>0, <1>9 DEF vars
<1> QED
  BY <1>1, <1>2, <1>3, <1>4, <1>5, <1>6, <1>7, <1>8, <1>9 DEF Next, Script

(* A run that comes to its end leaves the rule for the services listed,    *)
(* and, if no run was cut short, whole units that systemd has read.        *)
THEOREM FinishedRunsAreReady == Spec => []DoneMeansReady
<1>1. ReadyInv => DoneMeansReady
  BY DEF ReadyInv, WholeSoFar, DoneMeansReady
<1> QED
  BY <1>1, InitReadyInv, NextReadyInv, PTL DEF Spec

=============================================================================
