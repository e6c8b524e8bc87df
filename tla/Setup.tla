------------------------------- MODULE Setup -------------------------------
(***************************************************************************)
(* scripts/setup_service_restart.sh: the unit files and the polkit rule    *)
(* that LLMProviderPool.restart relies on.  The script is run by hand, may *)
(* fail or be killed at any point, and is run again; `set -e` ends it at   *)
(* the first command that fails.                                           *)
(***************************************************************************)
EXTENDS Naturals, FiniteSets

CONSTANTS
  Services,    \* units that providers.yaml may list
  Templates,   \* those the script has a template for
  Ollama,      \* ollama.service
  MaxRuns      \* bound: runs of the script

ASSUME TemplatesAssumption == Templates \subseteq Services /\ Ollama \notin Templates
ASSUME MaxRunsAssumption == MaxRuns \in Nat

VARIABLES
  listed,      \* systemd_service entries of providers.yaml
  installed,   \* templates whose binary or directory is found
  file,        \* /etc/systemd/system
  known,       \* the unit files systemd has read
  rule,        \* the services the polkit rule grants; none if it is cut
  pc,          \* where the script is; "ready" between runs
  todo,        \* services it has not looked at
  created,     \* unit files this run has written
  runs,        \* runs so far
  cutShort     \* whether one of them ended early

vars == <<listed, installed, file, known, rule, pc, todo, created, runs, cutShort>>

(* "own": the user's or the Ollama installer's.                            *)
Files == {"absent", "cut", "made", "own"}

Init ==
  /\ listed \in SUBSET Services
  /\ installed \in SUBSET Templates
  /\ file \in [Services -> {"absent", "own"}]
  /\ known = file
  /\ rule = {}
  /\ pc = "ready"
  /\ todo = {}
  /\ created = {}
  /\ runs = 0
  /\ cutShort = FALSE

host == <<listed, installed, runs>>

Begin ==
  /\ pc \in {"ready", "done"}
  /\ runs < MaxRuns
  /\ runs' = runs + 1
  /\ pc' = IF listed = {} THEN "ready" ELSE "units"
  /\ todo' = listed
  /\ created' = {}
  /\ UNCHANGED <<listed, installed, file, known, rule, cutShort>>

Visit(s) ==
  /\ pc = "units"
  /\ s \in todo
  /\ UNCHANGED <<host, known, rule, cutShort>>

(* Mutant of MustWrite: an existing file is no reason to skip a service.   *)
MustWriteAnyway(s) == s # Ollama /\ s \in Templates /\ s \in installed

MustWrite(s) ==
  /\ s # Ollama
  /\ file[s] = "absent"
  /\ s \in Templates
  /\ s \in installed

(* Ollama's, existing, unknown and missing ones.                           *)
Skip(s) ==
  /\ Visit(s)
  /\ ~MustWrite(s)
  /\ todo' = todo \ {s}
  /\ UNCHANGED <<file, pc, created>>

(* The shell opens the target before printf writes to it.                  *)
OpenUnit(s) ==
  /\ Visit(s)
  /\ MustWrite(s)
  /\ file' = [file EXCEPT ![s] = "cut"]
  /\ pc' = "write"
  /\ created' = created \cup {s}
  /\ UNCHANGED todo

WriteUnit ==
  /\ pc = "write"
  /\ \E s \in todo \cap created :
       /\ file' = [file EXCEPT ![s] = "made"]
       /\ todo' = todo \ {s}
  /\ pc' = "units"
  /\ UNCHANGED <<host, known, rule, created, cutShort>>

(* Mutant of Reload: without asking systemd.                               *)
ReloadNever ==
  /\ pc = "units"
  /\ todo = {}
  /\ pc' = "rule"
  /\ UNCHANGED <<host, file, known, rule, todo, created, cutShort>>

(* daemon-reload, if anything was created.                                 *)
Reload ==
  /\ pc = "units"
  /\ todo = {}
  /\ known' = IF created # {} THEN file ELSE known
  /\ pc' = "rule"
  /\ UNCHANGED <<host, file, rule, todo, created, cutShort>>

(* tee opens the rule, then writes it: for every listed service, whether   *)
(* its unit was written or not.                                            *)
OpenRule ==
  /\ pc = "rule"
  /\ rule' = {}
  /\ pc' = "tee"
  /\ UNCHANGED <<host, file, known, todo, created, cutShort>>

WriteRule ==
  /\ pc = "tee"
  /\ rule' = listed
  /\ pc' = "done"
  /\ UNCHANGED <<host, file, known, todo, created, cutShort>>

(* A command fails, or the script is killed.                               *)
CutShort ==
  /\ pc \notin {"ready", "done"}
  /\ pc' = "ready"
  /\ cutShort' = TRUE
  /\ UNCHANGED <<host, file, known, rule, todo, created>>

(* Between runs: a provider is installed, or entered or removed.           *)
Install ==
  /\ pc \in {"ready", "done"}
  /\ \E s \in Templates \ installed : installed' = installed \cup {s}
  /\ pc' = "ready"
  /\ UNCHANGED <<listed, file, known, rule, todo, created, runs, cutShort>>

Enter ==
  /\ pc \in {"ready", "done"}
  /\ \E s \in Services : listed' = IF s \in listed THEN listed \ {s} ELSE listed \cup {s}
  /\ pc' = "ready"
  /\ UNCHANGED <<installed, file, known, rule, todo, created, runs, cutShort>>

Script ==
  \/ \E s \in Services : Skip(s) \/ OpenUnit(s)
  \/ WriteUnit \/ Reload \/ OpenRule \/ WriteRule

Next == Begin \/ Script \/ CutShort \/ Install \/ Enter

Spec == Init /\ [][Next]_vars

-----------------------------------------------------------------------------
(* Properties.                                                             *)

(* The header's "idempotent": however often the script is run and wherever *)
(* it was cut short, it only ever adds a unit file: what the user or an    *)
(* earlier run has put there stays as it is.                               *)
ExistingUnitsKept ==
  [][\A s \in Services : file[s] \in {"own", "made"} => file'[s] = file[s]]_vars

(* A run that ends well leaves the rule for exactly the services listed,   *)
(* even after runs that were cut short; and if none was, every unit file   *)
(* is whole, systemd has read it, and each service that can be installed   *)
(* has one.                                                                *)
DoneMeansReady ==
  pc = "done" =>
    /\ rule = listed
    /\ ~cutShort =>
         /\ known = file
         /\ \A s \in Services : file[s] # "cut"
         /\ \A s \in listed \cap installed : file[s] # "absent"

=============================================================================
