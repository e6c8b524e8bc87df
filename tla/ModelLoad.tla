----------------------------- MODULE ModelLoad -----------------------------
(***************************************************************************)
(* Model loading: step 4 of LLMProviderPool._call (pool.py:1431-1454) and  *)
(* the _ensure_*_loaded methods (pool.py:753-910), run in worker threads   *)
(* by several calls to one server.                                         *)
(*                                                                         *)
(* A call asks the server what is loaded, decides, and posts a load; the   *)
(* answer may be old when the load arrives, and a load may be carried out  *)
(* after the call has stopped waiting for it.  Then the chat request goes  *)
(* out.  The servers are external: what they do is what the code expects   *)
(* of them, with every outcome it does not exclude.                        *)
(*                                                                         *)
(* Ollama has no such step: nothing is asked, and the preload before each  *)
(* request (1517-1518) carries the options of the request itself.          *)
(***************************************************************************)
EXTENDS Naturals, FiniteSets

CONSTANTS
  Calls,        \* calls by one event loop
  Models,       \* model names
  Located,      \* the GGUF file each name stands for with Unsloth
  Values,       \* values of a load parameter
  Unset,        \* parameter not given; on the server: its default
  Absent,       \* the model is not loaded
  Providers,    \* the kinds of server considered
  Requests,     \* what a call may ask for, see Request
  Concurrency,  \* calls the program keeps in flight
  MaxUnloads    \* bound on models unloaded by others

(* size: context_length.  tuning: the other load parameters of the server. *)
(* gpu: gpu_offload, which LM Studio only takes from its CLI.              *)
Config == [size : Values \cup {Unset}, tuning : Values \cup {Unset}]
Request == [model : Models, config : Config, gpu : BOOLEAN]
Plain == [size |-> Unset, tuning |-> Unset]

ASSUME UnsetAssumption == Unset \notin Values
ASSUME AbsentAssumption == Absent \notin Config
ASSUME ProvidersAssumption == Providers \subseteq {"llama_cpp", "lm_studio", "unsloth"}
ASSUME LocatedAssumption == Located \in [Models -> Models]
ASSUME RequestsAssumption == Requests \subseteq Request
ASSUME ConcurrencyAssumption == Concurrency \in Nat \ {0}
ASSUME MaxUnloadsAssumption == MaxUnloads \in Nat

VARIABLES
  provider,   \* the kind of server; fixed at the start
  asked,      \* what each call asks for; fixed at the start
  memory,     \* what the server has loaded, and how
  pc,         \* stage of each call
  how,        \* the load each call posted: "none", "load", "force", "cli"
  pending,    \* calls whose load the server has still to carry out
  disturbed,  \* history: calls under whose check the server changed
  unloads     \* models unloaded by others so far

vars == <<provider, asked, memory, pc, how, pending, disturbed, unloads>>
fixed == <<provider, asked>>

(* The model as the server knows it.  Unsloth's are files: a path stands   *)
(* for itself, "repo@quant" for one that is downloaded.  (If none is, the  *)
(* check fails.)                                                           *)
Model(c) == IF provider = "unsloth" THEN Located[asked[c].model] ELSE asked[c].model
Given(c) == asked[c].config # Plain
Listed(c) == memory[Model(c)] # Absent

(* gpu_offload goes to LM Studio's lms command, which asks nothing first.  *)
ViaCLI(c) == provider = "lm_studio" /\ asked[c].gpu

InFlight == {c \in Calls : pc[c] \in {"loading", "ready", "serving"}}

Init ==
  /\ provider \in Providers
  /\ asked \in [Calls -> Requests]
  /\ memory = [m \in Models |-> Absent]
  /\ pc = [c \in Calls |-> "idle"]
  /\ how = [c \in Calls |-> "none"]
  /\ pending = {}
  /\ disturbed = {}
  /\ unloads = 0

-----------------------------------------------------------------------------
(* The call's thread.                                                      *)

(* Mutants of Sufficient: what is loaded is taken as it is; Unsloth's      *)
(* status is not looked at.                                                *)
SufficientIfListed(c) ==
  IF provider = "lm_studio" THEN ~ViaCLI(c) /\ (Listed(c) \/ ~Given(c))
  ELSE Listed(c)

NeverSufficient(c) ==
  \/ provider = "lm_studio" /\ ~ViaCLI(c) /\ (Listed(c) \/ ~Given(c))
  \/ provider = "llama_cpp" /\ Listed(c) /\ ~Given(c)

(* The early returns: nothing has to be loaded.                            *)
Sufficient(c) ==
  \/ provider = "lm_studio" /\ ~ViaCLI(c) /\ (Listed(c) \/ ~Given(c))
  \/ provider = "llama_cpp" /\ Listed(c) /\ ~Given(c)
  \/ /\ provider = "unsloth" /\ Listed(c)
     /\ asked[c].config.size \in {Unset, memory[Model(c)].size}
     /\ asked[c].config.tuning = Unset

(* Mutant of Posted: force_restart whatever was found.                     *)
PostedForced(c) ==
  IF ViaCLI(c) THEN "cli"
  ELSE IF provider = "llama_cpp" THEN "force"
  ELSE "load"

Posted(c) ==
  IF ViaCLI(c) THEN "cli"
  ELSE IF provider = "llama_cpp" /\ Listed(c) THEN "force"
  ELSE "load"

Begin(c) == pc[c] = "idle" /\ Cardinality(InFlight) < Concurrency

Skip(c) ==
  /\ Begin(c)
  /\ Sufficient(c)
  /\ pc' = [pc EXCEPT ![c] = "ready"]
  /\ UNCHANGED <<fixed, memory, how, pending, disturbed, unloads>>

Post(c) ==
  /\ Begin(c)
  /\ ~Sufficient(c)
  /\ pc' = [pc EXCEPT ![c] = "loading"]
  /\ how' = [how EXCEPT ![c] = Posted(c)]
  /\ pending' = pending \cup {c}
  /\ UNCHANGED <<fixed, memory, disturbed, unloads>>

(* LM Studio's error answer to the listing is read as an empty list.       *)
PostUnlisted(c) ==
  /\ Begin(c)
  /\ provider = "lm_studio" /\ Given(c) /\ ~ViaCLI(c)
  /\ pc' = [pc EXCEPT ![c] = "loading"]
  /\ how' = [how EXCEPT ![c] = "load"]
  /\ pending' = pending \cup {c}
  /\ UNCHANGED <<fixed, memory, disturbed, unloads>>

(* The server or the lms command cannot be reached, or no file is found.   *)
CheckFails(c) ==
  /\ Begin(c)
  /\ provider = "lm_studio" => ViaCLI(c) \/ Given(c)
  /\ pc' = [pc EXCEPT ![c] = "failed"]
  /\ UNCHANGED <<fixed, memory, how, pending, disturbed, unloads>>

(* load_timeout, the transport's timeout, a broken connection, or the      *)
(* coroutine is cancelled.  The server is not told.                        *)
Abandon(c) ==
  /\ pc[c] \in {"loading", "ready", "serving"}
  /\ pc' = [pc EXCEPT ![c] = "failed"]
  /\ UNCHANGED <<fixed, memory, how, pending, disturbed, unloads>>

-----------------------------------------------------------------------------
(* The server.                                                             *)

(* Mutant of Body: all the call was given is sent.                         *)
BodyOfCall(c) == asked[c]

(* The parameters a load carries: the CLI takes only the context size.     *)
Body(c) ==
  IF how[c] = "cli" THEN [Plain EXCEPT !.size = asked[c].config.size]
  ELSE asked[c].config

(* Unsloth holds one model.  A second instance beside a loaded one, which  *)
(* LM Studio's CLI makes, does not serve the model's name.                 *)
MemoryAfter(c) ==
  IF provider = "unsloth" THEN [m \in Models |-> IF m = Model(c) THEN Body(c) ELSE Absent]
  ELSE IF how[c] = "cli" /\ Listed(c) THEN memory
  ELSE [memory EXCEPT ![Model(c)] = Body(c)]

(* Requests of a model that is stopped or replaced are cut off.            *)
CutOff(M) == {d \in Calls : pc[d] = "serving" /\ (provider = "unsloth" \/ Model(d) \in M)}

Watching == {d \in Calls : pc[d] \in {"loading", "ready"}}

(* The load succeeds.  A model that is loaded is loaded again only if that *)
(* is asked for (llama.cpp) or always is (Unsloth).                        *)
Loads(c) ==
  /\ c \in pending
  /\ ~Listed(c) \/ how[c] \in {"force", "cli"} \/ provider = "unsloth"
  /\ memory' = MemoryAfter(c)
  /\ pending' = pending \ {c}
  /\ LET cut == IF how[c] = "cli" THEN {} ELSE CutOff({Model(c)})
     IN  pc' = [d \in Calls |-> IF d \in cut THEN "failed"
                                ELSE IF d = c /\ pc[d] = "loading" THEN "ready"
                                ELSE pc[d]]
  /\ disturbed' = disturbed \cup (Watching \ {c})
  /\ UNCHANGED <<fixed, how, unloads>>

(* llama.cpp has the model by now, and need not mind being asked again.    *)
KeepsLoaded(c) ==
  /\ c \in pending
  /\ provider = "llama_cpp" /\ Listed(c) /\ how[c] = "load"
  /\ pending' = pending \ {c}
  /\ pc' = IF pc[c] = "loading" THEN [pc EXCEPT ![c] = "ready"] ELSE pc
  /\ UNCHANGED <<fixed, memory, how, disturbed, unloads>>

(* An error: LM Studio has the model, or the server cannot load it.        *)
Refuses(c) ==
  /\ c \in pending
  /\ pending' = pending \ {c}
  /\ pc' = IF pc[c] = "loading" THEN [pc EXCEPT ![c] = "failed"] ELSE pc
  /\ UNCHANGED <<fixed, memory, how, disturbed, unloads>>

(* The chat request finds a model: the one it names, or Unsloth's only one.*)
Chat(c) ==
  /\ pc[c] = "ready"
  /\ Listed(c) \/ (provider = "unsloth" /\ \E m \in Models : memory[m] # Absent)
  /\ pc' = [pc EXCEPT ![c] = "serving"]
  /\ UNCHANGED <<fixed, memory, how, pending, disturbed, unloads>>

(* It does not, and the server loads the model the way it sees fit.  (Or   *)
(* it fails: Abandon.)                                                     *)
ChatLoads(c) ==
  /\ pc[c] = "ready"
  /\ ~Listed(c) /\ provider # "unsloth"
  /\ memory' = [memory EXCEPT ![Model(c)] = Plain]
  /\ pc' = [pc EXCEPT ![c] = "serving"]
  /\ disturbed' = disturbed \cup (Watching \ {c})
  /\ UNCHANGED <<fixed, how, pending, unloads>>

Answered(c) ==
  /\ pc[c] = "serving"
  /\ pc' = [pc EXCEPT ![c] = "ok"]
  /\ UNCHANGED <<fixed, memory, how, pending, disturbed, unloads>>

(* unload_all_models, model by model; a restart of the service or idleness *)
(* come to the same.                                                       *)
Unload(m) ==
  /\ unloads < MaxUnloads
  /\ memory[m] # Absent
  /\ unloads' = unloads + 1
  /\ memory' = [memory EXCEPT ![m] = Absent]
  /\ pc' = [d \in Calls |-> IF d \in CutOff({m}) THEN "failed" ELSE pc[d]]
  /\ disturbed' = disturbed \cup Watching
  /\ UNCHANGED <<fixed, how, pending>>

Progress(c) ==
  \/ Skip(c) \/ Post(c) \/ PostUnlisted(c) \/ CheckFails(c)
  \/ Abandon(c) \/ Chat(c) \/ ChatLoads(c) \/ Answered(c)

Next ==
  \/ \E c \in Calls : Progress(c) \/ Loads(c) \/ KeepsLoaded(c) \/ Refuses(c)
  \/ \E m \in Models : Unload(m)

Spec == Init /\ [][Next]_vars

-----------------------------------------------------------------------------
(* Properties.                                                             *)

(* The state is that of calls and one server; Unsloth never has two models.*)
TypeOK ==
  /\ provider \in Providers
  /\ asked \in [Calls -> Requests]
  /\ memory \in [Models -> Config \cup {Absent}]
  /\ pc \in [Calls -> {"idle", "loading", "ready", "serving", "ok", "failed"}]
  /\ how \in [Calls -> {"none", "load", "force", "cli"}]
  /\ pending \subseteq Calls
  /\ disturbed \subseteq Calls
  /\ unloads \in 0..MaxUnloads
  /\ provider = "unsloth" =>
       \A m, n \in Models : memory[m] # Absent /\ memory[n] # Absent => m = n

Fits(c) ==
  /\ Listed(c)
  /\ asked[c].config.size \in {Unset, memory[Model(c)].size}
  /\ asked[c].config.tuning \in {Unset, memory[Model(c)].tuning}

(* The decision to load is right: a call under whose check and load nobody *)
(* else changed the server is served by the model and under the parameters *)
(* it asked for, whatever late loads, failures and other calls came before.*)
(* Of LM Studio that is asked only of a call that loaded the model itself. *)
ServedAsAsked ==
  \A c \in Calls \ disturbed :
    pc[c] = "serving" /\ (provider = "lm_studio" => how[c] = "load") => Fits(c)

(* Only a call that wants parameters of its own, and that found the model  *)
(* loaded, takes a llama.cpp or LM Studio model from under another call's  *)
(* request: first loads that race, or come late, disturb nobody.           *)
OnlyDemandCutsOff ==
  [][\A d \in Calls :
       pc[d] = "serving" /\ pc'[d] = "failed" /\ memory[Model(d)] # memory'[Model(d)]
         /\ provider # "unsloth" /\ unloads' = unloads
       => \E c \in pending \ pending' : Given(c) /\ how[c] = "force"]_vars

(* README.md:523: Unsloth's load step "is skipped" if the model is loaded: *)
(* a call loads over what would have served it only if that came up after  *)
(* it had looked.                                                          *)
NoNeedlessLoad ==
  [][\A c \in (pending \ pending') \ disturbed :
       provider = "unsloth" /\ pc[c] = "loading" /\ pc'[c] = "ready"
       => asked[c].config.tuning # Unset \/ ~Fits(c)]_vars

(* pool.py:149-150: context_length "Triggers model (re-)loading at the     *)
(* requested size for llama_cpp, LM Studio, Unsloth".                      *)
SizeAsAsked ==
  \A c \in Calls \ disturbed :
    pc[c] = "serving" /\ ~asked[c].gpu =>
      Listed(c) /\ asked[c].config.size \in {Unset, memory[Model(c)].size}

=============================================================================
