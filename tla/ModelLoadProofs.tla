-------------------------- MODULE ModelLoadProofs --------------------------
(***************************************************************************)
(* Theorems about ModelLoad, for every set of calls, models, values and    *)
(* requests, with any number of calls in flight.                           *)
(***************************************************************************)
EXTENDS ModelLoad, TLAPS

USE DEF fixed, ViaCLI

(* What was asked and what was sent is well-formed.                        *)
LEMMA ConfigFacts ==
  ASSUME TypeOK, NEW c \in Calls
  PROVE  /\ Model(c) \in Models
         /\ asked[c].config \in Config
         /\ asked[c].gpu \in BOOLEAN
         /\ Plain \in Config
         /\ Body(c) \in Config
         /\ Plain # Absent /\ Body(c) # Absent
<1>1. asked[c] \in Request
  BY RequestsAssumption DEF TypeOK
<1>2. Model(c) \in Models /\ asked[c].config \in Config /\ asked[c].gpu \in BOOLEAN
  BY <1>1, LocatedAssumption DEF Request, Model
<1>3. Plain \in Config
  BY DEF Plain, Config
<1>4. Body(c) \in Config
  BY <1>2 DEF Body, Plain, Config
<1> QED BY <1>2, <1>3, <1>4, AbsentAssumption

(* A load leaves the server in one of its states.                          *)
LEMMA LoadType ==
  ASSUME TypeOK, NEW c \in Calls
  PROVE  /\ MemoryAfter(c) \in [Models -> Config \cup {Absent}]
         /\ provider = "unsloth" =>
              \A m, n \in Models :
                MemoryAfter(c)[m] # Absent /\ MemoryAfter(c)[n] # Absent => m = n
<1>1. Model(c) \in Models /\ Body(c) \in Config
  BY ConfigFacts
<1>2. memory \in [Models -> Config \cup {Absent}]
  BY DEF TypeOK
<1>3. CASE provider = "unsloth"
  <2>1. MemoryAfter(c) = [m \in Models |-> IF m = Model(c) THEN Body(c) ELSE Absent]
    BY <1>3 DEF MemoryAfter
  <2> QED BY <1>1, <2>1
<1>4. CASE provider # "unsloth" /\ how[c] = "cli" /\ Listed(c)
  BY <1>2, <1>4 DEF MemoryAfter
<1>5. CASE provider # "unsloth" /\ ~(how[c] = "cli" /\ Listed(c))
  <2>1. MemoryAfter(c) = [memory EXCEPT ![Model(c)] = Body(c)]
    BY <1>5 DEF MemoryAfter
  <2> QED BY <1>1, <1>2, <1>5, <2>1
<1> QED BY <1>3, <1>4, <1>5

(* Every step keeps the types.                                             *)
LEMMA TypeStep == TypeOK /\ [Next]_vars => TypeOK'
<1> SUFFICES ASSUME TypeOK, [Next]_vars PROVE TypeOK'
  OBVIOUS
<1>1. ASSUME NEW c \in Calls, Progress(c) PROVE TypeOK'
  <2>1. Plain \in Config /\ Model(c) \in Models /\ Plain # Absent
    BY ConfigFacts
  <2>2. CASE Skip(c)
    BY <2>2 DEF Skip, TypeOK
  <2>3. CASE Post(c)
    <3>1. Posted(c) \in {"none", "load", "force", "cli"}
      BY DEF Posted
    <3> QED BY <2>3, <3>1 DEF Post, TypeOK
  <2>4. CASE PostUnlisted(c)
    BY <2>4 DEF PostUnlisted, TypeOK
  <2>5. CASE CheckFails(c)
    BY <2>5 DEF CheckFails, TypeOK
  <2>6. CASE Abandon(c)
    BY <2>6 DEF Abandon, TypeOK
  <2>7. CASE Chat(c)
    BY <2>7 DEF Chat, TypeOK
  <2>8. CASE ChatLoads(c)
    <3>1. memory' \in [Models -> Config \cup {Absent}]
      BY <2>1, <2>8 DEF ChatLoads, TypeOK
    <3>2. provider' # "unsloth"
      BY <2>8 DEF ChatLoads
    <3> QED BY <2>8, <3>1, <3>2 DEF ChatLoads, TypeOK, Watching
  <2>9. CASE Answered(c)
    BY <2>9 DEF Answered, TypeOK
  <2> QED BY <1>1, <2>2, <2>3, <2>4, <2>5, <2>6, <2>7, <2>8, <2>9 DEF Progress
<1>2. ASSUME NEW c \in Calls, Loads(c) PROVE TypeOK'
  <2>1. memory' = MemoryAfter(c) /\ UNCHANGED <<provider, asked, how, unloads>>
    BY <1>2 DEF Loads
  <2>2. pc' \in [Calls -> {"idle", "loading", "ready", "serving", "ok", "failed"}]
    BY <1>2 DEF Loads, TypeOK
  <2>3. pending' \subseteq Calls /\ disturbed' \subseteq Calls
    BY <1>2 DEF Loads, TypeOK, Watching
  <2> QED BY <2>1, <2>2, <2>3, LoadType DEF TypeOK
<1>3. ASSUME NEW c \in Calls, KeepsLoaded(c) PROVE TypeOK'
  BY <1>3 DEF KeepsLoaded, TypeOK
<1>4. ASSUME NEW c \in Calls, Refuses(c) PROVE TypeOK'
  BY <1>4 DEF Refuses, TypeOK
<1>5. ASSUME NEW m \in Models, Unload(m) PROVE TypeOK'
  <2>1. pc' \in [Calls -> {"idle", "loading", "ready", "serving", "ok", "failed"}]
    BY <1>5 DEF Unload, TypeOK
  <2>2. disturbed' \subseteq Calls
    BY <1>5 DEF Unload, TypeOK, Watching
  <2>3. unloads' \in 0..MaxUnloads
    BY <1>5, MaxUnloadsAssumption DEF Unload, TypeOK
  <2> QED BY <1>5, <2>1, <2>2, <2>3 DEF Unload, TypeOK
<1>6. CASE UNCHANGED vars
  BY <1>6 DEF vars, TypeOK
<1> QED BY <1>1, <1>2, <1>3, <1>4, <1>5, <1>6 DEF Next

LEMMA TypeInit == Init => TypeOK
<1> SUFFICES ASSUME Init PROVE TypeOK
  OBVIOUS
<1>1. unloads \in 0..MaxUnloads
  BY MaxUnloadsAssumption DEF Init
<1> QED BY <1>1 DEF Init, TypeOK

(* The state has its type, and Unsloth never holds two models.             *)
THEOREM TypeCorrect == Spec => []TypeOK
BY TypeInit, TypeStep, PTL DEF Spec

-----------------------------------------------------------------------------
(* What makes ServedAsAsked and OnlyDemandCutsOff inductive.               *)

(* A model is loaded again only where that is asked for, by a call that    *)
(* wants parameters of its own; and only LM Studio has a CLI.              *)
PostedInv ==
  \A c \in Calls :
    /\ how[c] = "cli" => provider = "lm_studio"
    /\ how[c] = "force" => Given(c)
    /\ pc[c] = "idle" => how[c] = "none"

(* A plain load was posted because the model was not there, and so it is   *)
(* while nobody else has changed that.                                     *)
PlainInv ==
  \A c \in Calls \ disturbed :
    pc[c] = "loading" /\ how[c] = "load" /\ provider = "llama_cpp" => ~Listed(c)

(* An undisturbed call fits from the end of its load on.                   *)
FitInv ==
  \A c \in Calls \ disturbed :
    pc[c] \in {"ready", "serving"} /\ (provider = "lm_studio" => how[c] = "load") => Fits(c)

(* A call is served by a model that is there.                              *)
ServingInv ==
  \A c \in Calls : pc[c] = "serving" /\ provider # "unsloth" => Listed(c)

LoadInv == TypeOK /\ PostedInv /\ PlainInv /\ FitInv /\ ServingInv

(* A call's own model, loaded with what it asked for, fits.                *)
LEMMA BodyFits ==
  ASSUME TypeOK, NEW c \in Calls, how[c] # "cli", UNCHANGED <<provider, asked>>,
         memory'[Model(c)] = Body(c)
  PROVE  Fits(c)'
<1>1. Model(c) \in Models /\ Body(c) = asked[c].config /\ Body(c) # Absent
  BY ConfigFacts DEF Body
<1> QED BY <1>1 DEF Fits, Listed, Model

(* Steps that only move one call, and change neither its load nor the      *)
(* server.                                                                 *)
LEMMA MoveStep ==
  ASSUME LoadInv, NEW c \in Calls, NEW s \in {"failed", "ok", "serving"},
         pc' = [pc EXCEPT ![c] = s],
         s = "serving" => pc[c] = "ready" /\ (provider # "unsloth" => Listed(c)),
         UNCHANGED <<provider, asked, memory, how, disturbed>>
  PROVE  PostedInv' /\ PlainInv' /\ FitInv' /\ ServingInv'
<1>1. pc \in [Calls -> {"idle", "loading", "ready", "serving", "ok", "failed"}]
  BY DEF LoadInv, TypeOK
<1>2. \A d \in Calls : (Listed(d)' <=> Listed(d)) /\ (Fits(d)' <=> Fits(d)) /\ (Given(d)' <=> Given(d))
  BY DEF Listed, Fits, Given, Model
<1>3. PostedInv'
  BY <1>1, <1>2 DEF LoadInv, PostedInv
<1>4. PlainInv'
  BY <1>1, <1>2 DEF LoadInv, PlainInv
<1>5. FitInv'
  BY <1>1, <1>2 DEF LoadInv, FitInv
<1>6. ServingInv'
  BY <1>1, <1>2 DEF LoadInv, ServingInv
<1> QED BY <1>3, <1>4, <1>5, <1>6

(* What a load does to the model of another call d that is neither cut off *)
(* nor watching: nothing, unless that model was absent.                    *)
LEMMA LoadSpares ==
  ASSUME LoadInv, NEW c \in Calls, Loads(c), NEW d \in Calls,
         pc[d] = "serving", pc'[d] = "serving"
  PROVE  /\ provider # "unsloth" \/ how[c] = "cli"
         /\ Listed(d) => memory'[Model(d)] = memory[Model(d)]
<1>0. Model(d) \in Models /\ Model(c) \in Models
  BY ConfigFacts DEF LoadInv
<1>1. memory \in [Models -> Config \cup {Absent}]
  BY DEF LoadInv, TypeOK
<1>2. memory' = MemoryAfter(c)
  BY DEF Loads
<1>3. how[c] = "cli" \/ d \notin CutOff({Model(c)})
  BY DEF Loads
<1>4. how[c] = "cli" => provider # "unsloth"
  BY DEF LoadInv, PostedInv
<1>5. how[c] = "cli" \/ (provider # "unsloth" /\ Model(d) # Model(c))
  BY <1>3 DEF CutOff
<1>6. CASE how[c] = "cli"
  <2>1. CASE Listed(c)
    BY <1>2, <1>4, <1>6, <2>1 DEF MemoryAfter
  <2>2. CASE ~Listed(c)
    <3>1. memory' = [memory EXCEPT ![Model(c)] = Body(c)]
      BY <1>2, <1>4, <1>6, <2>2 DEF MemoryAfter
    <3>2. Listed(d) => Model(d) # Model(c)
      BY <2>2 DEF Listed
    <3> QED BY <1>0, <1>1, <1>6, <3>1, <3>2
  <2> QED BY <2>1, <2>2
<1>7. CASE provider # "unsloth" /\ Model(d) # Model(c)
  <2>1. memory' = memory \/ memory' = [memory EXCEPT ![Model(c)] = Body(c)]
    BY <1>2, <1>7 DEF MemoryAfter
  <2> QED BY <1>0, <1>1, <1>7, <2>1
<1> QED BY <1>5, <1>6, <1>7

LEMMA LoadsStep ==
  ASSUME LoadInv, NEW c \in Calls, Loads(c)
  PROVE  PostedInv' /\ PlainInv' /\ FitInv' /\ ServingInv'
<1>0. UNCHANGED <<provider, asked, how>> /\ memory' = MemoryAfter(c)
  BY DEF Loads
<1>1. \A d \in Calls : pc'[d] = pc[d] \/ pc'[d] = "failed"
                         \/ (d = c /\ pc[d] = "loading" /\ pc'[d] = "ready")
  BY DEF Loads
<1>2. \A d \in Calls \ disturbed' :
        d \notin disturbed /\ (d = c \/ pc[d] \notin {"loading", "ready"})
  BY DEF Loads, Watching
<1>3. PostedInv'
  BY <1>0, <1>1 DEF LoadInv, PostedInv, Given
<1>4. PlainInv'
  <2> SUFFICES ASSUME NEW d \in Calls \ disturbed', pc'[d] = "loading" PROVE FALSE
    BY DEF PlainInv
  <2>1. d = c /\ pc[d] = "loading"
    BY <1>1, <1>2
  <2> QED BY <2>1 DEF Loads
<1>5. FitInv'
  <2> SUFFICES ASSUME NEW d \in Calls \ disturbed', pc'[d] \in {"ready", "serving"},
                      provider = "lm_studio" => how[d] = "load"
               PROVE  Fits(d)'
    BY <1>0 DEF FitInv
  <2>1. CASE d = c /\ pc[d] # "serving"
    <3>1. how[c] # "cli"
      BY <2>1 DEF LoadInv, PostedInv
    <3>2. memory' = [m \in Models |-> IF m = Model(c) THEN Body(c) ELSE Absent]
            \/ memory' = [memory EXCEPT ![Model(c)] = Body(c)]
      BY <1>0, <3>1 DEF MemoryAfter
    <3>3. Model(c) \in Models /\ memory \in [Models -> Config \cup {Absent}]
      BY ConfigFacts DEF LoadInv, TypeOK
    <3>4. memory'[Model(c)] = Body(c)
      BY <3>2, <3>3
    <3>5. TypeOK /\ UNCHANGED <<provider, asked>>
      BY <1>0 DEF LoadInv
    <3> QED BY <2>1, <3>1, <3>4, <3>5, BodyFits
  <2>2. CASE pc[d] = "serving"
    <3>1. pc'[d] = "serving" /\ d \notin disturbed
      BY <1>1, <1>2, <2>2
    <3>2. Fits(d)
      BY <2>2, <3>1 DEF LoadInv, FitInv
    <3>3. memory'[Model(d)] = memory[Model(d)]
      BY <2>2, <3>1, <3>2, LoadSpares DEF Fits
    <3> QED BY <1>0, <3>2, <3>3 DEF Fits, Listed, Model
  <2>3. pc[d] = "serving" \/ (d = c /\ pc[d] # "serving")
    BY <1>1, <1>2
  <2> QED BY <2>1, <2>2, <2>3
<1>6. ServingInv'
  <2> SUFFICES ASSUME NEW d \in Calls, pc'[d] = "serving", provider # "unsloth"
               PROVE  Listed(d)'
    BY <1>0 DEF ServingInv
  <2>1. pc[d] = "serving"
    BY <1>1
  <2>2. Listed(d)
    BY <2>1 DEF LoadInv, ServingInv
  <2>3. memory'[Model(d)] = memory[Model(d)]
    BY <2>1, <2>2, LoadSpares
  <2> QED BY <1>0, <2>2, <2>3 DEF Listed, Model
<1> QED BY <1>3, <1>4, <1>5, <1>6

(* Steps in which a call decides: it is ready if nothing has to be loaded, *)
(* and has posted a load otherwise.                                        *)
LEMMA BeginStep ==
  ASSUME LoadInv, NEW c \in Calls, Skip(c) \/ Post(c) \/ PostUnlisted(c)
  PROVE  PostedInv' /\ PlainInv' /\ FitInv' /\ ServingInv'
<1>0. UNCHANGED <<provider, asked, memory, disturbed>>
  BY DEF Skip, Post, PostUnlisted
<1>1. /\ pc \in [Calls -> {"idle", "loading", "ready", "serving", "ok", "failed"}]
      /\ how \in [Calls -> {"none", "load", "force", "cli"}]
      /\ provider \in {"llama_cpp", "lm_studio", "unsloth"}
  BY ProvidersAssumption DEF LoadInv, TypeOK
<1>2. \A d \in Calls : (Listed(d)' <=> Listed(d)) /\ (Fits(d)' <=> Fits(d)) /\ (Given(d)' <=> Given(d))
  BY <1>0 DEF Listed, Fits, Given, Model
<1>3. CASE Skip(c)
  <2>1. pc' = [pc EXCEPT ![c] = "ready"] /\ how' = how /\ Sufficient(c)
    BY <1>3 DEF Skip
  <2>2. provider # "lm_studio" => Fits(c)
    <3>1. CASE provider = "llama_cpp"
      BY <2>1, <3>1 DEF Sufficient, Fits, Given, Plain
    <3>2. CASE provider = "unsloth"
      BY <2>1, <3>2 DEF Sufficient, Fits
    <3> QED BY <1>1, <3>1, <3>2
  <2>3. pc[c] = "idle"
    BY <1>3 DEF Skip, Begin
  <2> QED BY <1>0, <1>1, <1>2, <2>1, <2>2, <2>3 DEF LoadInv, PostedInv, PlainInv, FitInv, ServingInv
<1>4. CASE Post(c)
  <2>1. pc' = [pc EXCEPT ![c] = "loading"] /\ how' = [how EXCEPT ![c] = Posted(c)] /\ ~Sufficient(c)
    BY <1>4 DEF Post
  <2>2. /\ Posted(c) = "cli" => provider = "lm_studio"
        /\ Posted(c) = "force" => Given(c)
        /\ Posted(c) = "load" /\ provider = "llama_cpp" => ~Listed(c)
    BY <2>1 DEF Posted, Sufficient
  <2> QED BY <1>0, <1>1, <1>2, <2>1, <2>2 DEF LoadInv, PostedInv, PlainInv, FitInv, ServingInv
<1>5. CASE PostUnlisted(c)
  <2>1. pc' = [pc EXCEPT ![c] = "loading"] /\ how' = [how EXCEPT ![c] = "load"] /\ provider = "lm_studio"
    BY <1>5 DEF PostUnlisted
  <2> QED BY <1>0, <1>1, <1>2, <2>1 DEF LoadInv, PostedInv, PlainInv, FitInv, ServingInv
<1> QED BY <1>3, <1>4, <1>5

(* A chat request that makes the server load its model.                    *)
LEMMA ChatLoadsStep ==
  ASSUME LoadInv, NEW c \in Calls, ChatLoads(c)
  PROVE  PostedInv' /\ PlainInv' /\ FitInv' /\ ServingInv'
<1>0. /\ UNCHANGED <<provider, asked, how>> /\ provider # "unsloth"
      /\ ~Listed(c) /\ pc[c] = "ready"
      /\ memory' = [memory EXCEPT ![Model(c)] = Plain]
      /\ pc' = [pc EXCEPT ![c] = "serving"]
      /\ disturbed' = disturbed \cup (Watching \ {c})
  BY DEF ChatLoads
<1>1. /\ pc \in [Calls -> {"idle", "loading", "ready", "serving", "ok", "failed"}]
      /\ memory \in [Models -> Config \cup {Absent}]
  BY DEF LoadInv, TypeOK
<1>2. Plain # Absent /\ \A d \in Calls : Model(d) \in Models
  BY ConfigFacts DEF LoadInv
<1>3. \A d \in Calls : Listed(d) => memory'[Model(d)] = memory[Model(d)]
  BY <1>0, <1>1, <1>2 DEF Listed
<1>4. PostedInv'
  BY <1>0, <1>1 DEF LoadInv, PostedInv, Given
<1>5. PlainInv'
  BY <1>0, <1>1 DEF PlainInv, Watching
<1>6. FitInv'
  <2> SUFFICES ASSUME NEW d \in Calls \ disturbed', pc'[d] \in {"ready", "serving"},
                      provider = "lm_studio" => how[d] = "load"
               PROVE  Fits(d)'
    BY <1>0 DEF FitInv
  <2>1. d \notin disturbed /\ pc[d] \in {"ready", "serving"}
    BY <1>0, <1>1
  <2>2. Fits(d)
    BY <2>1 DEF LoadInv, FitInv
  <2>3. memory'[Model(d)] = memory[Model(d)]
    BY <1>3, <2>2 DEF Fits
  <2> QED BY <1>0, <2>2, <2>3 DEF Fits, Listed, Model
<1>7. ServingInv'
  <2> SUFFICES ASSUME NEW d \in Calls, pc'[d] = "serving" PROVE Listed(d)'
    BY DEF ServingInv
  <2>1. CASE d = c
    BY <1>0, <1>1, <1>2, <2>1 DEF Listed, Model
  <2>2. CASE d # c
    <3>1. Listed(d)
      BY <1>0, <1>1, <2>2 DEF LoadInv, ServingInv
    <3> QED BY <1>0, <1>3, <3>1 DEF Listed, Model
  <2> QED BY <2>1, <2>2
<1> QED BY <1>4, <1>5, <1>6, <1>7

(* A model is unloaded by somebody else.                                   *)
LEMMA UnloadStep ==
  ASSUME LoadInv, NEW m \in Models, Unload(m)
  PROVE  PostedInv' /\ PlainInv' /\ FitInv' /\ ServingInv'
<1>0. /\ UNCHANGED <<provider, asked, how>>
      /\ memory' = [memory EXCEPT ![m] = Absent]
      /\ pc' = [d \in Calls |-> IF d \in CutOff({m}) THEN "failed" ELSE pc[d]]
      /\ disturbed' = disturbed \cup Watching
  BY DEF Unload
<1>1. /\ pc \in [Calls -> {"idle", "loading", "ready", "serving", "ok", "failed"}]
      /\ memory \in [Models -> Config \cup {Absent}]
  BY DEF LoadInv, TypeOK
<1>2. PostedInv'
  BY <1>0 DEF LoadInv, PostedInv, Given
<1>3. PlainInv'
  BY <1>0 DEF PlainInv, Watching
<1>4. \A d \in Calls : pc'[d] = "serving" =>
        pc[d] = "serving" /\ provider # "unsloth" /\ memory'[Model(d)] = memory[Model(d)]
  <2> SUFFICES ASSUME NEW d \in Calls, pc'[d] = "serving"
               PROVE  pc[d] = "serving" /\ provider # "unsloth" /\ memory'[Model(d)] = memory[Model(d)]
    OBVIOUS
  <2>1. pc[d] = "serving" /\ d \notin CutOff({m})
    BY <1>0
  <2>2. provider # "unsloth" /\ Model(d) # m
    BY <2>1 DEF CutOff
  <2>3. Model(d) \in Models
    BY ConfigFacts DEF LoadInv
  <2> QED BY <1>0, <1>1, <2>1, <2>2, <2>3
<1>5. FitInv'
  <2> SUFFICES ASSUME NEW d \in Calls \ disturbed', pc'[d] \in {"ready", "serving"},
                      provider = "lm_studio" => how[d] = "load"
               PROVE  Fits(d)'
    BY <1>0 DEF FitInv
  <2>1. d \notin disturbed /\ pc'[d] = "serving"
    BY <1>0 DEF Watching
  <2>2. Fits(d)
    BY <1>4, <2>1 DEF LoadInv, FitInv
  <2> QED BY <1>0, <1>4, <2>1, <2>2 DEF Fits, Listed, Model
<1>6. ServingInv'
  BY <1>0, <1>4 DEF LoadInv, ServingInv, Listed, Model
<1> QED BY <1>2, <1>3, <1>5, <1>6

(* llama.cpp has the model already: that disturbed the call.               *)
LEMMA KeepsLoadedStep ==
  ASSUME LoadInv, NEW c \in Calls, KeepsLoaded(c)
  PROVE  PostedInv' /\ PlainInv' /\ FitInv' /\ ServingInv'
<1>0. /\ UNCHANGED <<provider, asked, memory, how, disturbed>>
      /\ pc' = IF pc[c] = "loading" THEN [pc EXCEPT ![c] = "ready"] ELSE pc
      /\ provider = "llama_cpp" /\ Listed(c) /\ how[c] = "load"
  BY DEF KeepsLoaded
<1>1. pc \in [Calls -> {"idle", "loading", "ready", "serving", "ok", "failed"}]
  BY DEF LoadInv, TypeOK
<1>2. \A d \in Calls : (Listed(d)' <=> Listed(d)) /\ (Fits(d)' <=> Fits(d)) /\ (Given(d)' <=> Given(d))
  BY <1>0 DEF Listed, Fits, Given, Model
<1>3. pc[c] = "loading" => c \in disturbed
  BY <1>0 DEF LoadInv, PlainInv
<1>4. PostedInv'
  BY <1>0, <1>1, <1>2 DEF LoadInv, PostedInv
<1>5. PlainInv' /\ FitInv' /\ ServingInv'
  BY <1>0, <1>1, <1>2, <1>3 DEF LoadInv, PlainInv, FitInv, ServingInv
<1> QED BY <1>4, <1>5

(* The server's refusal ends the call, or comes too late to matter.        *)
LEMMA RefusesStep ==
  ASSUME LoadInv, NEW c \in Calls, Refuses(c)
  PROVE  PostedInv' /\ PlainInv' /\ FitInv' /\ ServingInv'
<1>0. /\ UNCHANGED <<provider, asked, memory, how, disturbed>>
      /\ pc' = [pc EXCEPT ![c] = "failed"] \/ pc' = pc
  BY DEF Refuses
<1>1. CASE pc' = [pc EXCEPT ![c] = "failed"]
  BY <1>0, <1>1, MoveStep
<1>2. CASE pc' = pc
  BY <1>0, <1>2 DEF LoadInv, PostedInv, PlainInv, FitInv, ServingInv, Given, Listed, Fits, Model
<1> QED BY <1>0, <1>1, <1>2

LEMMA LoadInvStep == LoadInv /\ [Next]_vars => LoadInv'
<1> SUFFICES ASSUME LoadInv, [Next]_vars PROVE LoadInv'
  OBVIOUS
<1>1. TypeOK'
  BY TypeStep DEF LoadInv
<1>2. ASSUME NEW c \in Calls, Progress(c)
      PROVE  PostedInv' /\ PlainInv' /\ FitInv' /\ ServingInv'
  <2>1. CASE Skip(c) \/ Post(c) \/ PostUnlisted(c)
    BY <2>1, BeginStep
  <2>2. CASE CheckFails(c) \/ Abandon(c)
    <3>1. pc' = [pc EXCEPT ![c] = "failed"] /\ UNCHANGED <<provider, asked, memory, how, disturbed>>
      BY <2>2 DEF CheckFails, Abandon
    <3> QED BY <3>1, MoveStep
  <2>3. CASE Chat(c)
    <3>1. /\ pc' = [pc EXCEPT ![c] = "serving"] /\ UNCHANGED <<provider, asked, memory, how, disturbed>>
          /\ pc[c] = "ready" /\ (provider # "unsloth" => Listed(c))
      BY <2>3 DEF Chat
    <3> QED BY <3>1, MoveStep
  <2>4. CASE ChatLoads(c)
    BY <2>4, ChatLoadsStep
  <2>5. CASE Answered(c)
    <3>1. pc' = [pc EXCEPT ![c] = "ok"] /\ UNCHANGED <<provider, asked, memory, how, disturbed>>
      BY <2>5 DEF Answered
    <3> QED BY <3>1, MoveStep
  <2> QED BY <1>2, <2>1, <2>2, <2>3, <2>4, <2>5 DEF Progress
<1>3. CASE UNCHANGED vars
  BY <1>1, <1>3 DEF vars, LoadInv, PostedInv, PlainInv, FitInv, ServingInv, Given, Listed, Fits, Model
<1> QED BY <1>1, <1>2, <1>3, LoadsStep, KeepsLoadedStep, RefusesStep, UnloadStep DEF Next, LoadInv

LEMMA LoadInvInit == Init => LoadInv
BY TypeInit DEF Init, LoadInv, PostedInv, PlainInv, FitInv, ServingInv

LEMMA LoadInvCorrect == Spec => []LoadInv
BY LoadInvInit, LoadInvStep, PTL DEF Spec

(* A call under whose check and load nobody else changed the server is     *)
(* served by the model, and under the parameters, it asked for.            *)
THEOREM CallsAreServedAsAsked == Spec => []ServedAsAsked
<1>1. LoadInv => ServedAsAsked
  BY DEF LoadInv, FitInv, ServedAsAsked
<1> QED BY <1>1, LoadInvCorrect, PTL

(* A first load of a model, or a late one, takes no model from under a     *)
(* request: only a load with parameters of its own may.                    *)
THEOREM FirstLoadsDisturbNobody == Spec => OnlyDemandCutsOff
<1> DEFINE Allowed == \A d \in Calls :
       pc[d] = "serving" /\ pc'[d] = "failed" /\ memory[Model(d)] # memory'[Model(d)]
         /\ provider # "unsloth" /\ unloads' = unloads
       => \E c \in pending \ pending' : Given(c) /\ how[c] = "force"
<1>1. LoadInv /\ [Next]_vars => [Allowed]_vars
  <2> SUFFICES ASSUME LoadInv, Next, NEW d \in Calls,
                      pc[d] = "serving", pc'[d] = "failed", memory[Model(d)] # memory'[Model(d)],
                      provider # "unsloth", unloads' = unloads
               PROVE  \E c \in pending \ pending' : Given(c) /\ how[c] = "force"
    OBVIOUS
  <2>1. Listed(d) /\ Model(d) \in Models /\ memory \in [Models -> Config \cup {Absent}]
    BY ConfigFacts DEF LoadInv, ServingInv, TypeOK
  <2>2. ASSUME NEW c \in Calls, Loads(c)
        PROVE  Given(c) /\ how[c] = "force" /\ c \in pending \ pending'
    <3>1. memory' = MemoryAfter(c) /\ c \in pending \ pending'
      BY <2>2 DEF Loads
    <3>2. ~(how[c] = "cli" /\ Listed(c)) /\ memory' = [memory EXCEPT ![Model(c)] = Body(c)]
      BY <3>1 DEF MemoryAfter
    <3>3. Model(d) = Model(c) /\ Listed(c)
      BY <2>1, <3>2 DEF Listed
    <3>4. how[c] = "force"
      BY <2>2, <3>2, <3>3 DEF Loads
    <3> QED BY <3>1, <3>4 DEF LoadInv, PostedInv
  <2>3. ASSUME NEW c \in Calls, ChatLoads(c) PROVE FALSE
    <3>1. memory' = [memory EXCEPT ![Model(c)] = Plain] /\ ~Listed(c)
      BY <2>3 DEF ChatLoads
    <3>2. Model(d) # Model(c)
      BY <2>1, <3>1 DEF Listed
    <3> QED BY <2>1, <3>1, <3>2
  <2>4. ASSUME NEW m \in Models, Unload(m) PROVE FALSE
    BY <2>4, MaxUnloadsAssumption DEF Unload, LoadInv, TypeOK
  <2>5. memory' = memory \/ (\E c \in Calls : Loads(c) \/ ChatLoads(c)) \/ (\E m \in Models : Unload(m))
    BY DEF Next, Progress, Skip, Post, PostUnlisted, CheckFails, Abandon, Chat, Answered,
           KeepsLoaded, Refuses
  <2> QED BY <2>2, <2>3, <2>4, <2>5
<1> QED BY <1>1, LoadInvCorrect, PTL DEF Spec, OnlyDemandCutsOff

-----------------------------------------------------------------------------
(* What makes NoNeedlessLoad inductive: a load of Unsloth was posted       *)
(* because what is loaded does not do, and so it is while nobody else has  *)
(* changed that.                                                           *)
NeedInv ==
  \A c \in Calls \ disturbed :
    pc[c] = "loading" /\ provider = "unsloth" => asked[c].config.tuning # Unset \/ ~Fits(c)

LEMMA NeedStep == TypeOK /\ NeedInv /\ [Next]_vars => NeedInv'
<1> SUFFICES ASSUME TypeOK, NeedInv, [Next]_vars,
                    NEW d \in Calls \ disturbed', pc'[d] = "loading", provider' = "unsloth"
             PROVE  asked'[d].config.tuning # Unset \/ ~Fits(d)'
  BY DEF NeedInv
<1> DEFINE Needed == asked[d].config.tuning # Unset \/ ~Fits(d)
<1>1. pc \in [Calls -> {"idle", "loading", "ready", "serving", "ok", "failed"}]
  BY DEF TypeOK
<1>2. UNCHANGED <<provider, asked>>
  <2>1. ASSUME NEW c \in Calls, Progress(c) PROVE UNCHANGED <<provider, asked>>
    BY <2>1 DEF Progress, Skip, Post, PostUnlisted, CheckFails, Abandon, Chat, ChatLoads, Answered
  <2>2. ASSUME NEW c \in Calls, Loads(c) \/ KeepsLoaded(c) \/ Refuses(c)
        PROVE  UNCHANGED <<provider, asked>>
    BY <2>2 DEF Loads, KeepsLoaded, Refuses
  <2>3. ASSUME NEW m \in Models, Unload(m) PROVE UNCHANGED <<provider, asked>>
    BY <2>3 DEF Unload
  <2> QED BY <2>1, <2>2, <2>3 DEF Next, vars
<1>3. ASSUME memory' = memory, Needed PROVE asked'[d].config.tuning # Unset \/ ~Fits(d)'
  BY <1>2, <1>3 DEF Fits, Listed, Model
<1>4. ASSUME memory' = memory, disturbed' = disturbed, pc[d] = "loading"
      PROVE  asked'[d].config.tuning # Unset \/ ~Fits(d)'
  <2>1. Needed
    BY <1>2, <1>4 DEF NeedInv
  <2> QED BY <1>3, <1>4, <2>1
<1>5. ASSUME NEW c \in Calls, Post(c), c = d PROVE asked'[d].config.tuning # Unset \/ ~Fits(d)'
  <2>1. ~Sufficient(d) /\ memory' = memory
    BY <1>5 DEF Post
  <2>2. Needed
    BY <1>2, <2>1 DEF Sufficient, Fits
  <2> QED BY <1>3, <2>1, <2>2
<1>6. ASSUME NEW c \in Calls, Progress(c), ~(Post(c) /\ c = d)
      PROVE  asked'[d].config.tuning # Unset \/ ~Fits(d)'
  <2>1. ~PostUnlisted(c) /\ ~ChatLoads(c)
    BY <1>2 DEF PostUnlisted, ChatLoads
  <2>2. memory' = memory /\ disturbed' = disturbed /\ pc[d] = "loading"
    BY <1>1, <1>6, <2>1 DEF Progress, Skip, Post, CheckFails, Abandon, Chat, Answered
  <2> QED BY <1>4, <2>2
<1>7. ASSUME NEW c \in Calls, Loads(c) PROVE FALSE
  BY <1>1, <1>7 DEF Loads, Watching
<1>8. ASSUME NEW c \in Calls, KeepsLoaded(c) \/ Refuses(c)
      PROVE  asked'[d].config.tuning # Unset \/ ~Fits(d)'
  <2>1. memory' = memory /\ disturbed' = disturbed /\ pc[d] = "loading"
    BY <1>1, <1>8 DEF KeepsLoaded, Refuses
  <2> QED BY <1>4, <2>1
<1>9. ASSUME NEW m \in Models, Unload(m) PROVE FALSE
  BY <1>1, <1>9 DEF Unload, Watching
<1>10. CASE UNCHANGED vars
  BY <1>4, <1>10 DEF vars
<1> QED BY <1>5, <1>6, <1>7, <1>8, <1>9, <1>10 DEF Next

(* Unsloth is made to load only what was not there, or what only a load    *)
(* can set, unless the model came up after the call had looked.            *)
THEOREM UnslothIsSpared == Spec => NoNeedlessLoad
<1> DEFINE Allowed == \A c \in (pending \ pending') \ disturbed :
       provider = "unsloth" /\ pc[c] = "loading" /\ pc'[c] = "ready"
       => asked[c].config.tuning # Unset \/ ~Fits(c)
<1>1. Init => TypeOK /\ NeedInv
  BY TypeInit DEF Init, NeedInv
<1>2. TypeOK /\ NeedInv /\ [Next]_vars => TypeOK' /\ NeedInv'
  BY TypeStep, NeedStep
<1>3. TypeOK /\ NeedInv => [Allowed]_vars
  BY DEF TypeOK, NeedInv
<1> QED BY <1>1, <1>2, <1>3, PTL DEF Spec, NoNeedlessLoad

=============================================================================
