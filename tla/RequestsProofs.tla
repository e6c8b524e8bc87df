--------------------------- MODULE RequestsProofs ---------------------------
(***************************************************************************)
(* Theorems about what a call asks for and how a structured answer is      *)
(* read: the merging of arguments and options, for every set of settings   *)
(* that layers may give and every sequence of configure(), load_model()    *)
(* and calls; and the JSON repair, for every document and every reply it   *)
(* stands in.                                                              *)
(***************************************************************************)
EXTENDS Requests, JsonReply, SequenceTheorems, FiniteSetTheorems, WellFoundedInduction, TLAPS

-----------------------------------------------------------------------------
(* Dictionaries.                                                           *)

LEMMA OverLemma ==
  ASSUME NEW f, NEW g
  PROVE  /\ DOMAIN Over(f, g) = DOMAIN f \cup DOMAIN g
         /\ \A k \in DOMAIN f : Over(f, g)[k] = f[k]
         /\ \A k \in DOMAIN g \ DOMAIN f : Over(f, g)[k] = g[k]
BY DEF Over

LEMMA OverAt ==
  ASSUME NEW f, NEW g, NEW k
  PROVE  /\ k \in DOMAIN f => Carries(Over(f, g), k, f[k])
         /\ k \notin DOMAIN f /\ k \in DOMAIN g => Carries(Over(f, g), k, g[k])
<1>1. /\ DOMAIN Over(f, g) = DOMAIN f \cup DOMAIN g
      /\ \A i \in DOMAIN f : Over(f, g)[i] = f[i]
      /\ \A i \in DOMAIN g \ DOMAIN f : Over(f, g)[i] = g[i]
  BY OverLemma
<1> QED BY <1>1 DEF Carries

LEMMA OverType ==
  ASSUME NEW S, NEW f, NEW g, f \in [DOMAIN f -> S], g \in [DOMAIN g -> S]
  PROVE  Over(f, g) \in [DOMAIN Over(f, g) -> S]
BY DEF Over

LEMMA OnlyLemma ==
  ASSUME NEW f, NEW K
  PROVE  /\ DOMAIN Only(f, K) = DOMAIN f \cap K
         /\ \A k \in DOMAIN f \cap K : Only(f, K)[k] = f[k]
         /\ \A S : f \in [DOMAIN f -> S] => Only(f, K) \in [DOMAIN Only(f, K) -> S]
BY DEF Only

LEMMA WithoutLemma ==
  ASSUME NEW f, NEW K
  PROVE  /\ DOMAIN Without(f, K) = DOMAIN f \ K
         /\ \A k \in DOMAIN f \ K : Without(f, K)[k] = f[k]
         /\ \A S : f \in [DOMAIN f -> S] => Without(f, K) \in [DOMAIN Without(f, K) -> S]
BY DEF Without

LEMMA NamedLemma ==
  ASSUME NEW j, NEW k, NEW f
  PROVE  /\ DOMAIN Named(j, k, f) = IF k \in DOMAIN f THEN {j} ELSE {}
         /\ k \in DOMAIN f => Named(j, k, f)[j] = f[k]
         /\ \A S : f \in [DOMAIN f -> S] => Named(j, k, f) \in [DOMAIN Named(j, k, f) -> S]
<1>1. DOMAIN Named(j, k, f) = IF k \in DOMAIN f THEN {j} ELSE {}
  BY DEF Named
<1>2. \A i \in DOMAIN Named(j, k, f) : Named(j, k, f)[i] = f[k]
  BY DEF Named
<1>3. ASSUME NEW S, f \in [DOMAIN f -> S]
      PROVE  Named(j, k, f) \in [DOMAIN Named(j, k, f) -> S]
  BY <1>3 DEF Named
<1> QED BY <1>1, <1>2, <1>3

(* A set of settings of one program.                                       *)
Settings(S) == S \subseteq {"arg", "options", "load_params"} \X STRING

LEMMA DictLemma ==
  ASSUME NEW where, NEW layer, NEW S, Settings(S)
  PROVE  /\ \A k : k \in DOMAIN Dict(where, layer, S) <=> <<where, k>> \in S
         /\ \A k \in DOMAIN Dict(where, layer, S) : Dict(where, layer, S)[k] = layer
         /\ Dict(where, layer, S) \in [DOMAIN Dict(where, layer, S) -> {layer}]
<1> DEFINE D == {s[2] : s \in {t \in S : t[1] = where}}
<1>1. \A s \in S : s = <<s[1], s[2]>>
  BY DEF Settings
<1>2. \A k : k \in D <=> <<where, k>> \in S
  BY <1>1
<1>3. DOMAIN Dict(where, layer, S) = D /\ \A k \in D : Dict(where, layer, S)[k] = layer
  BY DEF Dict
<1>4. Dict(where, layer, S) \in [D -> {layer}]
  BY DEF Dict
<1> HIDE DEF D
<1> QED BY <1>2, <1>3, <1>4

LEMMA ArgsLemma ==
  ASSUME NEW layer, NEW S, Settings(S)
  PROVE  /\ \A k : <<"arg", k>> \in S => k \in DOMAIN Args(layer, S)
         /\ \A k \in DOMAIN Args(layer, S) : <<"arg", k>> \in S \/ k = "load_params"
         /\ \A k \in DOMAIN Args(layer, S) : Args(layer, S)[k] = layer
         /\ Args(layer, S) \in [DOMAIN Args(layer, S) -> {layer}]
         /\ (\A s \in S : s[1] = "arg") =>
              \A k \in DOMAIN Args(layer, S) : <<"arg", k>> \in S
<1> DEFINE A == {s[2] : s \in {t \in S : t[1] = "arg"}}
           L == {t[1] : t \in {u \in S : u[1] = "load_params"}}
<1>1. \A s \in S : s = <<s[1], s[2]>>
  BY DEF Settings
<1>2. \A k : k \in A <=> <<"arg", k>> \in S
  BY <1>1
<1>3. \A k \in L : k = "load_params"
  OBVIOUS
<1>4. DOMAIN Args(layer, S) = A \cup L /\ \A k \in A \cup L : Args(layer, S)[k] = layer
  BY DEF Args
<1>5. Args(layer, S) \in [A \cup L -> {layer}]
  BY DEF Args
<1>6. (\A s \in S : s[1] = "arg") => L = {}
  OBVIOUS
<1> HIDE DEF A, L
<1> QED BY <1>2, <1>3, <1>4, <1>5, <1>6

LEMMA Widened ==
  ASSUME NEW S, NEW T, S \subseteq T, NEW f, f \in [DOMAIN f -> S]
  PROVE  f \in [DOMAIN f -> T]
OBVIOUS

LEMMA NothingType == \A S : Nothing \in [DOMAIN Nothing -> S]
BY DEF Nothing

LEMMA ModelIsDict ==
  /\ DOMAIN [model |-> "load"] = {"model"}
  /\ [model |-> "load"] \in [DOMAIN [model |-> "load"] -> LayerSet]
BY DEF LayerSet

-----------------------------------------------------------------------------
(* Types.                                                                  *)

Types ==
  /\ TypeOK
  /\ \A k \in DOMAIN server_defaults : k \in ServerParams /\ <<"arg", k>> \in focus

LEMMA FocusIsSettings ==
  ASSUME TypeOK
  PROVE  Settings(focus) /\ \A S \in SUBSET focus : Settings(S)
BY FocusesAssumption DEF TypeOK, Settings

LEMMA InitTypes == Init => Types
<1> SUFFICES ASSUME Init PROVE Types
  OBVIOUS
<1>1. \A S : Nothing \in [DOMAIN Nothing -> S]
  BY NothingType
<1>2. DOMAIN Nothing = {}
  BY DEF Nothing
<1>3. given \in [LayerSet -> SUBSET focus]
  BY DEF Init
<1> QED BY <1>1, <1>2, <1>3 DEF Init, Types, TypeOK, IsDict

LEMMA ConfigureTypes ==
  ASSUME Types, NEW S \in SUBSET focus, S \subseteq {"arg"} \X ServerParams, Configure(S)
  PROVE  Types'
<1> DEFINE new == Args("configured", S)
<1>1. Settings(S)
  BY FocusIsSettings DEF Types
<1>2. new \in [DOMAIN new -> {"configured"}]
  BY <1>1, ArgsLemma
<1>3. server_defaults' = Over(new, server_defaults)
  BY DEF Configure
<1>4. server_defaults' \in [DOMAIN server_defaults' -> {"configured"}]
  BY <1>2, <1>3, OverType DEF Types, TypeOK
<1>5. \A k \in DOMAIN new : k \in ServerParams /\ <<"arg", k>> \in focus
  <2>1. \A s \in S : s[1] = "arg"
    OBVIOUS
  <2>2. \A k \in DOMAIN new : <<"arg", k>> \in S
    BY <1>1, <2>1, ArgsLemma
  <2> QED BY <2>2
<1>6. \A k \in DOMAIN server_defaults' : k \in ServerParams /\ <<"arg", k>> \in focus
  BY <1>3, <1>5, OverLemma DEF Types
<1> QED BY <1>4, <1>6 DEF Configure, Types, TypeOK, IsDict

LEMMA LoadModelTypes ==
  ASSUME Types, NEW S \in SUBSET focus, LoadModel(S)
  PROVE  Types'
<1> DEFINE a == Args("load", S)
           Loading == {"load", "configured"}
           inherited == Only(server_defaults, ServerParams)
           opts == Dict("options", "load", S)
<1>1. Settings(S)
  BY FocusIsSettings DEF Types
<1>2. a \in [DOMAIN a -> Loading] /\ opts \in [DOMAIN opts -> Loading]
  <2>1. a \in [DOMAIN a -> {"load"}] /\ opts \in [DOMAIN opts -> {"load"}]
    BY <1>1, ArgsLemma, DictLemma
  <2> QED BY <2>1, Widened
<1>3. inherited \in [DOMAIN inherited -> Loading]
  <2>1. server_defaults \in [DOMAIN server_defaults -> Loading]
    BY Widened DEF Types, TypeOK
  <2> QED BY <2>1, OnlyLemma
<1>4. Over(a, inherited) \in [DOMAIN Over(a, inherited) -> Loading]
  BY <1>2, <1>3, OverType
<1>5. /\ handle'.fields =
           Only(Over(Over(a, inherited), Named("gpu_layers", "ngl", a)), Fields)
      /\ handle'.defaults = Without(a, Fields \cup {"ngl", "model"})
      /\ handle'.options = Over(opts, Named("num_ctx", "context_length", a))
  BY DEF LoadModel, Inherited
<1>6. handle'.fields \in [DOMAIN handle'.fields -> Loading]
  <2> DEFINE ngl == Named("gpu_layers", "ngl", a)
             all == Over(Over(a, inherited), ngl)
  <2>1. ngl \in [DOMAIN ngl -> Loading]
    BY <1>2, NamedLemma
  <2>2. all \in [DOMAIN all -> Loading]
    BY <1>4, <2>1, OverType
  <2> HIDE DEF all, Loading
  <2>3. Only(all, Fields) \in [DOMAIN Only(all, Fields) -> Loading]
    BY <2>2, OnlyLemma
  <2> QED BY <1>5, <2>3 DEF all
<1>7. handle'.defaults \in [DOMAIN handle'.defaults -> Loading]
  <2> DEFINE rest == Without(a, Fields \cup {"ngl", "model"})
  <2> HIDE DEF Loading
  <2>1. rest \in [DOMAIN rest -> Loading]
    BY <1>2, WithoutLemma
  <2> QED BY <1>5, <2>1
<1>8. handle'.options \in [DOMAIN handle'.options -> Loading]
  <2> DEFINE size == Named("num_ctx", "context_length", a)
             all == Over(opts, size)
  <2> HIDE DEF Loading
  <2>1. size \in [DOMAIN size -> Loading]
    BY <1>2, NamedLemma
  <2>2. all \in [DOMAIN all -> Loading]
    BY <1>2, <2>1, OverType
  <2> QED BY <1>5, <2>2
<1>9. given' \in [LayerSet -> SUBSET focus]
  <2>1. {<<"arg", k>> : k \in DOMAIN server_defaults} \in SUBSET focus
    BY DEF Types
  <2> QED BY <2>1 DEF LoadModel, Types, TypeOK, LayerSet
<1> HIDE DEF a, opts, inherited
<1> QED BY <1>6, <1>7, <1>8, <1>9 DEF LoadModel, Types, TypeOK, IsDict

LEMMA KwargsType ==
  ASSUME NEW S, NEW T, Settings(S), Settings(T)
  PROVE  /\ Kwargs(S, T).args = Over(Args("item", T), Args("shared", S))
         /\ Kwargs(S, T).options =
              Over(Dict("options", "item", T), Dict("options", "shared", S))
         /\ IsDict(Kwargs(S, T).args) /\ IsDict(Kwargs(S, T).options)
<1>1. /\ Kwargs(S, T).args = Over(Args("item", T), Args("shared", S))
      /\ Kwargs(S, T).options = Over(Dict("options", "item", T), Dict("options", "shared", S))
  BY DEF Kwargs, Merge
<1>2. /\ IsDict(Args("item", T)) /\ IsDict(Args("shared", S))
      /\ IsDict(Dict("options", "item", T)) /\ IsDict(Dict("options", "shared", S))
  <2>1. {"item"} \subseteq LayerSet /\ {"shared"} \subseteq LayerSet
    BY DEF LayerSet
  <2> QED BY <2>1, ArgsLemma, DictLemma, Widened DEF IsDict
<1>3. IsDict(Over(Args("item", T), Args("shared", S)))
  BY <1>2, OverType DEF IsDict
<1>4. IsDict(Over(Dict("options", "item", T), Dict("options", "shared", S)))
  BY <1>2, OverType DEF IsDict
<1> QED BY <1>1, <1>3, <1>4

LEMMA MergedType ==
  ASSUME TypeOK, NEW S, NEW T, Settings(S), Settings(T)
  PROVE  /\ Merged(Kwargs(S, T)).args =
              Over(Without(Kwargs(S, T).args, {"return_usage"}), handle.defaults)
         /\ Merged(Kwargs(S, T)).options = Over(Kwargs(S, T).options, handle.options)
         /\ IsDict(Merged(Kwargs(S, T)).args) /\ IsDict(Merged(Kwargs(S, T)).options)
<1> DEFINE kw == Kwargs(S, T)
<1>1. DOMAIN kw = {"args", "options"}
  BY DEF Kwargs, Merge
<1>2. /\ Merged(kw).args = Over(Without(kw.args, {"return_usage"}), handle.defaults)
      /\ Merged(kw).options = Over(kw.options, handle.options)
  BY <1>1 DEF Merged, Merge
<1>3. IsDict(handle.defaults) /\ IsDict(handle.options)
  BY Widened DEF TypeOK, LayerSet, IsDict
<1>4. IsDict(kw.args) /\ IsDict(kw.options)
  BY KwargsType
<1>5. IsDict(Without(kw.args, {"return_usage"}))
  BY <1>4, WithoutLemma DEF IsDict
<1>6. IsDict(Over(Without(kw.args, {"return_usage"}), handle.defaults))
  BY <1>3, <1>5, OverType DEF IsDict
<1>7. IsDict(Over(kw.options, handle.options))
  BY <1>3, <1>4, OverType DEF IsDict
<1> QED BY <1>2, <1>6, <1>7

LEMMA CallTypes ==
  ASSUME Types, NEW S \in SUBSET focus, NEW T \in SUBSET focus, Call(S, T)
  PROVE  Types'
<1> DEFINE merged == Merged(Kwargs(S, T))
           model == [model |-> "load"]
<1>1. Settings(S) /\ Settings(T) /\ TypeOK
  BY FocusIsSettings DEF Types
<1>2. IsDict(merged.args) /\ IsDict(merged.options)
  BY <1>1, MergedType
<1>3. IsDict(handle.fields)
  BY <1>1, Widened DEF TypeOK, LayerSet, IsDict
<1>4. IsDict(Over(merged.args, handle.fields))
  BY <1>2, <1>3, OverType DEF IsDict
<1>5. IsDict(Over(model, Over(merged.args, handle.fields)))
  BY <1>4, ModelIsDict, OverType DEF IsDict
<1>6. /\ request'.args = Over(model, Over(merged.args, handle.fields))
      /\ request'.options = merged.options
      /\ given' = [given EXCEPT !["shared"] = S, !["item"] = T]
      /\ stage' \in {"refused", "merged"}
      /\ UNCHANGED <<kind, focus, server_defaults, sent, handle>>
  BY DEF Call, CallWith
<1>7. given' \in [LayerSet -> SUBSET focus]
  BY <1>6 DEF Types, TypeOK
<1>8. IsDict(request'.args) /\ IsDict(request'.options)
  BY <1>2, <1>5, <1>6
<1> HIDE DEF merged, model
<1> QED BY <1>6, <1>7, <1>8 DEF Types, TypeOK, IsDict

LEMMA LimitUnderType ==
  ASSUME NEW name, NEW opts
  PROVE  /\ IsDict(opts) => IsDict(LimitUnder(name, opts))
         /\ DOMAIN LimitUnder(name, opts) \subseteq {name}
         /\ (\E i \in 1..3 : LimitNames[i] \in DOMAIN opts) =>
              name \in DOMAIN LimitUnder(name, opts)
<1> DEFINE a == Named(name, LimitNames[1], opts)
           b == Named(name, LimitNames[2], opts)
           c == Named(name, LimitNames[3], opts)
<1>1. LimitUnder(name, opts) = Over(a, Over(b, c))
  BY DEF LimitUnder
<1>2. /\ DOMAIN a = IF LimitNames[1] \in DOMAIN opts THEN {name} ELSE {}
      /\ DOMAIN b = IF LimitNames[2] \in DOMAIN opts THEN {name} ELSE {}
      /\ DOMAIN c = IF LimitNames[3] \in DOMAIN opts THEN {name} ELSE {}
      /\ IsDict(opts) => IsDict(a) /\ IsDict(b) /\ IsDict(c)
  BY NamedLemma DEF IsDict
<1>3. \A i \in 1..3 : i = 1 \/ i = 2 \/ i = 3
  OBVIOUS
<1> HIDE DEF a, b, c
<1>4. DOMAIN LimitUnder(name, opts) = DOMAIN a \cup (DOMAIN b \cup DOMAIN c)
  <2>1. DOMAIN Over(b, c) = DOMAIN b \cup DOMAIN c
    BY OverLemma
  <2>2. DOMAIN Over(a, Over(b, c)) = DOMAIN a \cup DOMAIN Over(b, c)
    BY OverLemma
  <2> QED BY <1>1, <2>1, <2>2
<1>5. IsDict(opts) => IsDict(LimitUnder(name, opts))
  <2>1. IsDict(b) /\ IsDict(c) => IsDict(Over(b, c))
    BY OverType DEF IsDict
  <2>2. IsDict(a) /\ IsDict(Over(b, c)) => IsDict(Over(a, Over(b, c)))
    BY OverType DEF IsDict
  <2> QED BY <1>1, <1>2, <2>1, <2>2
<1> QED BY <1>2, <1>3, <1>4, <1>5

(* The first name of a limit that is there gives its value.                *)
LEMMA LimitUnderFirst ==
  ASSUME NEW name, NEW opts, NEW i \in DOMAIN LimitNames, LimitNames[i] \in DOMAIN opts,
         \A j \in DOMAIN LimitNames : LimitNames[j] \in DOMAIN opts => i <= j
  PROVE  Carries(LimitUnder(name, opts), name, opts[LimitNames[i]])
<1> DEFINE a == Named(name, LimitNames[1], opts)
           b == Named(name, LimitNames[2], opts)
           c == Named(name, LimitNames[3], opts)
<1>1. LimitUnder(name, opts) = Over(a, Over(b, c))
  BY DEF LimitUnder
<1>2. DOMAIN LimitNames = 1..3 /\ (i = 1 \/ i = 2 \/ i = 3)
  BY DEF LimitNames
<1>3. /\ DOMAIN a = IF LimitNames[1] \in DOMAIN opts THEN {name} ELSE {}
      /\ LimitNames[1] \in DOMAIN opts => a[name] = opts[LimitNames[1]]
  BY NamedLemma
<1>4. /\ DOMAIN b = IF LimitNames[2] \in DOMAIN opts THEN {name} ELSE {}
      /\ LimitNames[2] \in DOMAIN opts => b[name] = opts[LimitNames[2]]
  BY NamedLemma
<1>5. /\ DOMAIN c = IF LimitNames[3] \in DOMAIN opts THEN {name} ELSE {}
      /\ LimitNames[3] \in DOMAIN opts => c[name] = opts[LimitNames[3]]
  BY NamedLemma
<1> HIDE DEF a, b, c
<1> DEFINE r == Over(b, c)
<1>6. /\ name \in DOMAIN b => Carries(r, name, b[name])
      /\ name \notin DOMAIN b /\ name \in DOMAIN c => Carries(r, name, c[name])
  BY OverAt
<1> HIDE DEF r
<1>7. /\ name \in DOMAIN a => Carries(Over(a, r), name, a[name])
      /\ name \notin DOMAIN a /\ name \in DOMAIN r => Carries(Over(a, r), name, r[name])
  BY OverAt
<1>8. LimitUnder(name, opts) = Over(a, r)
  BY <1>1 DEF r
<1>9. LimitNames[1] \in DOMAIN opts => i = 1
  BY <1>2
<1>10. LimitNames[2] \in DOMAIN opts => i = 1 \/ i = 2
  BY <1>2
<1>11. CASE i = 1
  BY <1>3, <1>7, <1>8, <1>11
<1>12. CASE i = 2
  <2>1. name \notin DOMAIN a
    BY <1>3, <1>9, <1>12
  <2>2. Carries(r, name, opts[LimitNames[2]])
    BY <1>4, <1>6, <1>12
  <2> QED BY <1>7, <1>8, <1>12, <2>1, <2>2 DEF Carries
<1>13. CASE i = 3
  <2>1. name \notin DOMAIN a /\ name \notin DOMAIN b
    BY <1>3, <1>4, <1>9, <1>10, <1>13
  <2>2. Carries(r, name, opts[LimitNames[3]])
    BY <1>5, <1>6, <1>13, <2>1
  <2> QED BY <1>7, <1>8, <1>13, <2>1, <2>2 DEF Carries
<1> QED BY <1>2, <1>11, <1>12, <1>13

(* The limits in a body of the OpenAI API.                                 *)
LEMMA OpenAILimits ==
  ASSUME NEW args, NEW opts
  PROVE  /\ \A i \in DOMAIN LimitNames :
              /\ LimitNames[i] \in DOMAIN opts
              /\ \A j \in DOMAIN LimitNames : LimitNames[j] \in DOMAIN opts => i <= j
              => Carries(OpenAIBody(args, opts), "max_tokens", opts[LimitNames[i]])
         /\ IF "max_completion_tokens" \in DOMAIN opts
            THEN Carries(OpenAIBody(args, opts), "max_completion_tokens",
                         opts["max_completion_tokens"])
            ELSE "max_completion_tokens" \notin DOMAIN OpenAIBody(args, opts)
<1> DEFINE a == Without(opts, OllamaOnly)
           b == LimitUnder("max_tokens", opts)
           c == Only(args, {"model", "temperature", "tools"})
           d == Named("temperature", "temperature", opts)
<1>1. OpenAIBody(args, opts) = Over(a, Over(b, Over(c, d)))
  BY DEF OpenAIBody
<1>2. /\ DOMAIN LimitNames = 1..3 /\ LimitNames[1] = "max_tokens"
      /\ "max_tokens" \notin OllamaOnly /\ "max_completion_tokens" \notin OllamaOnly
  BY DEF LimitNames, OllamaOnly
<1>3. /\ DOMAIN a = DOMAIN opts \ OllamaOnly
      /\ \A k \in DOMAIN opts \ OllamaOnly : a[k] = opts[k]
  BY WithoutLemma
<1>4. DOMAIN b \subseteq {"max_tokens"}
  BY LimitUnderType
<1>5. DOMAIN c \subseteq {"model", "temperature", "tools"}
  <2>1. DOMAIN c = DOMAIN args \cap {"model", "temperature", "tools"}
    BY OnlyLemma
  <2> QED BY <2>1
<1>6. DOMAIN d \subseteq {"temperature"}
  BY NamedLemma
<1>7. ASSUME NEW i \in DOMAIN LimitNames, LimitNames[i] \in DOMAIN opts,
             \A j \in DOMAIN LimitNames : LimitNames[j] \in DOMAIN opts => i <= j
      PROVE  Carries(b, "max_tokens", opts[LimitNames[i]])
  BY <1>7, LimitUnderFirst
<1> HIDE DEF a, b, c, d
<1>8. /\ DOMAIN OpenAIBody(args, opts) = DOMAIN a \cup (DOMAIN b \cup (DOMAIN c \cup DOMAIN d))
      /\ \A k \in DOMAIN a : OpenAIBody(args, opts)[k] = a[k]
      /\ \A k \in DOMAIN b \ DOMAIN a : OpenAIBody(args, opts)[k] = b[k]
  <2> DEFINE e == Over(c, d)
             f == Over(b, e)
  <2>1. DOMAIN e = DOMAIN c \cup DOMAIN d
    BY OverLemma
  <2> HIDE DEF e
  <2>2. DOMAIN f = DOMAIN b \cup DOMAIN e /\ \A k \in DOMAIN b : f[k] = b[k]
    BY OverLemma
  <2> HIDE DEF f
  <2>3. /\ DOMAIN Over(a, f) = DOMAIN a \cup DOMAIN f
        /\ \A k \in DOMAIN a : Over(a, f)[k] = a[k]
        /\ \A k \in DOMAIN f \ DOMAIN a : Over(a, f)[k] = f[k]
    BY OverLemma
  <2>4. OpenAIBody(args, opts) = Over(a, f)
    BY <1>1 DEF e, f
  <2> QED BY <2>1, <2>2, <2>3, <2>4
<1>9. ASSUME NEW i \in DOMAIN LimitNames, LimitNames[i] \in DOMAIN opts,
             \A j \in DOMAIN LimitNames : LimitNames[j] \in DOMAIN opts => i <= j
      PROVE  Carries(OpenAIBody(args, opts), "max_tokens", opts[LimitNames[i]])
  <2>1. CASE "max_tokens" \in DOMAIN opts
    <3>1. i = 1
      BY <1>2, <1>9, <2>1
    <3> QED BY <1>2, <1>3, <1>8, <2>1, <3>1 DEF Carries
  <2>2. CASE "max_tokens" \notin DOMAIN opts
    <3>1. "max_tokens" \in DOMAIN b /\ b["max_tokens"] = opts[LimitNames[i]]
      BY <1>7, <1>9 DEF Carries
    <3> QED BY <1>3, <1>8, <2>2, <3>1 DEF Carries
  <2> QED BY <2>1, <2>2
<1>10. IF "max_completion_tokens" \in DOMAIN opts
       THEN Carries(OpenAIBody(args, opts), "max_completion_tokens", opts["max_completion_tokens"])
       ELSE "max_completion_tokens" \notin DOMAIN OpenAIBody(args, opts)
  BY <1>2, <1>3, <1>4, <1>5, <1>6, <1>8 DEF Carries
<1> QED BY <1>9, <1>10

(* The limit among the options of Ollama.                                  *)
LEMMA NativeLimit ==
  ASSUME NEW args, NEW opts
  PROVE  /\ "num_predict" \in DOMAIN LoadParams(args) =>
              Carries(NativeOptions(args, opts), "num_predict", LoadParams(args)["num_predict"])
         /\ "num_predict" \notin DOMAIN LoadParams(args) =>
              \A i \in DOMAIN LimitNames :
                /\ LimitNames[i] \in DOMAIN opts
                /\ \A j \in DOMAIN LimitNames : LimitNames[j] \in DOMAIN opts => i <= j
                => Carries(NativeOptions(args, opts), "num_predict", opts[LimitNames[i]])
<1> DEFINE a == Named("num_ctx", "context_length", args)
           p == LoadParams(args)
           t == Named("num_thread", "threads", args)
           g == Named("main_gpu", "main_gpu", args)
           b == Named("num_batch", "batch_size", args)
           u == Over(t, Over(g, b))
           m == LimitUnder("num_predict", opts)
           o == Only(opts, NativeKeys)
           l == "num_predict"
<1>1. NativeOptions(args, opts) = Over(a, Over(p, Over(u, Over(m, o))))
  BY DEF NativeOptions
<1>2. l \notin DOMAIN a /\ l \notin DOMAIN t
  BY NamedLemma
<1>3. l \notin DOMAIN g /\ l \notin DOMAIN b
  BY NamedLemma
<1>4. l \notin DOMAIN u
  <2> DEFINE gb == Over(g, b)
  <2>1. DOMAIN gb = DOMAIN g \cup DOMAIN b
    BY OverLemma
  <2> HIDE DEF gb, g, b, t
  <2>2. DOMAIN Over(t, gb) = DOMAIN t \cup DOMAIN gb
    BY OverLemma
  <2>3. u = Over(t, gb)
    BY DEF gb
  <2> QED BY <1>2, <1>3, <2>1, <2>2, <2>3
<1>5. ASSUME NEW i \in DOMAIN LimitNames, LimitNames[i] \in DOMAIN opts,
             \A j \in DOMAIN LimitNames : LimitNames[j] \in DOMAIN opts => i <= j
      PROVE  Carries(m, l, opts[LimitNames[i]])
  BY <1>5, LimitUnderFirst
<1> HIDE DEF a, p, t, g, b, u, m, o
<1>6. /\ l \in DOMAIN p => Carries(NativeOptions(args, opts), l, p[l])
      /\ l \notin DOMAIN p /\ l \in DOMAIN m => Carries(NativeOptions(args, opts), l, m[l])
  <2> DEFINE mo == Over(m, o)
             um == Over(u, mo)
             pu == Over(p, um)
  <2>1. l \in DOMAIN m => Carries(mo, l, m[l])
    BY OverAt
  <2> HIDE DEF mo
  <2>2. l \in DOMAIN mo => Carries(um, l, mo[l])
    BY <1>4, OverAt
  <2> HIDE DEF um
  <2>3. /\ l \in DOMAIN p => Carries(pu, l, p[l])
        /\ l \notin DOMAIN p /\ l \in DOMAIN um => Carries(pu, l, um[l])
    BY OverAt
  <2> HIDE DEF pu
  <2>4. l \in DOMAIN pu => Carries(Over(a, pu), l, pu[l])
    BY <1>2, OverAt
  <2>5. NativeOptions(args, opts) = Over(a, pu)
    BY <1>1 DEF mo, um, pu
  <2> QED BY <2>1, <2>2, <2>3, <2>4, <2>5 DEF Carries
<1>7. ASSUME l \notin DOMAIN p, NEW i \in DOMAIN LimitNames, LimitNames[i] \in DOMAIN opts,
             \A j \in DOMAIN LimitNames : LimitNames[j] \in DOMAIN opts => i <= j
      PROVE  Carries(NativeOptions(args, opts), l, opts[LimitNames[i]])
  BY <1>5, <1>6, <1>7 DEF Carries
<1> QED BY <1>6, <1>7 DEF p

LEMMA OpenAIBodyType ==
  ASSUME NEW args, NEW opts
  PROVE  /\ IsDict(args) /\ IsDict(opts) => IsDict(OpenAIBody(args, opts))
         /\ DOMAIN OpenAIBody(args, opts) \cap OllamaOnly = {}
         /\ DOMAIN LimitUnder("max_tokens", opts) \subseteq DOMAIN OpenAIBody(args, opts)
<1> DEFINE a == Without(opts, OllamaOnly)
           b == LimitUnder("max_tokens", opts)
           c == Only(args, {"model", "temperature", "tools"})
           d == Named("temperature", "temperature", opts)
<1>1. OpenAIBody(args, opts) = Over(a, Over(b, Over(c, d)))
  BY DEF OpenAIBody
<1>2. /\ DOMAIN a \cap OllamaOnly = {}
      /\ DOMAIN b \subseteq {"max_tokens"}
      /\ DOMAIN c \subseteq {"model", "temperature", "tools"}
      /\ DOMAIN d \subseteq {"temperature"}
  <2>1. DOMAIN a = DOMAIN opts \ OllamaOnly
    BY WithoutLemma
  <2>2. DOMAIN b \subseteq {"max_tokens"}
    BY LimitUnderType
  <2>3. DOMAIN c = DOMAIN args \cap {"model", "temperature", "tools"}
    BY OnlyLemma
  <2>4. DOMAIN d \subseteq {"temperature"}
    BY NamedLemma
  <2> QED BY <2>1, <2>2, <2>3, <2>4
<1>3. IsDict(args) /\ IsDict(opts) => IsDict(a) /\ IsDict(b) /\ IsDict(c) /\ IsDict(d)
  <2>1. IsDict(opts) => IsDict(a)
    BY WithoutLemma DEF IsDict
  <2>2. IsDict(opts) => IsDict(b)
    BY LimitUnderType
  <2>3. IsDict(args) => IsDict(c)
    BY OnlyLemma DEF IsDict
  <2>4. IsDict(opts) => IsDict(d)
    BY NamedLemma DEF IsDict
  <2> QED BY <2>1, <2>2, <2>3, <2>4
<1> HIDE DEF a, c, d
<1>4. DOMAIN OpenAIBody(args, opts) = DOMAIN a \cup (DOMAIN b \cup (DOMAIN c \cup DOMAIN d))
  <2>1. DOMAIN Over(c, d) = DOMAIN c \cup DOMAIN d
    BY OverLemma
  <2>2. DOMAIN Over(b, Over(c, d)) = DOMAIN b \cup DOMAIN Over(c, d)
    BY OverLemma
  <2>3. DOMAIN Over(a, Over(b, Over(c, d))) = DOMAIN a \cup DOMAIN Over(b, Over(c, d))
    BY OverLemma
  <2> QED BY <1>1, <2>1, <2>2, <2>3
<1>5. IsDict(args) /\ IsDict(opts) => IsDict(OpenAIBody(args, opts))
  <2>1. IsDict(c) /\ IsDict(d) => IsDict(Over(c, d))
    BY OverType DEF IsDict
  <2>2. IsDict(b) /\ IsDict(Over(c, d)) => IsDict(Over(b, Over(c, d)))
    BY OverType DEF IsDict
  <2>3. IsDict(a) /\ IsDict(Over(b, Over(c, d))) => IsDict(Over(a, Over(b, Over(c, d))))
    BY OverType DEF IsDict
  <2> QED BY <1>1, <1>3, <2>1, <2>2, <2>3
<1> QED BY <1>2, <1>4, <1>5 DEF OllamaOnly

LEMMA NativeOptionsType ==
  ASSUME TypeOK, NEW args, NEW opts
  PROVE  /\ IsDict(args) /\ IsDict(opts) => IsDict(NativeOptions(args, opts))
         /\ DOMAIN LimitUnder("num_predict", opts) \subseteq DOMAIN NativeOptions(args, opts)
         /\ IsDict(args) =>
              \A k \in DOMAIN NativeOptions(args, opts) \cap {"max_tokens", "max_completion_tokens"} :
                \E l \in LayerSet : <<"load_params", k>> \in given[l]
<1> DEFINE a == Named("num_ctx", "context_length", args)
           p == LoadParams(args)
           t == Named("num_thread", "threads", args)
           g == Named("main_gpu", "main_gpu", args)
           b == Named("num_batch", "batch_size", args)
           u == Over(t, Over(g, b))
           m == LimitUnder("num_predict", opts)
           o == Only(opts, NativeKeys)
<1>1. NativeOptions(args, opts) = Over(a, Over(p, Over(u, Over(m, o))))
  BY DEF NativeOptions
<1>2. /\ DOMAIN a \subseteq {"num_ctx"} /\ DOMAIN t \subseteq {"num_thread"}
      /\ DOMAIN g \subseteq {"main_gpu"} /\ DOMAIN b \subseteq {"num_batch"}
      /\ DOMAIN m \subseteq {"num_predict"} /\ DOMAIN o \subseteq NativeKeys
  <2>1. DOMAIN a \subseteq {"num_ctx"}
    BY NamedLemma
  <2>2. DOMAIN t \subseteq {"num_thread"} /\ DOMAIN g \subseteq {"main_gpu"}
    BY NamedLemma
  <2>3. DOMAIN b \subseteq {"num_batch"}
    BY NamedLemma
  <2>4. DOMAIN m \subseteq {"num_predict"}
    BY LimitUnderType
  <2>5. DOMAIN o \subseteq NativeKeys
    <3>1. DOMAIN Only(opts, NativeKeys) = DOMAIN opts \cap NativeKeys
      BY ONLY OnlyLemma, Zenon
    <3> QED BY ONLY <3>1, Zenon
  <2> QED BY <2>1, <2>2, <2>3, <2>4, <2>5
<1>3. IsDict(args) =>
        /\ IsDict(p)
        /\ \A k \in DOMAIN p : \E l \in LayerSet : <<"load_params", k>> \in given[l]
  <2>1. CASE "load_params" \notin DOMAIN args
    <3>1. p = Nothing /\ DOMAIN Nothing = {}
      BY <2>1 DEF Nothing, LoadParams
    <3> QED BY <3>1, NothingType DEF IsDict
  <2>2. ASSUME "load_params" \in DOMAIN args, IsDict(args)
        PROVE  /\ IsDict(p)
               /\ \A k \in DOMAIN p : \E l \in LayerSet : <<"load_params", k>> \in given[l]
    <3> DEFINE l == args["load_params"]
    <3>1. l \in LayerSet
      BY <2>2 DEF IsDict
    <3>2. Settings(given[l])
      BY <3>1, FocusIsSettings DEF TypeOK
    <3>3. p = Dict("load_params", l, given[l])
      BY <2>2 DEF LoadParams
    <3>4. p \in [DOMAIN p -> {l}] /\ \A k \in DOMAIN p : <<"load_params", k>> \in given[l]
      BY <3>2, <3>3, DictLemma
    <3>5. {l} \subseteq LayerSet
      BY <3>1
    <3> HIDE DEF l, p
    <3>6. p \in [DOMAIN p -> LayerSet]
      BY <3>4, <3>5, Widened
    <3> QED BY <3>1, <3>4, <3>6 DEF IsDict
  <2> QED BY <2>1, <2>2
<1>4. IsDict(args) /\ IsDict(opts) =>
        IsDict(a) /\ IsDict(t) /\ IsDict(g) /\ IsDict(b) /\ IsDict(m) /\ IsDict(o)
  <2>1. IsDict(args) => IsDict(a)
    BY NamedLemma DEF IsDict
  <2>2. IsDict(args) => IsDict(t) /\ IsDict(g)
    BY NamedLemma DEF IsDict
  <2>3. IsDict(args) => IsDict(b)
    BY NamedLemma DEF IsDict
  <2>4. IsDict(opts) => IsDict(m)
    BY LimitUnderType
  <2>5. IsDict(opts) => IsDict(o)
    BY OnlyLemma DEF IsDict
  <2> QED BY <2>1, <2>2, <2>3, <2>4, <2>5
<1>5. "max_tokens" \notin NativeKeys /\ "max_completion_tokens" \notin NativeKeys
  BY DEF NativeKeys, OllamaOnly
<1> HIDE DEF a, p, t, g, b, o
<1>6. \A x, y : IsDict(x) /\ IsDict(y) => IsDict(Over(x, y))
  BY OverType DEF IsDict
<1>7. IsDict(args) /\ IsDict(opts) => IsDict(NativeOptions(args, opts))
  BY <1>1, <1>3, <1>4, <1>6
<1>8. DOMAIN NativeOptions(args, opts)
        = DOMAIN a \cup (DOMAIN p \cup ((DOMAIN t \cup (DOMAIN g \cup DOMAIN b))
            \cup (DOMAIN m \cup DOMAIN o)))
  <2>1. DOMAIN u = DOMAIN t \cup (DOMAIN g \cup DOMAIN b)
    <3>1. DOMAIN Over(g, b) = DOMAIN g \cup DOMAIN b
      BY OverLemma
    <3>2. DOMAIN Over(t, Over(g, b)) = DOMAIN t \cup DOMAIN Over(g, b)
      BY OverLemma
    <3> QED BY <3>1, <3>2
  <2> HIDE DEF u, m
  <2>2. DOMAIN Over(m, o) = DOMAIN m \cup DOMAIN o
    BY OverLemma
  <2>3. DOMAIN Over(u, Over(m, o)) = DOMAIN u \cup DOMAIN Over(m, o)
    BY OverLemma
  <2>4. DOMAIN Over(p, Over(u, Over(m, o))) = DOMAIN p \cup DOMAIN Over(u, Over(m, o))
    BY OverLemma
  <2>5. DOMAIN Over(a, Over(p, Over(u, Over(m, o))))
          = DOMAIN a \cup DOMAIN Over(p, Over(u, Over(m, o)))
    BY OverLemma
  <2> QED BY <1>1, <2>1, <2>2, <2>3, <2>4, <2>5
<1>9. ASSUME NEW k \in DOMAIN NativeOptions(args, opts) \cap {"max_tokens", "max_completion_tokens"}
      PROVE  k \in DOMAIN p
  BY <1>2, <1>5, <1>8
<1> QED BY <1>3, <1>7, <1>8, <1>9

LEMMA NextTypes == Types /\ [Next]_vars => Types'
<1> SUFFICES ASSUME Types, [Next]_vars PROVE Types'
  OBVIOUS
<1>1. CASE \E S \in SUBSET focus : S \subseteq {"arg"} \X ServerParams /\ Configure(S)
  BY <1>1, ConfigureTypes
<1>2. CASE \E S \in SUBSET focus : LoadModel(S)
  BY <1>2, LoadModelTypes
<1>3. CASE \E S \in SUBSET focus, T \in SUBSET focus : Call(S, T)
  BY <1>3, CallTypes
<1>4. CASE Send
  <2>1. IsDict(request.args) /\ IsDict(request.options) /\ TypeOK
    BY DEF Types, TypeOK
  <2>2. /\ IsDict(Only(request.args, {"model"})) /\ IsDict(Nothing)
        /\ IsDict(OpenAIBody(request.args, request.options))
        /\ IsDict(NativeOptions(request.args, request.options))
    BY <2>1, OnlyLemma, NothingType, OpenAIBodyType, NativeOptionsType DEF IsDict
  <2>3. IsDict(sent'.body) /\ IsDict(sent'.options)
    BY <1>4, <2>2 DEF Send
  <2> QED BY <1>4, <2>3 DEF Send, Types, TypeOK, IsDict
<1>5. CASE Done
  <2>1. IsDict(Nothing)
    BY NothingType DEF IsDict
  <2>2. given' \in [LayerSet -> SUBSET focus]
    BY <1>5 DEF Done, Types, TypeOK
  <2>3. /\ IsDict(request'.args) /\ IsDict(request'.options)
        /\ IsDict(sent'.body) /\ IsDict(sent'.options)
    BY <1>5, <2>1 DEF Done
  <2> QED BY <1>5, <2>2, <2>3 DEF Done, Types, TypeOK, IsDict
<1>6. CASE UNCHANGED vars
  BY <1>6 DEF vars, Types, TypeOK, IsDict
<1> QED BY <1>1, <1>2, <1>3, <1>4, <1>5, <1>6 DEF Next

(* Every dictionary holds what a layer gave; a handle never holds a call's. *)
THEOREM TypeCorrect == Spec => []TypeOK
<1>1. Types => TypeOK
  BY DEF Types
<1> QED BY <1>1, InitTypes, NextTypes, PTL DEF Spec

-----------------------------------------------------------------------------
(* What a handle keeps of the settings it was made with.                   *)

HandleInv ==
  /\ \A s \in given["configured"] : s[1] = "arg" /\ s[2] \in ServerParams
  /\ stage # "pool" =>
       /\ \A k : <<"options", k>> \in given["load"] =>
            k \in DOMAIN handle.options /\ handle.options[k] = "load"
       /\ \A k \in DOMAIN handle.options \ {"num_ctx"} : <<"options", k>> \in given["load"]
       /\ DOMAIN handle.fields \subseteq Fields
       /\ \A k \in Fields :
            /\ <<"arg", k>> \in given["load"] =>
                 k \in DOMAIN handle.fields /\ handle.fields[k] = "load"
            /\ <<"arg", k>> \in given["configured"] /\ <<"arg", k>> \notin given["load"] =>
                 \/ k \in DOMAIN handle.fields /\ handle.fields[k] = "configured"
                 \/ k \in {"gpu_layers", "load_params"}
       /\ \A k \in DOMAIN handle.fields \ {"gpu_layers", "load_params"} :
            <<"arg", k>> \in given["load"] \cup given["configured"]
       /\ \A k \in DOMAIN handle.defaults :
            /\ k \notin Fields \cup {"ngl", "model"}
            /\ <<"arg", k>> \in given["load"]
            /\ handle.defaults[k] = "load"
       /\ \A k : <<"arg", k>> \in given["load"] =>
            k \in Fields \cup {"ngl", "model"} \cup DOMAIN handle.defaults

LEMMA LoadModelHandle ==
  ASSUME Types, NEW S \in SUBSET focus, LoadModel(S)
  PROVE  HandleInv'
<1> DEFINE a == Args("load", S)
           inherited == Only(server_defaults, ServerParams)
           opts == Dict("options", "load", S)
           size == Named("num_ctx", "context_length", a)
           ngl == Named("gpu_layers", "ngl", a)
           both == Over(a, inherited)
           all == Over(both, ngl)
<1>1. Settings(S)
  BY FocusIsSettings DEF Types
<1>2. /\ handle'.fields = Only(all, Fields)
      /\ handle'.defaults = Without(a, Fields \cup {"ngl", "model"})
      /\ handle'.options = Over(opts, size)
  BY DEF LoadModel, Inherited
<1>3. /\ given'["load"] = S
      /\ given'["configured"] = {<<"arg", k>> : k \in DOMAIN server_defaults}
  BY DEF LoadModel, Types, TypeOK, LayerSet
<1>4. \A k \in DOMAIN server_defaults : k \in ServerParams /\ server_defaults[k] = "configured"
  BY DEF Types, TypeOK
<1>5. /\ \A k : <<"arg", k>> \in S => k \in DOMAIN a
      /\ \A k \in DOMAIN a : <<"arg", k>> \in S \/ k = "load_params"
      /\ \A k \in DOMAIN a : a[k] = "load"
  BY <1>1, ArgsLemma
<1>6. /\ \A k : k \in DOMAIN opts <=> <<"options", k>> \in S
      /\ \A k \in DOMAIN opts : opts[k] = "load"
  BY <1>1, DictLemma
<1>7. /\ DOMAIN inherited = DOMAIN server_defaults
      /\ \A k \in DOMAIN inherited : inherited[k] = "configured"
  <2>1. DOMAIN inherited = DOMAIN server_defaults \cap ServerParams
    BY OnlyLemma
  <2>2. \A k \in DOMAIN server_defaults \cap ServerParams : inherited[k] = server_defaults[k]
    BY OnlyLemma
  <2> QED BY <1>4, <2>1, <2>2
<1> HIDE DEF a, opts, inherited
<1>8. /\ \A k : <<"options", k>> \in S =>
           k \in DOMAIN handle'.options /\ handle'.options[k] = "load"
      /\ \A k \in DOMAIN handle'.options \ {"num_ctx"} : <<"options", k>> \in S
  <2>0. DOMAIN size \subseteq {"num_ctx"}
    BY NamedLemma
  <2> HIDE DEF size
  <2>1. /\ DOMAIN Over(opts, size) = DOMAIN opts \cup DOMAIN size
        /\ \A k \in DOMAIN opts : Over(opts, size)[k] = opts[k]
    BY OverLemma
  <2> QED BY <1>2, <1>6, <2>0, <2>1
<1>9. /\ DOMAIN handle'.fields = DOMAIN all \cap Fields
      /\ \A k \in DOMAIN handle'.fields : handle'.fields[k] = all[k]
  <2> HIDE DEF all
  <2>1. DOMAIN Only(all, Fields) = DOMAIN all \cap Fields
    BY OnlyLemma
  <2>2. \A k \in DOMAIN all \cap Fields : Only(all, Fields)[k] = all[k]
    BY OnlyLemma
  <2> QED BY <1>2, <2>1, <2>2
<1>10. /\ DOMAIN both = DOMAIN a \cup DOMAIN inherited
       /\ \A k \in DOMAIN a : both[k] = a[k]
       /\ \A k \in DOMAIN inherited \ DOMAIN a : both[k] = inherited[k]
  BY OverLemma
<1>11. DOMAIN ngl \subseteq {"gpu_layers"}
  BY NamedLemma
<1>12. /\ DOMAIN all = DOMAIN both \cup DOMAIN ngl
       /\ \A k \in DOMAIN both : all[k] = both[k]
  <2> HIDE DEF both, ngl
  <2> QED BY OverLemma
<1> HIDE DEF both, ngl, all
<1>13. \A k \in Fields :
         /\ <<"arg", k>> \in S => k \in DOMAIN handle'.fields /\ handle'.fields[k] = "load"
         /\ <<"arg", k>> \in given'["configured"] /\ <<"arg", k>> \notin S =>
              \/ k \in DOMAIN handle'.fields /\ handle'.fields[k] = "configured"
              \/ k \in {"gpu_layers", "load_params"}
  <2> SUFFICES ASSUME NEW k \in Fields
               PROVE  /\ <<"arg", k>> \in S =>
                           k \in DOMAIN handle'.fields /\ handle'.fields[k] = "load"
                      /\ <<"arg", k>> \in given'["configured"] /\ <<"arg", k>> \notin S =>
                           \/ k \in DOMAIN handle'.fields /\ handle'.fields[k] = "configured"
                           \/ k \in {"gpu_layers", "load_params"}
    OBVIOUS
  <2>1. ASSUME <<"arg", k>> \in S
        PROVE  k \in DOMAIN handle'.fields /\ handle'.fields[k] = "load"
    <3>1. k \in DOMAIN a /\ a[k] = "load"
      BY <1>5, <2>1
    <3> QED BY <1>9, <1>10, <1>12, <3>1
  <2>2. ASSUME <<"arg", k>> \in given'["configured"], <<"arg", k>> \notin S,
               k \notin {"gpu_layers", "load_params"}
        PROVE  k \in DOMAIN handle'.fields /\ handle'.fields[k] = "configured"
    <3>1. k \in DOMAIN inherited /\ inherited[k] = "configured"
      BY <1>3, <1>7, <2>2
    <3>2. k \notin DOMAIN a
      BY <1>5, <2>2
    <3> QED BY <1>9, <1>10, <1>12, <3>1, <3>2
  <2> QED BY <2>1, <2>2
<1>14. \A k \in DOMAIN handle'.fields \ {"gpu_layers", "load_params"} :
         <<"arg", k>> \in S \cup given'["configured"]
  <2> TAKE k \in DOMAIN handle'.fields \ {"gpu_layers", "load_params"}
  <2>1. k \in DOMAIN a \/ k \in DOMAIN server_defaults
    BY <1>7, <1>9, <1>10, <1>11, <1>12
  <2> QED BY <1>3, <1>5, <2>1
<1>15. /\ DOMAIN handle'.defaults = DOMAIN a \ (Fields \cup {"ngl", "model"})
       /\ \A k \in DOMAIN handle'.defaults : handle'.defaults[k] = a[k]
  <2> DEFINE K == Fields \cup {"ngl", "model"}
  <2> HIDE DEF K
  <2>1. DOMAIN Without(a, K) = DOMAIN a \ K
    BY WithoutLemma
  <2>2. \A k \in DOMAIN a \ K : Without(a, K)[k] = a[k]
    BY WithoutLemma
  <2> QED BY <1>2, <2>1, <2>2 DEF K
<1>16. "load_params" \in Fields
  BY DEF Fields
<1>17. /\ \A k \in DOMAIN handle'.defaults :
            /\ k \notin Fields \cup {"ngl", "model"}
            /\ <<"arg", k>> \in S
            /\ handle'.defaults[k] = "load"
       /\ \A k : <<"arg", k>> \in S =>
            k \in Fields \cup {"ngl", "model"} \cup DOMAIN handle'.defaults
  BY <1>5, <1>15, <1>16
<1>18. \A s \in given'["configured"] : s[1] = "arg" /\ s[2] \in ServerParams
  BY <1>3, <1>4
<1> QED BY <1>3, <1>8, <1>9, <1>13, <1>14, <1>17, <1>18 DEF HandleInv

LEMMA HandleInvariant == Spec => [](Types /\ HandleInv)
<1>1. Init => HandleInv
  BY DEF Init, HandleInv, LayerSet
<1>2. ASSUME Types, HandleInv, [Next]_vars
      PROVE  HandleInv'
  <2>1. CASE UNCHANGED <<handle, given["load"], given["configured"]>> /\ (stage' = "pool" <=> stage = "pool")
    BY <1>2, <2>1 DEF HandleInv
  <2>2. ASSUME NEW S \in SUBSET focus, NEW T \in SUBSET focus, Call(S, T)
        PROVE  HandleInv'
    <3>1. stage = "loaded" /\ stage' \in {"refused", "merged"} /\ handle' = handle
      BY <2>2 DEF Call, CallWith
    <3>2. given'["load"] = given["load"] /\ given'["configured"] = given["configured"]
      BY <1>2, <2>2 DEF Call, CallWith, Types, TypeOK, LayerSet
    <3> QED BY <2>1, <3>1, <3>2
  <2>3. CASE Done
    <3>1. stage # "pool" /\ stage' = "loaded" /\ handle' = handle
      BY <2>3 DEF Done
    <3>2. given'["load"] = given["load"] /\ given'["configured"] = given["configured"]
      BY <1>2, <2>3 DEF Done, Types, TypeOK, LayerSet
    <3> QED BY <2>1, <3>1, <3>2
  <2>4. CASE Send
    BY <2>1, <2>4 DEF Send
  <2>5. CASE UNCHANGED vars
    BY <2>1, <2>5 DEF vars
  <2>6. ASSUME NEW S \in SUBSET focus, Configure(S)
        PROVE  HandleInv'
    BY <2>1, <2>6 DEF Configure
  <2>7. ASSUME NEW S \in SUBSET focus, LoadModel(S)
        PROVE  HandleInv'
    BY <1>2, <2>7, LoadModelHandle
  <2> QED BY <1>2, <2>2, <2>3, <2>4, <2>5, <2>6, <2>7 DEF Next
<1> QED BY <1>1, <1>2, InitTypes, NextTypes, PTL DEF Spec

-----------------------------------------------------------------------------
(* The nearest layer of a setting, layer by layer.                         *)

Given(s, l) == s \in given[l]

NearestIs ==
  \A s :
    /\ Givers(s) # {} <=>
         Given(s, "item") \/ Given(s, "shared") \/ Given(s, "load") \/ Given(s, "configured")
    /\ Given(s, "item") => Nearest(s) = "item"
    /\ ~Given(s, "item") /\ Given(s, "shared") => Nearest(s) = "shared"
    /\ ~Given(s, "item") /\ ~Given(s, "shared") /\ Given(s, "load") => Nearest(s) = "load"
    /\ ~Given(s, "item") /\ ~Given(s, "shared") /\ ~Given(s, "load") /\ Given(s, "configured") =>
         Nearest(s) = "configured"

(* A non-empty set of the first three numbers has a smallest.              *)
LEMMA SmallestLemma ==
  ASSUME NEW I, I \subseteq 1..3, I # {}
  PROVE  \E i \in I : \A j \in I : i <= j
<1>1. CASE 1 \in I
  <2>1. \A j \in I : 1 <= j
    OBVIOUS
  <2> QED BY <1>1, <2>1
<1>2. CASE 1 \notin I /\ 2 \in I
  <2>1. \A j \in I : 2 <= j
    BY <1>2
  <2> QED BY <1>2, <2>1
<1>3. CASE 1 \notin I /\ 2 \notin I
  <2>1. \A j \in I : j = 3
    BY <1>3
  <2>2. PICK i \in I : TRUE
    OBVIOUS
  <2>3. i <= i /\ \A j \in I : j = i
    BY <2>1, <2>2
  <2>4. \A j \in I : i <= j
    BY <2>3
  <2> QED BY <2>2, <2>4
<1> QED BY <1>1, <1>2, <1>3

(* The smallest is the one that is chosen.                                 *)
LEMMA LeastLemma ==
  ASSUME NEW I, I \subseteq 1..4, NEW i \in I, \A j \in I : i <= j
  PROVE  (CHOOSE x \in I : \A j \in I : x <= j) = i
<1>1. \A x \in I : (\A j \in I : x <= j) => x = i
  OBVIOUS
<1> QED BY <1>1

LEMMA NearestLemma == NearestIs
<1> SUFFICES ASSUME NEW s
             PROVE  /\ Givers(s) # {} <=>
                         Given(s, "item") \/ Given(s, "shared") \/ Given(s, "load") \/ Given(s, "configured")
                    /\ Given(s, "item") => Nearest(s) = "item"
                    /\ ~Given(s, "item") /\ Given(s, "shared") => Nearest(s) = "shared"
                    /\ ~Given(s, "item") /\ ~Given(s, "shared") /\ Given(s, "load") => Nearest(s) = "load"
                    /\ ~Given(s, "item") /\ ~Given(s, "shared") /\ ~Given(s, "load") /\ Given(s, "configured") =>
                         Nearest(s) = "configured"
  BY DEF NearestIs
<1> DEFINE I == Givers(s)
<1>1. /\ Layers[1] = "item" /\ Layers[2] = "shared" /\ Layers[3] = "load" /\ Layers[4] = "configured"
      /\ DOMAIN Layers = 1..4
  BY DEF Layers
<1>2. I \subseteq 1..4 /\ \A i \in 1..4 : i \in I <=> Given(s, Layers[i])
  BY <1>1 DEF Givers, Given
<1>3. /\ 1 \in I <=> Given(s, "item")
      /\ 2 \in I <=> Given(s, "shared")
      /\ 3 \in I <=> Given(s, "load")
      /\ 4 \in I <=> Given(s, "configured")
  BY <1>1, <1>2
<1>4. Nearest(s) = Layers[CHOOSE i \in I : \A j \in I : i <= j]
  BY DEF Nearest
<1>5. \A i \in 1..4 : i = 1 \/ i = 2 \/ i = 3 \/ i = 4
  OBVIOUS
<1> HIDE DEF I
<1>6. ASSUME NEW i \in I, \A j \in I : i <= j
      PROVE  Nearest(s) = Layers[i]
  <2>1. (CHOOSE x \in I : \A j \in I : x <= j) = i
    BY <1>2, <1>6, LeastLemma
  <2> QED BY <1>4, <2>1
<1>7. 1 \in I => Nearest(s) = "item"
  BY <1>1, <1>2, <1>6
<1>8. 1 \notin I /\ 2 \in I => Nearest(s) = "shared"
  BY <1>1, <1>2, <1>6
<1>9. 1 \notin I /\ 2 \notin I /\ 3 \in I => Nearest(s) = "load"
  BY <1>1, <1>2, <1>6
<1>10. 1 \notin I /\ 2 \notin I /\ 3 \notin I /\ 4 \in I => Nearest(s) = "configured"
  BY <1>1, <1>2, <1>5, <1>6
<1>11. I # {} <=> 1 \in I \/ 2 \in I \/ 3 \in I \/ 4 \in I
  BY <1>2, <1>5
<1> QED BY <1>3, <1>7, <1>8, <1>9, <1>10, <1>11 DEF I

LEMMA NearestNext == NearestIs'
<1>1. NearestIs
  BY NearestLemma
<1> QED BY <1>1, PTL

-----------------------------------------------------------------------------
(* A call's options and arguments, by the nearest layer that gives them.   *)

LEMMA CallOptions ==
  ASSUME Types, HandleInv, NEW S \in SUBSET focus, NEW T \in SUBSET focus, Call(S, T)
  PROVE  \A k :
           /\ <<"options", k>> \in T \cup S \cup given["load"] =>
                k \in DOMAIN request'.options
           /\ <<"options", k>> \in T => request'.options[k] = "item"
           /\ <<"options", k>> \in S \ T => request'.options[k] = "shared"
           /\ <<"options", k>> \in given["load"] \ (S \cup T) => request'.options[k] = "load"
           /\ k \in DOMAIN request'.options \ {"num_ctx"} =>
                <<"options", k>> \in T \cup S \cup given["load"]
<1> DEFINE it == Dict("options", "item", T)
           sh == Dict("options", "shared", S)
           kw == Over(it, sh)
<1>1. Settings(S) /\ Settings(T) /\ TypeOK /\ stage # "pool"
  BY FocusIsSettings DEF Types, Call, CallWith
<1>2. request'.options = Over(kw, handle.options)
  <2>1. request'.options = Merged(Kwargs(S, T)).options
    BY DEF Call, CallWith
  <2>2. Merged(Kwargs(S, T)).options = Over(Kwargs(S, T).options, handle.options)
    BY <1>1, MergedType
  <2>3. Kwargs(S, T).options = kw
    BY <1>1, KwargsType
  <2> QED BY <2>1, <2>2, <2>3
<1>3. /\ \A k : k \in DOMAIN it <=> <<"options", k>> \in T
      /\ \A k \in DOMAIN it : it[k] = "item"
  BY <1>1, DictLemma
<1>4. /\ \A k : k \in DOMAIN sh <=> <<"options", k>> \in S
      /\ \A k \in DOMAIN sh : sh[k] = "shared"
  BY <1>1, DictLemma
<1> HIDE DEF it, sh
<1>5. /\ DOMAIN kw = DOMAIN it \cup DOMAIN sh
      /\ \A k \in DOMAIN it : kw[k] = it[k]
      /\ \A k \in DOMAIN sh \ DOMAIN it : kw[k] = sh[k]
  BY OverLemma
<1> HIDE DEF kw
<1>6. /\ DOMAIN Over(kw, handle.options) = DOMAIN kw \cup DOMAIN handle.options
      /\ \A k \in DOMAIN kw : Over(kw, handle.options)[k] = kw[k]
      /\ \A k \in DOMAIN handle.options \ DOMAIN kw :
           Over(kw, handle.options)[k] = handle.options[k]
  BY OverLemma
<1>7. /\ \A k : <<"options", k>> \in given["load"] =>
           k \in DOMAIN handle.options /\ handle.options[k] = "load"
      /\ \A k \in DOMAIN handle.options \ {"num_ctx"} : <<"options", k>> \in given["load"]
  BY <1>1 DEF HandleInv
<1> TAKE k
<1> DEFINE s == <<"options", k>>
<1>8. /\ k \in DOMAIN it <=> s \in T
      /\ k \in DOMAIN sh <=> s \in S
      /\ s \in given["load"] => k \in DOMAIN handle.options /\ handle.options[k] = "load"
      /\ k \in DOMAIN handle.options \ {"num_ctx"} => s \in given["load"]
  BY <1>3, <1>4, <1>7
<1> HIDE DEF s
<1>9. /\ s \in T \cup S \cup given["load"] => k \in DOMAIN request'.options
      /\ s \in T => request'.options[k] = "item"
      /\ s \in S \ T => request'.options[k] = "shared"
      /\ s \in given["load"] \ (S \cup T) => request'.options[k] = "load"
      /\ k \in DOMAIN request'.options \ {"num_ctx"} => s \in T \cup S \cup given["load"]
  <2>1. s \in T => k \in DOMAIN kw /\ kw[k] = "item"
    BY <1>3, <1>5, <1>8
  <2>2. s \in S \ T => k \in DOMAIN kw /\ kw[k] = "shared"
    BY <1>4, <1>5, <1>8
  <2>3. s \notin S \cup T => k \notin DOMAIN kw
    BY <1>5, <1>8
  <2> QED BY <1>2, <1>6, <1>8, <2>1, <2>2, <2>3
<1> QED BY <1>9 DEF s

LEMMA CallArguments ==
  ASSUME Types, HandleInv, NEW S \in SUBSET focus, NEW T \in SUBSET focus, Call(S, T),
         NEW k, k \notin {"model", "gpu_layers", "load_params"}
  PROVE  /\ k \in CallArgs =>
              /\ <<"arg", k>> \in T \cup S \cup given["load"] \cup given["configured"] =>
                   k \in DOMAIN request'.args
              /\ <<"arg", k>> \in T => request'.args[k] = "item"
              /\ <<"arg", k>> \in S \ T => request'.args[k] = "shared"
              /\ <<"arg", k>> \in given["load"] \ (S \cup T) => request'.args[k] = "load"
              /\ <<"arg", k>> \in given["configured"] \ (S \cup T \cup given["load"]) =>
                   request'.args[k] = "configured"
         /\ k \in DOMAIN request'.args =>
              <<"arg", k>> \in T \cup S \cup given["load"] \cup given["configured"]
<1> DEFINE it == Args("item", T)
           sh == Args("shared", S)
           kw == Over(it, sh)
           own == Without(kw, {"return_usage"})
           merged == Over(own, handle.defaults)
           all == Over(merged, handle.fields)
           s == <<"arg", k>>
<1>1. Settings(S) /\ Settings(T) /\ TypeOK /\ stage # "pool"
  BY FocusIsSettings DEF Types, Call, CallWith
<1>2. request'.args = Over([model |-> "load"], all)
  <2>1. request'.args = Over([model |-> "load"], Over(Merged(Kwargs(S, T)).args, handle.fields))
    BY DEF Call, CallWith
  <2>2. Merged(Kwargs(S, T)).args
          = Over(Without(Kwargs(S, T).args, {"return_usage"}), handle.defaults)
    BY <1>1, MergedType
  <2>3. Kwargs(S, T).args = kw
    BY <1>1, KwargsType
  <2> QED BY <2>1, <2>2, <2>3
<1>3. /\ k \in DOMAIN it <=> s \in T
      /\ k \in DOMAIN it => it[k] = "item"
  BY <1>1, ArgsLemma
<1>4. /\ k \in DOMAIN sh <=> s \in S
      /\ k \in DOMAIN sh => sh[k] = "shared"
  BY <1>1, ArgsLemma
<1> HIDE DEF it, sh
<1>5. /\ DOMAIN kw = DOMAIN it \cup DOMAIN sh
      /\ \A i \in DOMAIN it : kw[i] = it[i]
      /\ \A i \in DOMAIN sh \ DOMAIN it : kw[i] = sh[i]
  BY OverLemma
<1> HIDE DEF kw
<1>6. /\ DOMAIN own = DOMAIN kw \ {"return_usage"}
      /\ \A i \in DOMAIN kw \ {"return_usage"} : own[i] = kw[i]
  BY WithoutLemma
<1> HIDE DEF own
<1>7. /\ DOMAIN merged = DOMAIN own \cup DOMAIN handle.defaults
      /\ \A i \in DOMAIN own : merged[i] = own[i]
      /\ \A i \in DOMAIN handle.defaults \ DOMAIN own : merged[i] = handle.defaults[i]
  BY OverLemma
<1> HIDE DEF merged
<1>8. /\ DOMAIN all = DOMAIN merged \cup DOMAIN handle.fields
      /\ \A i \in DOMAIN merged : all[i] = merged[i]
      /\ \A i \in DOMAIN handle.fields \ DOMAIN merged : all[i] = handle.fields[i]
  BY OverLemma
<1> HIDE DEF all
<1>9. /\ k \in DOMAIN request'.args <=> k \in DOMAIN all
      /\ k \in DOMAIN all => request'.args[k] = all[k]
  <2> DEFINE M == [model |-> "load"]
  <2>1. DOMAIN M = {"model"}
    BY ModelIsDict
  <2> HIDE DEF M
  <2>2. /\ DOMAIN Over(M, all) = DOMAIN M \cup DOMAIN all
        /\ \A i \in DOMAIN all \ DOMAIN M : Over(M, all)[i] = all[i]
    BY OverLemma
  <2> QED BY <1>2, <2>1, <2>2 DEF M
<1>10. /\ k \in Fields =>
            /\ s \in given["load"] => k \in DOMAIN handle.fields /\ handle.fields[k] = "load"
            /\ s \in given["configured"] \ given["load"] =>
                 k \in DOMAIN handle.fields /\ handle.fields[k] = "configured"
            /\ k \notin DOMAIN handle.defaults
       /\ k \in DOMAIN handle.fields => k \in Fields /\ s \in given["load"] \cup given["configured"]
       /\ k \in DOMAIN handle.defaults => s \in given["load"] /\ handle.defaults[k] = "load"
       /\ k \notin Fields \cup {"ngl"} /\ s \in given["load"] => k \in DOMAIN handle.defaults
       /\ s \in given["configured"] => k \in Fields
  <2>1. s[1] = "arg" /\ s[2] = k
    OBVIOUS
  <2>2. ServerParams \subseteq Fields
    BY DEF Fields
  <2> HIDE DEF s
  <2>3. s \in given["configured"] => k \in Fields
    BY <2>1, <2>2 DEF HandleInv
  <2> USE DEF s
  <2> QED BY <1>1, <2>3 DEF HandleInv
<1>11. k \in CallArgs => k \notin {"ngl", "return_usage"}
  BY DEF CallArgs, Fields, ServerParams
<1>12. CASE s \in T \cup S
  <2>1. k \in DOMAIN kw /\ (s \in T => kw[k] = "item") /\ (s \in S \ T => kw[k] = "shared")
    BY <1>3, <1>4, <1>5, <1>12
  <2>2. k \in CallArgs => k \in DOMAIN merged /\ merged[k] = kw[k]
    BY <1>6, <1>7, <1>11, <2>1
  <2> QED BY <1>8, <1>9, <1>12, <2>1, <2>2
<1>13. CASE s \notin T \cup S
  <2>1. k \notin DOMAIN own
    BY <1>3, <1>4, <1>5, <1>6, <1>13
  <2>2. k \in DOMAIN all <=> k \in DOMAIN handle.defaults \/ k \in DOMAIN handle.fields
    BY <1>7, <1>8, <2>1
  <2>3. k \in DOMAIN handle.defaults => all[k] = handle.defaults[k]
    BY <1>7, <1>8, <2>1
  <2>4. k \in DOMAIN handle.fields /\ k \notin DOMAIN handle.defaults => all[k] = handle.fields[k]
    BY <1>7, <1>8, <2>1
  <2> HIDE DEF s
  <2>5. k \in DOMAIN all => s \in given["load"] \cup given["configured"]
    BY <1>10, <2>2
  <2>6. k \in CallArgs /\ s \in given["load"] => k \in DOMAIN all /\ all[k] = "load"
    BY <1>10, <1>11, <2>2, <2>3, <2>4
  <2>7. s \in given["configured"] \ given["load"] => k \in DOMAIN all /\ all[k] = "configured"
    BY <1>10, <2>2, <2>4
  <2>8. /\ k \in CallArgs /\ s \in given["load"] \cup given["configured"] => k \in DOMAIN request'.args
        /\ k \in CallArgs /\ s \in given["load"] => request'.args[k] = "load"
        /\ s \in given["configured"] \ given["load"] => request'.args[k] = "configured"
        /\ k \in DOMAIN request'.args => s \in given["load"] \cup given["configured"]
    BY <1>9, <2>5, <2>6, <2>7
  <2> USE DEF s
  <2> QED BY <1>13, <2>8
<1> QED BY <1>12, <1>13

LEMMA CallNearest ==
  ASSUME Types, HandleInv, NEW S \in SUBSET focus, NEW T \in SUBSET focus, Call(S, T)
  PROVE  NearestLayerWins'
<1>1. /\ given'["item"] = T /\ given'["shared"] = S
      /\ given'["load"] = given["load"] /\ given'["configured"] = given["configured"]
      /\ focus' = focus
  BY DEF Call, CallWith, Types, TypeOK, LayerSet
<1>2. NearestIs'
  BY NearestNext
<1>3. \A s :
        /\ Givers(s)' # {} <=>
             s \in T \/ s \in S \/ s \in given["load"] \/ s \in given["configured"]
        /\ s \in T => Nearest(s)' = "item"
        /\ s \in S \ T => Nearest(s)' = "shared"
        /\ s \in given["load"] \ (S \cup T) => Nearest(s)' = "load"
        /\ s \in given["configured"] \ (S \cup T \cup given["load"]) => Nearest(s)' = "configured"
  BY <1>1, <1>2 DEF NearestIs, Given
<1>4. ASSUME NEW s \in focus', s[1] = "options", Givers(s)' # {}
      PROVE  s[2] \in DOMAIN request'.options /\ request'.options[s[2]] = Nearest(s)'
  <2> DEFINE k == s[2]
  <2>1. s = <<"options", k>>
    BY <1>1, <1>4, FocusIsSettings DEF Types, Settings
  <2>2. s \notin given["configured"]
    BY <1>4 DEF HandleInv
  <2>3. s \in T \/ s \in S \ T \/ s \in given["load"] \ (S \cup T)
    BY <1>3, <1>4, <2>2
  <2>4. /\ s \in T \cup S \cup given["load"] => k \in DOMAIN request'.options
        /\ s \in T => request'.options[k] = "item"
        /\ s \in S \ T => request'.options[k] = "shared"
        /\ s \in given["load"] \ (S \cup T) => request'.options[k] = "load"
    <3> HIDE DEF k
    <3> QED BY <2>1, CallOptions
  <2> QED BY <1>3, <2>3, <2>4
<1>5. ASSUME NEW k \in CallArgs \ {"model", "gpu_layers", "load_params"},
             Givers(<<"arg", k>>)' # {}
      PROVE  k \in DOMAIN request'.args /\ request'.args[k] = Nearest(<<"arg", k>>)'
  <2> DEFINE s == <<"arg", k>>
  <2>1. /\ s \in T \cup S \cup given["load"] \cup given["configured"] => k \in DOMAIN request'.args
        /\ s \in T => request'.args[k] = "item"
        /\ s \in S \ T => request'.args[k] = "shared"
        /\ s \in given["load"] \ (S \cup T) => request'.args[k] = "load"
        /\ s \in given["configured"] \ (S \cup T \cup given["load"]) =>
             request'.args[k] = "configured"
    BY CallArguments
  <2>2. Givers(s)' # {}
    BY <1>5
  <2> HIDE DEF s
  <2>3. k \in DOMAIN request'.args /\ request'.args[k] = Nearest(s)'
    BY <1>3, <2>1, <2>2
  <2> QED BY <2>3 DEF s
<1>6. ASSUME NEW k \in DOMAIN request'.args \ {"model", "gpu_layers", "load_params"}
      PROVE  Givers(<<"arg", k>>)' # {}
  <2>1. <<"arg", k>> \in T \cup S \cup given["load"] \cup given["configured"]
    BY CallArguments
  <2> QED BY <1>3, <2>1
<1>7. ASSUME NEW k \in DOMAIN request'.options \ {"num_ctx"}
      PROVE  Givers(<<"options", k>>)' # {}
  <2>1. <<"options", k>> \in T \cup S \cup given["load"]
    BY CallOptions
  <2> QED BY <1>3, <2>1
<1> QED BY <1>4, <1>5, <1>6, <1>7 DEF NearestLayerWins

(* What a call, a batch, load_model() or configure() gives reaches _call   *)
(* from the nearest of them, and nothing else does.                        *)
THEOREM NearestWins == Spec => []NearestLayerWins
<1>1. Init => NearestLayerWins
  BY DEF Init, NearestLayerWins
<1>2. ASSUME Types, HandleInv, NearestLayerWins, [Next]_vars
      PROVE  NearestLayerWins'
  <2>1. ASSUME NEW S \in SUBSET focus, NEW T \in SUBSET focus, Call(S, T)
        PROVE  NearestLayerWins'
    BY <1>2, <2>1, CallNearest
  <2>2. CASE stage' \notin {"merged", "sent"}
    BY <2>2 DEF NearestLayerWins
  <2>3. CASE Done \/ \E S \in SUBSET focus : Configure(S) \/ LoadModel(S)
    <3>1. stage' \in {"pool", "loaded"}
      BY <2>3 DEF Done, Configure, LoadModel
    <3> QED BY <2>2, <3>1
  <2>4. CASE Send \/ UNCHANGED vars
    <3>1. UNCHANGED <<focus, given, request>> /\ (stage' \in {"merged", "sent"} => stage \in {"merged", "sent"})
      BY <2>4 DEF Send, vars
    <3>2. \A s : Givers(s)' = Givers(s)
      BY <3>1 DEF Givers
    <3>3. \A s : Nearest(s)' = Nearest(s)
      BY <3>1 DEF Nearest, Givers
    <3> QED BY <1>2, <3>1, <3>2, <3>3 DEF NearestLayerWins
  <2> QED BY <1>2, <2>1, <2>3, <2>4 DEF Next
<1> QED BY <1>1, <1>2, HandleInvariant, PTL DEF Spec

(* What layers give as options is what _call has, and from whom.           *)
LEMMA LimitsOfRequest ==
  ASSUME Types, NearestLayerWins, stage \in {"merged", "sent"}
  PROVE  /\ \A k \in {LimitNames[i] : i \in DOMAIN LimitNames} :
              /\ k \in DOMAIN request.options <=> Givers(<<"options", k>>) # {}
              /\ k \in DOMAIN request.options => request.options[k] = Nearest(<<"options", k>>)
         /\ LimitsGiven # {} =>
              \E i \in DOMAIN LimitNames :
                /\ FirstLimit = <<"options", LimitNames[i]>>
                /\ LimitNames[i] \in DOMAIN request.options
                /\ request.options[LimitNames[i]] = Nearest(FirstLimit)
                /\ \A j \in DOMAIN LimitNames :
                     LimitNames[j] \in DOMAIN request.options => i <= j
<1>1. /\ DOMAIN LimitNames = 1..3
      /\ \A i \in DOMAIN LimitNames : LimitNames[i] # "num_ctx"
  BY DEF LimitNames
<1>2. \A s : Givers(s) # {} => s \in focus
  <2>1. \A s : Givers(s) # {} <=> \E l \in LayerSet : s \in given[l]
    BY NearestLemma DEF NearestIs, Given, LayerSet
  <2> QED BY <2>1 DEF Types, TypeOK
<1>3. ASSUME NEW k \in {LimitNames[i] : i \in DOMAIN LimitNames}
      PROVE  /\ k \in DOMAIN request.options <=> Givers(<<"options", k>>) # {}
             /\ k \in DOMAIN request.options => request.options[k] = Nearest(<<"options", k>>)
  <2> DEFINE s == <<"options", k>>
  <2>1. s[1] = "options" /\ s[2] = k /\ k # "num_ctx"
    BY <1>1
  <2>2. k \in DOMAIN request.options => Givers(s) # {}
    BY <2>1 DEF NearestLayerWins
  <2> HIDE DEF s
  <2>3. Givers(s) # {} => k \in DOMAIN request.options /\ request.options[k] = Nearest(s)
    BY <1>2, <2>1 DEF NearestLayerWins
  <2> QED BY <2>2, <2>3 DEF s
<1>4. ASSUME LimitsGiven # {}
      PROVE  \E i \in DOMAIN LimitNames :
                /\ FirstLimit = <<"options", LimitNames[i]>>
                /\ LimitNames[i] \in DOMAIN request.options
                /\ request.options[LimitNames[i]] = Nearest(FirstLimit)
                /\ \A j \in DOMAIN LimitNames :
                     LimitNames[j] \in DOMAIN request.options => i <= j
  <2>1. LimitsGiven \subseteq 1..3
    BY <1>1 DEF LimitsGiven
  <2>2. PICK i \in LimitsGiven : \A j \in LimitsGiven : i <= j
    BY <1>4, <2>1, SmallestLemma
  <2>3. (CHOOSE x \in LimitsGiven : \A j \in LimitsGiven : x <= j) = i
    <3>1. LimitsGiven \subseteq 1..4
      BY <2>1
    <3> DEFINE I == LimitsGiven
    <3> HIDE DEF I
    <3>2. I \subseteq 1..4 /\ i \in I /\ \A j \in I : i <= j
      BY <2>2, <3>1 DEF I
    <3>3. (CHOOSE x \in I : \A j \in I : x <= j) = i
      BY <3>2, LeastLemma
    <3> QED BY <3>3 DEF I
  <2>4. FirstLimit = <<"options", LimitNames[i]>>
    BY <2>3 DEF FirstLimit
  <2>5. i \in DOMAIN LimitNames /\ Givers(<<"options", LimitNames[i]>>) # {}
    BY DEF LimitsGiven
  <2>6. \A j \in DOMAIN LimitNames : LimitNames[j] \in DOMAIN request.options => j \in LimitsGiven
    BY <1>3 DEF LimitsGiven
  <2>7. LimitNames[i] \in DOMAIN request.options
        /\ request.options[LimitNames[i]] = Nearest(<<"options", LimitNames[i]>>)
    BY <1>3, <2>5
  <2> QED BY <2>2, <2>4, <2>5, <2>6, <2>7
<1> QED BY <1>3, <1>4

LEMMA SendLimit ==
  ASSUME Types, NearestLayerWins, Send
  PROVE  LimitReachesServer'
<1> DEFINE args == request.args
           opts == request.options
           own == LoadParams(args)
           second == <<"options", "max_completion_tokens">>
<1>1. TypeOK /\ stage = "merged" /\ IsDict(args) /\ IsDict(opts)
  BY DEF Send, Types, TypeOK
<1>2. UNCHANGED <<kind, given, request>>
  BY DEF Send
<1>3. \A s : Givers(s) # {} <=> \E l \in LayerSet : s \in given[l]
  BY NearestLemma DEF NearestIs, Given, LayerSet
<1>4. LimitsGiven # {} =>
        \E i \in DOMAIN LimitNames :
          /\ LimitNames[i] \in DOMAIN opts
          /\ opts[LimitNames[i]] = Nearest(FirstLimit)
          /\ \A j \in DOMAIN LimitNames : LimitNames[j] \in DOMAIN opts => i <= j
  BY <1>1, LimitsOfRequest
<1>5. CASE kind = "ollama"
  <2>1. sent'.options = NativeOptions(args, opts)
    BY <1>5 DEF Send
  <2>2. "num_predict" \in DOMAIN own => Carries(sent'.options, "num_predict", own["num_predict"])
    BY <2>1, NativeLimit
  <2>3. "num_predict" \notin DOMAIN own /\ LimitsGiven # {} =>
          Carries(sent'.options, "num_predict", Nearest(FirstLimit))
    BY <1>4, <2>1, NativeLimit
  <2>4. \A k \in {"max_tokens", "max_completion_tokens"} :
          k \in DOMAIN sent'.options => Givers(<<"load_params", k>>) # {}
    BY <1>1, <1>3, <2>1, NativeOptionsType
  <2> QED BY <1>2, <1>5, <2>2, <2>3, <2>4
          DEF LimitReachesServer, LimitsGiven, FirstLimit, Nearest, Givers, LoadParams, Carries
<1>6. CASE kind # "ollama"
  <2>1. sent'.body = OpenAIBody(args, opts)
    BY <1>6 DEF Send
  <2>2. DOMAIN sent'.body \cap OllamaOnly = {}
    BY <2>1, OpenAIBodyType
  <2>3. LimitsGiven # {} => Carries(sent'.body, "max_tokens", Nearest(FirstLimit))
    BY <1>4, <2>1, OpenAILimits
  <2>4. IF Givers(second) # {}
        THEN Carries(sent'.body, "max_completion_tokens", Nearest(second))
        ELSE "max_completion_tokens" \notin DOMAIN sent'.body
    <3>1. "max_completion_tokens" \in {LimitNames[i] : i \in DOMAIN LimitNames}
      <4>1. 2 \in DOMAIN LimitNames /\ LimitNames[2] = "max_completion_tokens"
        BY DEF LimitNames
      <4> QED BY <4>1
    <3>2. /\ "max_completion_tokens" \in DOMAIN opts <=> Givers(second) # {}
          /\ "max_completion_tokens" \in DOMAIN opts =>
               opts["max_completion_tokens"] = Nearest(second)
      BY <1>1, <3>1, LimitsOfRequest
    <3> QED BY <2>1, <3>2, OpenAILimits
  <2> QED BY <1>2, <1>6, <2>2, <2>3, <2>4
          DEF LimitReachesServer, LimitsGiven, FirstLimit, Nearest, Givers, LoadParams, Carries
<1> QED BY <1>5, <1>6

(* Whatever layers give limits under whatever names, the server is sent    *)
(* the first name's, from the layer nearest to the call that gives it, a   *)
(* second one beside it only under the name it was given, and no option of *)
(* the other API.                                                          *)
THEOREM LimitIsSent == Spec => []LimitReachesServer
<1>1. Init => LimitReachesServer
  BY DEF Init, LimitReachesServer
<1>2. ASSUME Types, NearestLayerWins, LimitReachesServer, [Next]_vars
      PROVE  LimitReachesServer'
  <2>1. CASE Send
    BY <1>2, <2>1, SendLimit
  <2>2. CASE \/ Done
             \/ \E S \in SUBSET focus :
                  \/ Configure(S)
                  \/ LoadModel(S)
                  \/ \E T \in SUBSET focus : Call(S, T)
    <3>1. stage' # "sent"
      BY <2>2 DEF Done, Configure, LoadModel, Call, CallWith
    <3> QED BY <3>1 DEF LimitReachesServer
  <2>3. CASE UNCHANGED vars
    BY <1>2, <2>3 DEF vars, LimitReachesServer, LimitsGiven, FirstLimit, Nearest, Givers,
                      LoadParams, Carries
  <2> QED BY <1>2, <2>1, <2>2, <2>3 DEF Next
<1> QED BY <1>1, <1>2, HandleInvariant, NearestWins, PTL DEF Spec

-----------------------------------------------------------------------------
(* Structured replies.                                                     *)

(* Induction up to a bound, for a set rather than for a predicate.         *)
LEMMA BoundedInduction ==
  ASSUME NEW L \in Nat, NEW T,
         0 \in T,
         \A n \in 0..(L - 1) : n \in T => n + 1 \in T
  PROVE  \A n \in 0..L : n \in T
<1> DEFINE Bad  == {n \in 0..L : n \notin T}
           Less == {ss \in Nat \X Nat : ss[1] < ss[2]}
<1>1. SUFFICES ASSUME Bad # {} PROVE FALSE
  OBVIOUS
<1>2. IsWellFoundedOn(Less, Nat)
  BY NatLessThanWellFounded DEF OpToRel
<1>3. Bad \subseteq Nat
  OBVIOUS
<1>4. PICK x \in Bad : \A y \in Bad : ~(<<y, x>> \in Less)
  <2>1. \E x \in Bad : \A y \in Bad : ~(<<y, x>> \in Less)
    <3> HIDE DEF Bad, Less
    <3> QED BY <1>1, <1>2, <1>3, WFMin
  <2> QED BY <2>1
<1>5. x \in 1..L
  OBVIOUS
<1>6. x - 1 \in 0..(L - 1) /\ <<x - 1, x>> \in Less /\ (x - 1) + 1 = x
  BY <1>5
<1>7. x - 1 \in T
  BY <1>4, <1>5, <1>6
<1> QED BY <1>5, <1>6, <1>7

(* A scan of L positions that keeps a value of S: it exists, it satisfies  *)
(* its equations, and they leave no choice.                                *)
Scan(g, S, z, step, n) ==
  /\ g \in [0..n -> S]
  /\ g[0] = z
  /\ \A i \in 1..n : g[i] = step[<<g[i - 1], i>>]

LEMMA ScanExists ==
  ASSUME NEW L \in Nat, NEW S, NEW z \in S, NEW step \in [S \X (1..L) -> S]
  PROVE  \E g : Scan(g, S, z, step, L)
<1> DEFINE T == {n \in 0..L : \E g : Scan(g, S, z, step, n)}
<1>1. 0 \in T
  <2>1. Scan([i \in 0..0 |-> z], S, z, step, 0)
    BY DEF Scan
  <2> QED BY <2>1
<1>2. ASSUME NEW n \in 0..(L - 1), n \in T PROVE n + 1 \in T
  <2>1. PICK g : Scan(g, S, z, step, n)
    BY <1>2
  <2> DEFINE h == [i \in 0..(n + 1) |-> IF i = n + 1 THEN step[<<g[n], n + 1>>] ELSE g[i]]
  <2>2. h \in [0..(n + 1) -> S]
    BY <2>1 DEF Scan
  <2>3. h[0] = z /\ \A i \in 0..n : h[i] = g[i]
    BY <2>1 DEF Scan
  <2>4. \A i \in 1..(n + 1) : h[i] = step[<<h[i - 1], i>>]
    <3> TAKE i \in 1..(n + 1)
    <3>1. CASE i = n + 1
      <4>1. i - 1 = n /\ h[n] = g[n]
        BY <3>1, <2>3
      <4>2. h[i] = step[<<g[n], n + 1>>]
        BY <3>1
      <4> QED BY <4>1, <4>2, <3>1
    <3>2. CASE i \in 1..n
      BY <3>2, <2>1, <2>3 DEF Scan
    <3> QED BY <3>1, <3>2
  <2>5. Scan(h, S, z, step, n + 1)
    <3> HIDE DEF h
    <3> QED BY <2>2, <2>3, <2>4 DEF Scan
  <2> QED BY <2>5
<1>3. \A n \in 0..L : n \in T
  <2> HIDE DEF T
  <2> QED BY <1>1, <1>2, BoundedInduction
<1> QED BY <1>3

(* b goes on where a ends.                                                 *)
Extends(a, b) ==
  /\ Len(a) \in Nat /\ Len(b) \in Nat
  /\ Len(a) <= Len(b)
  /\ \A k \in 1..Len(a) : b[k] = a[k]

(* The equations of a scan leave no choice but a scan.                     *)
LEMMA ScanIs ==
  ASSUME NEW L \in Nat, NEW S, NEW z \in S, NEW step, NEW g,
         g = [i \in 0..L |-> g[i]], g[0] = z,
         \A i \in 1..L : g[i - 1] \in S =>
           /\ step[<<g[i - 1], i>>] \in S
           /\ g[i] = step[<<g[i - 1], i>>]
  PROVE  Scan(g, S, z, step, L)
<1> DEFINE K == {n \in 0..L : g[n] \in S}
<1>1. 0 \in K
  OBVIOUS
<1>2. ASSUME NEW n \in 0..(L - 1), n \in K PROVE n + 1 \in K
  <2>1. n + 1 \in 1..L /\ n + 1 \in 0..L /\ (n + 1) - 1 = n /\ g[n] \in S
    BY <1>2
  <2>2. g[n + 1] \in S
    BY <2>1
  <2> QED BY <2>1, <2>2
<1>3. \A n \in 0..L : n \in K
  <2> HIDE DEF K
  <2> QED BY <1>1, <1>2, BoundedInduction
<1>4. g \in [0..L -> S]
  BY <1>3
<1>5. \A i \in 1..L : i - 1 \in 0..L
  OBVIOUS
<1> QED BY <1>3, <1>4, <1>5 DEF Scan

-----------------------------------------------------------------------------
(* A JSON document, wherever it stands in a reply, is what the cleanup     *)
(* steps leave of the reply.                                               *)

(* The provers do not know of a string literal that it is one.             *)
Letter ==
  STRING \cup Openers \cup Closers \cup JsonAtoms \cup PythonAtoms
    \cup {Quote, Apostrophe, Backslash, Newline, ",", "/", "*", "fence", "<think>", "</think>"}
Text == Seq(Letter)

(* Where a parser may be: closers are owed inside a document.              *)
Singles == {"single", "singleEscape"}
Within == {"open", "value", "comma", "string", "escape"} \cup Singles
Lexes ==
  {st \in [owed : Seq(Closers), at : Within \cup {"start", "end", "bad"}] :
     st.at \in Within => st.owed # <<>>}

ReadScan(s, atoms, f) ==
  /\ f \in [0..Len(s) -> Lexes]
  /\ f[0] = Start
  /\ \A i \in 1..Len(s) : f[i] = After(f[i - 1], s[i], atoms)
  /\ Read(s, atoms) = f

LEMMA AfterForms ==
  ASSUME NEW st \in Lexes, NEW c, NEW atoms
  PROVE  LET n == After(st, c, atoms)
         IN  \/ n = st
             \/ n = [st EXCEPT !.at = "bad"]
             \/ st.at \in Within /\ \E w \in Within : n = [st EXCEPT !.at = w]
             \/ n = [owed |-> <<Closing(c)>> \o st.owed, at |-> "open"]
             \/ /\ st.at \in Within
                /\ n = [owed |-> Tail(st.owed),
                        at |-> IF Len(st.owed) = 1 THEN "end" ELSE "value"]
<1> DEFINE n == After(st, c, atoms)
<1>1. CASE st.at = "string"
  <2>1. n \in {st, [st EXCEPT !.at = "escape"], [st EXCEPT !.at = "value"], [st EXCEPT !.at = "bad"]}
    BY <1>1 DEF After, InQuotes
  <2> QED BY <1>1, <2>1 DEF Within, Singles
<1>2. CASE st.at = "escape"
  <2>1. n \in {[st EXCEPT !.at = "string"], [st EXCEPT !.at = "bad"]}
    BY <1>2 DEF After, InQuotes
  <2> QED BY <1>2, <2>1 DEF Within, Singles
<1>9. CASE st.at = "single"
  <2>1. n \in {st, [st EXCEPT !.at = "singleEscape"], [st EXCEPT !.at = "value"],
               [st EXCEPT !.at = "bad"]}
    BY <1>9 DEF After, InQuotes
  <2> QED BY <1>9, <2>1 DEF Within, Singles
<1>10. CASE st.at = "singleEscape"
  <2>1. n \in {[st EXCEPT !.at = "single"], [st EXCEPT !.at = "bad"]}
    BY <1>10 DEF After, InQuotes
  <2> QED BY <1>10, <2>1 DEF Within, Singles
<1>3. CASE st.at = "open"
  <2>1. \/ n \in {st, [st EXCEPT !.at = "value"], [st EXCEPT !.at = "string"],
               [st EXCEPT !.at = "single"], [st EXCEPT !.at = "bad"]}
        \/ n = [owed |-> <<Closing(c)>> \o st.owed, at |-> "open"]
        \/ n = [owed |-> Tail(st.owed), at |-> IF Len(st.owed) = 1 THEN "end" ELSE "value"]
    BY <1>3 DEF After, InQuotes
  <2> QED BY <1>3, <2>1 DEF Within, Singles
<1>4. CASE st.at = "comma"
  <2>1. \/ n \in {st, [st EXCEPT !.at = "value"], [st EXCEPT !.at = "string"],
               [st EXCEPT !.at = "single"], [st EXCEPT !.at = "bad"]}
        \/ n = [owed |-> <<Closing(c)>> \o st.owed, at |-> "open"]
    BY <1>4 DEF After, InQuotes
  <2> QED BY <1>4, <2>1 DEF Within, Singles
<1>5. CASE st.at = "value"
  <2>1. \/ n \in {st, [st EXCEPT !.at = "comma"], [st EXCEPT !.at = "bad"]}
        \/ n = [owed |-> Tail(st.owed), at |-> IF Len(st.owed) = 1 THEN "end" ELSE "value"]
    BY <1>5 DEF After, InQuotes
  <2> QED BY <1>5, <2>1 DEF Within, Singles
<1>6. CASE st.at = "start"
  BY <1>6 DEF After, InQuotes
<1>7. CASE st.at \in {"end", "bad"}
  <2>1. n \in {st, [st EXCEPT !.at = "bad"]}
    BY <1>7 DEF After, InQuotes
  <2> QED BY <2>1
<1>8. st.at \in Within \cup {"start", "end", "bad"}
  BY DEF Lexes
<1> QED BY <1>1, <1>2, <1>3, <1>4, <1>5, <1>6, <1>7, <1>8, <1>9, <1>10 DEF Within, Singles

LEMMA AfterType ==
  ASSUME NEW st \in Lexes, NEW c, NEW atoms
  PROVE  After(st, c, atoms) \in Lexes
<1>1. /\ st = [owed |-> st.owed, at |-> st.at]
      /\ st.owed \in Seq(Closers) /\ st.at \in Within \cup {"start", "end", "bad"}
      /\ st.at \in Within => st.owed # <<>>
  BY DEF Lexes
<1>2. Closing(c) \in Closers
  BY DEF Closing, Closers
<1>3. <<Closing(c)>> \o st.owed \in Seq(Closers) /\ <<Closing(c)>> \o st.owed # <<>>
  <2>1. <<Closing(c)>> \in Seq(Closers) /\ Len(<<Closing(c)>>) = 1 /\ Len(st.owed) \in Nat
    BY <1>1, <1>2
  <2>2. /\ <<Closing(c)>> \o st.owed \in Seq(Closers)
        /\ Len(<<Closing(c)>> \o st.owed) = 1 + Len(st.owed)
    BY <1>1, <2>1, ConcatProperties
  <2> QED BY <2>1, <2>2
<1>4. ASSUME st.at \in Within
      PROVE  /\ Tail(st.owed) \in Seq(Closers)
             /\ Len(st.owed) # 1 => Tail(st.owed) # <<>>
  <2>1. /\ Tail(st.owed) \in Seq(Closers) /\ Len(st.owed) \in Nat
        /\ Len(Tail(st.owed)) = Len(st.owed) - 1
    BY <1>1, <1>4, HeadTailProperties
  <2>2. Len(<<>>) = 0
    OBVIOUS
  <2>3. Len(st.owed) # 1 => Len(Tail(st.owed)) # 0
    BY <2>1
  <2> QED BY <2>1, <2>2, <2>3
<1> DEFINE n == After(st, c, atoms)
<1>5. /\ n = [owed |-> n.owed, at |-> n.at]
      /\ n.owed \in Seq(Closers) /\ n.at \in Within \cup {"start", "end", "bad"}
      /\ n.at \in Within => n.owed # <<>>
  <2> HIDE DEF n
  <2>1. CASE n = st
    BY <1>1, <2>1
  <2>2. CASE n = [st EXCEPT !.at = "bad"]
    <3>1. n = [owed |-> st.owed, at |-> "bad"]
      BY <1>1, <2>2
    <3> QED BY <1>1, <3>1 DEF Within, Singles
  <2>3. ASSUME st.at \in Within, NEW w \in Within, n = [st EXCEPT !.at = w]
        PROVE  /\ n = [owed |-> n.owed, at |-> n.at]
               /\ n.owed \in Seq(Closers) /\ n.at \in Within \cup {"start", "end", "bad"}
               /\ n.at \in Within => n.owed # <<>>
    <3>1. n = [owed |-> st.owed, at |-> w]
      BY <1>1, <2>3
    <3> QED BY <1>1, <2>3, <3>1
  <2>4. CASE n = [owed |-> <<Closing(c)>> \o st.owed, at |-> "open"]
    BY <1>3, <2>4 DEF Within, Singles
  <2>5. CASE /\ st.at \in Within
             /\ n = [owed |-> Tail(st.owed), at |-> IF Len(st.owed) = 1 THEN "end" ELSE "value"]
    BY <1>4, <2>5 DEF Within, Singles
  <2> QED BY <2>1, <2>2, <2>3, <2>4, <2>5, AfterForms DEF n
<1> QED BY <1>5 DEF Lexes

LEMMA ReadByScan ==
  ASSUME NEW s \in Text, NEW atoms
  PROVE  \E f : ReadScan(s, atoms, f)
<1> DEFINE L == Len(s)
           step == [x \in Lexes \X (1..L) |-> After(x[1], s[x[2]], atoms)]
           read == CHOOSE g : g = [i \in 0..L |->
                     IF i = 0 THEN Start ELSE After(g[i - 1], s[i], atoms)]
<1>0. L \in Nat /\ 0 \in 0..L
  BY DEF Text
<1>1. Start \in Lexes
  BY DEF Start, Lexes, Within, Singles
<1>2. step \in [Lexes \X (1..L) -> Lexes]
  BY <1>0, AfterType
<1>3. PICK g : Scan(g, Lexes, Start, step, L)
  <2> HIDE DEF step, L
  <2> QED BY <1>0, <1>1, <1>2, ScanExists
<1>4. g = [i \in 0..L |-> IF i = 0 THEN Start ELSE After(g[i - 1], s[i], atoms)]
  <2>1. g = [i \in 0..L |-> g[i]] /\ g[0] = Start
    BY <1>3 DEF Scan
  <2>2. ASSUME NEW i \in 1..L PROVE g[i] = After(g[i - 1], s[i], atoms)
    <3>1. i - 1 \in 0..L
      BY <1>0
    <3>2. g[i - 1] \in Lexes /\ g[i] = step[<<g[i - 1], i>>]
      <4> HIDE DEF step, L
      <4> QED BY <1>3, <3>1 DEF Scan
    <3> QED BY <3>2
  <2>3. \A i \in 0..L :
          g[i] = IF i = 0 THEN Start ELSE After(g[i - 1], s[i], atoms)
    BY <1>0, <2>1, <2>2
  <2> HIDE DEF L
  <2> QED BY <2>1, <2>3
<1>5. read = [i \in 0..L |-> IF i = 0 THEN Start ELSE After(read[i - 1], s[i], atoms)]
  BY <1>4
<1>6. Read(s, atoms) = read
  BY DEF Read
<1>7. Scan(read, Lexes, Start, step, L) /\ \A i \in 1..L : read[i] = After(read[i - 1], s[i], atoms)
  <2> HIDE DEF read
  <2>1. read[0] = Start /\ read = [i \in 0..L |-> read[i]]
    BY <1>0, <1>5
  <2>2. \A i \in 1..L : read[i] = After(read[i - 1], s[i], atoms)
    BY <1>0, <1>5
  <2>3. \A i \in 1..L : read[i - 1] \in Lexes =>
           /\ step[<<read[i - 1], i>>] \in Lexes
           /\ read[i] = step[<<read[i - 1], i>>]
    BY <1>2, <2>2
  <2> HIDE DEF step, L
  <2> QED BY <1>0, <1>1, <2>1, <2>2, <2>3, ScanIs
<1> QED BY <1>6, <1>7 DEF Scan, ReadScan

-----------------------------------------------------------------------------
(* A reader that does not mind trailing commas, but minds what the         *)
(* scanners look for between apostrophes.                                  *)
Loose(st, c) ==
  IF st.at \in Singles /\ c \in Sought THEN [st EXCEPT !.at = "bad"]
  ELSE After(IF st.at = "comma" /\ c \in Closers THEN [st EXCEPT !.at = "value"] ELSE st,
             c, Atoms)

LooseScan(s, f) ==
  /\ f \in [0..Len(s) -> Lexes]
  /\ f[0] = Start
  /\ \A i \in 1..Len(s) : f[i] = Loose(f[i - 1], s[i])

LEMMA LooseType ==
  ASSUME NEW st \in Lexes, NEW c
  PROVE  Loose(st, c) \in Lexes
<1>1. CASE st.at = "comma" /\ c \in Closers
  <2>1. [st EXCEPT !.at = "value"] \in Lexes
    BY <1>1 DEF Lexes, Within
  <2> QED BY <1>1, <2>1, AfterType DEF Loose, Singles
<1>2. CASE st.at \in Singles /\ c \in Sought
  <2>1. [st EXCEPT !.at = "bad"] \in Lexes
    BY DEF Lexes, Within, Singles
  <2> QED BY <1>2, <2>1 DEF Loose
<1>3. CASE ~(st.at = "comma" /\ c \in Closers) /\ ~(st.at \in Singles /\ c \in Sought)
  BY <1>3, AfterType DEF Loose
<1> QED BY <1>1, <1>2, <1>3

LEMMA LooseByScan ==
  ASSUME NEW s \in Text
  PROVE  \E f : LooseScan(s, f)
<1> DEFINE L == Len(s)
           step == [x \in Lexes \X (1..L) |-> Loose(x[1], s[x[2]])]
<1>0. L \in Nat
  BY DEF Text
<1>1. Start \in Lexes
  BY DEF Start, Lexes, Within, Singles
<1>2. step \in [Lexes \X (1..L) -> Lexes]
  BY <1>0, LooseType
<1>3. PICK g : Scan(g, Lexes, Start, step, L)
  <2> HIDE DEF step, L
  <2> QED BY <1>0, <1>1, <1>2, ScanExists
<1>4. g \in [0..L -> Lexes] /\ g[0] = Start
  BY <1>3 DEF Scan
<1>5. ASSUME NEW i \in 1..L PROVE g[i] = Loose(g[i - 1], s[i])
  <2>1. i - 1 \in 0..L
    BY <1>0
  <2>2. g[i - 1] \in Lexes /\ g[i] = step[<<g[i - 1], i>>]
    <3> HIDE DEF step, L
    <3> QED BY <1>3, <2>1 DEF Scan
  <2> QED BY <2>2
<1> QED BY <1>4, <1>5 DEF LooseScan

LEMMA OneLooseScan ==
  ASSUME NEW s \in Text, NEW f, LooseScan(s, f), NEW g, LooseScan(s, g)
  PROVE  f = g
<1> DEFINE L == Len(s)
           K == {n \in 0..L : f[n] = g[n]}
<1>0. L \in Nat
  BY DEF Text
<1>1. 0 \in K
  BY <1>0 DEF LooseScan
<1>2. ASSUME NEW n \in 0..(L - 1), n \in K PROVE n + 1 \in K
  <2>1. n + 1 \in 1..L /\ n + 1 \in 0..L /\ (n + 1) - 1 = n
    BY <1>0
  <2>2. f[n + 1] = Loose(f[n], s[n + 1]) /\ g[n + 1] = Loose(g[n], s[n + 1])
    BY <2>1 DEF LooseScan
  <2> QED BY <1>2, <2>1, <2>2
<1>3. \A n \in 0..L : n \in K
  <2> HIDE DEF K, L
  <2> QED BY <1>0, <1>1, <1>2, BoundedInduction
<1> QED BY <1>3 DEF LooseScan

(* One character of a document on, by where the parser is.                 *)
LEMMA InString ==
  ASSUME NEW st \in Lexes, st.at \in {"string", "escape"},
         NEW c, Loose(st, c).at # "bad"
  PROVE  LET n == Loose(st, c)
         IN  /\ n.owed = st.owed
             /\ n.at = IF st.at = "escape" THEN "string"
                       ELSE IF c = Quote THEN "value"
                       ELSE IF c = Backslash THEN "escape"
                       ELSE "string"
<1>1. st = [owed |-> st.owed, at |-> st.at]
  BY DEF Lexes
<1>2. CASE st.at = "string"
  BY <1>1, <1>2 DEF Loose, After, Quote, Backslash, InQuotes, Singles
<1>3. CASE st.at = "escape"
  BY <1>1, <1>3 DEF Loose, After, InQuotes, Singles
<1> QED BY <1>2, <1>3

(* What a character outside strings may be, and what it does.              *)
Pushes(st, c, n) ==
  /\ c \in Openers
  /\ n = [owed |-> <<Closing(c)>> \o st.owed, at |-> "open"]

Pops(st, c, n) ==
  /\ st.at \in {"open", "value", "comma"}
  /\ c \in Closers /\ c = Head(st.owed)
  /\ n = [owed |-> Tail(st.owed), at |-> IF Len(st.owed) = 1 THEN "end" ELSE "value"]

Passes(st, c, n) ==
  /\ c \notin Openers \cup Closers \cup {"/"}
  /\ n.owed = st.owed
  /\ IF st.at \in Singles
     THEN /\ c # Quote
          /\ n.at \in Singles \cup {"value"}
          /\ c \in Blanks => n.at = st.at
     ELSE n.at = IF c \in Blanks THEN st.at
                 ELSE IF c = Quote THEN "string"
                 ELSE IF c = "," THEN "comma"
                 ELSE IF c = Apostrophe THEN "single"
                 ELSE "value"

LEMMA InSingle ==
  ASSUME NEW st \in Lexes, st.at \in Singles,
         NEW c, Loose(st, c).at # "bad"
  PROVE  /\ Passes(st, c, Loose(st, c))
         /\ c # Newline
         /\ Loose(st, c) = After(st, c, Atoms)
<1>1. st = [owed |-> st.owed, at |-> st.at]
  BY DEF Lexes
<1>2. c \notin Sought /\ Loose(st, c) = After(st, c, Atoms)
  <2>1. [st EXCEPT !.at = "bad"].at = "bad"
    BY <1>1
  <2>2. c \notin Sought
    BY <2>1 DEF Loose
  <2> QED BY <2>2 DEF Loose, Singles
<1>3. c \notin Openers \cup Closers \cup {"/"} /\ c # Quote
  BY <1>2 DEF Sought
<1>4. CASE st.at = "single"
  <2> DEFINE n == After(st, c, Atoms)
  <2>1. c # Newline /\ Apostrophe # Backslash /\ n.at # "bad"
        /\ (c \in {Apostrophe, Backslash} => c \notin Blanks)
    BY <1>1, <1>2, <1>4 DEF After, InQuotes, Blanks, Apostrophe, Backslash, Newline
  <2>2. n.owed = st.owed /\ n.at \in Singles \cup {"value"} /\ (c \in Blanks => n.at = st.at)
    <3>1. CASE c = Apostrophe
      <4>1. n = [owed |-> st.owed, at |-> "value"]
        BY <1>1, <1>4, <2>1, <3>1 DEF After, InQuotes
      <4> QED BY <2>1, <3>1, <4>1
    <3>2. CASE c = Backslash
      <4>1. n = [owed |-> st.owed, at |-> "singleEscape"]
        BY <1>1, <1>4, <2>1, <3>2 DEF After, InQuotes
      <4> QED BY <2>1, <3>2, <4>1 DEF Singles
    <3>3. CASE c \notin {Apostrophe, Backslash}
      <4>1. n = st
        BY <1>4, <2>1, <3>3 DEF After, InQuotes
      <4> QED BY <1>4, <4>1 DEF Singles
    <3> QED BY <3>1, <3>2, <3>3
  <2> HIDE DEF n
  <2>3. Passes(st, c, n)
    BY <1>3, <1>4, <2>2 DEF Passes, Singles
  <2> QED BY <1>2, <2>1, <2>3 DEF n
<1>5. CASE st.at = "singleEscape"
  <2>1. c \in {Quote, Apostrophe, Backslash, "x"}
    BY <1>1, <1>2, <1>5 DEF After, InQuotes
  <2>2. c \notin Blanks /\ c # Newline
    BY <2>1 DEF Blanks, Newline, Quote, Apostrophe, Backslash
  <2> QED BY <1>1, <1>2, <1>3, <1>5, <2>1, <2>2 DEF After, InQuotes, Singles, Passes
<1> QED BY <1>4, <1>5 DEF Singles

LEMMA OutsideQuotes ==
  ASSUME NEW st \in Lexes, st.at \notin {"string", "escape"} \cup Singles,
         NEW c, Loose(st, c).at # "bad"
  PROVE  LET n == Loose(st, c)
         IN  /\ st.at # "bad"
             /\ \/ st.at \in {"start", "open", "comma"} /\ Pushes(st, c, n)
                \/ Pops(st, c, n)
                \/ Passes(st, c, n) /\ (st.at = "end" => c \in Blanks)
                                    /\ (st.at = "start" => c \in Blanks)
             /\ c = "," => st.at = "value" /\ n.at = "comma"
<1> DEFINE n == Loose(st, c)
<1>1. st = [owed |-> st.owed, at |-> st.at] /\ st.at \in Within \cup {"start", "end", "bad"}
  BY DEF Lexes
<1>2. st.at # "bad"
  BY <1>1 DEF Loose, After, InQuotes, Singles
<1>0. c \notin Closers => n = After(st, c, Atoms)
  BY DEF Loose, Singles
<1>3. CASE c \in Blanks
  <2>1. n = st
    BY <1>0, <1>1, <1>2, <1>3
       DEF After, InQuotes, Within, Singles, Blanks, Newline, Openers, Closers, Atoms, JsonAtoms, PythonAtoms, Quote, Apostrophe
  <2> QED BY <1>1, <1>2, <1>3, <2>1
           DEF Passes, Singles, Blanks, Newline, Openers, Closers, Quote
<1>4. CASE c \in Openers
  <2>1. c \notin Blanks \cup Closers \cup Atoms \cup {Quote, ","}
    BY <1>4 DEF Blanks, Newline, Openers, Closers, Atoms, JsonAtoms, PythonAtoms, Quote, Apostrophe
  <2>2. st.at \in {"start", "open", "comma"}
    BY <1>0, <1>1, <1>2, <1>4, <2>1 DEF After, InQuotes, Within, Singles
  <2>3. n = [owed |-> <<Closing(c)>> \o st.owed, at |-> "open"]
    BY <1>0, <1>4, <2>1, <2>2 DEF After, InQuotes
  <2> QED BY <1>2, <1>4, <2>1, <2>2, <2>3 DEF Pushes
<1>5. CASE c \in Closers
  <2>1. c \notin Blanks \cup Openers \cup Atoms \cup {Quote, ","}
    BY <1>5 DEF Blanks, Newline, Openers, Closers, Atoms, JsonAtoms, PythonAtoms, Quote, Apostrophe
  <2> DEFINE r == IF st.at = "comma" THEN [st EXCEPT !.at = "value"] ELSE st
  <2>2. /\ n = After(r, c, Atoms) /\ r = [owed |-> st.owed, at |-> r.at]
        /\ r.at = IF st.at = "comma" THEN "value" ELSE st.at
    BY <1>1, <1>5 DEF Loose, Singles
  <2> HIDE DEF r, n
  <2>3. r.at \in {"open", "value"} /\ c = Head(r.owed)
    <3>1. n.at # "bad"
      BY DEF n
    <3> QED BY <1>1, <1>2, <1>5, <2>1, <2>2, <3>1 DEF After, InQuotes, Within, Singles
  <2>4. n = [owed |-> Tail(r.owed), at |-> IF Len(r.owed) = 1 THEN "end" ELSE "value"]
    BY <1>5, <2>1, <2>2, <2>3 DEF After, InQuotes
  <2>5. st.at \in {"open", "value", "comma"} /\ c = Head(st.owed) /\ r.owed = st.owed
    BY <2>2, <2>3
  <2>6. Pops(st, c, n)
    BY <1>5, <2>4, <2>5 DEF Pops
  <2> QED BY <1>2, <2>1, <2>6 DEF n
<1>6. CASE c \notin Blanks \cup Openers \cup Closers
  <2>0. n = After(st, c, Atoms)
    BY <1>0, <1>6
  <2>1. CASE c \in Atoms
    <3>1. c \notin Blanks \cup Openers \cup Closers \cup {Quote, ",", "/"}
      BY <2>1 DEF Blanks, Newline, Openers, Closers, Atoms, JsonAtoms, PythonAtoms, Quote, Apostrophe
    <3>2. st.at \in {"open", "comma"}
      BY <1>1, <1>2, <2>0, <2>1, <3>1 DEF After, InQuotes, Within, Singles
    <3>3. n = [owed |-> st.owed, at |-> IF c = Apostrophe THEN "single" ELSE "value"]
      BY <1>1, <2>0, <2>1, <3>1, <3>2 DEF After, InQuotes
    <3>4. n.owed = st.owed /\ n.at = IF c = Apostrophe THEN "single" ELSE "value"
      BY <3>3
    <3>5. Passes(st, c, n)
      <4> HIDE DEF n
      <4> QED BY <1>2, <1>6, <3>1, <3>2, <3>4 DEF Passes, Singles
    <3> QED BY <1>2, <1>6, <3>1, <3>2, <3>4, <3>5
  <2>2. CASE c = Quote
    <3>1. c \notin Blanks \cup Openers \cup Closers \cup Atoms \cup {",", "/"}
      BY <2>2 DEF Blanks, Newline, Openers, Closers, Atoms, JsonAtoms, PythonAtoms, Quote, Apostrophe
    <3>2. st.at \in {"open", "comma"}
      BY <1>1, <1>2, <2>0, <2>2, <3>1 DEF After, InQuotes, Within, Singles
    <3>3. n = [owed |-> st.owed, at |-> "string"]
      BY <1>1, <2>0, <2>2, <3>1, <3>2 DEF After, InQuotes
    <3>4. n.owed = st.owed /\ n.at = "string"
      BY <3>3
    <3>5. Passes(st, c, n)
      <4> HIDE DEF n
      <4> QED BY <1>2, <1>6, <2>2, <3>1, <3>2, <3>4 DEF Passes, Singles
    <3> QED BY <1>2, <1>6, <2>2, <3>1, <3>2, <3>4, <3>5
  <2>3. CASE c = ","
    <3>1. c \notin Blanks \cup Openers \cup Closers \cup Atoms \cup {Quote, "/"}
      BY <2>3 DEF Blanks, Newline, Openers, Closers, Atoms, JsonAtoms, PythonAtoms, Quote, Apostrophe
    <3>2. st.at = "value"
      BY <1>1, <1>2, <2>0, <2>3, <3>1 DEF After, InQuotes, Within, Singles
    <3>3. n = [owed |-> st.owed, at |-> "comma"]
      BY <1>1, <2>0, <2>3, <3>1, <3>2 DEF After, InQuotes
    <3>4. n.owed = st.owed /\ n.at = "comma"
      BY <3>3
    <3>5. Passes(st, c, n)
      <4> HIDE DEF n
      <4> QED BY <1>2, <1>6, <2>3, <3>1, <3>2, <3>4 DEF Passes, Singles
    <3> QED BY <1>2, <1>6, <2>3, <3>1, <3>2, <3>4, <3>5
  <2>4. CASE c \notin Atoms \cup {Quote, ","}
    BY <1>1, <1>2, <1>6, <2>0, <2>4 DEF After, InQuotes, Within, Singles
  <2> QED BY <2>1, <2>2, <2>3, <2>4
<1> QED BY <1>3, <1>4, <1>5, <1>6

LEMMA OutsideStrings ==
  ASSUME NEW st \in Lexes, st.at \notin {"string", "escape"},
         NEW c, Loose(st, c).at # "bad"
  PROVE  LET n == Loose(st, c)
         IN  /\ st.at # "bad"
             /\ \/ st.at \in {"start", "open", "comma"} /\ Pushes(st, c, n)
                \/ Pops(st, c, n)
                \/ Passes(st, c, n) /\ (st.at = "end" => c \in Blanks)
                                    /\ (st.at = "start" => c \in Blanks)
             /\ c = "," => st.at \in Singles \/ (st.at = "value" /\ n.at = "comma")
<1>1. CASE st.at \in Singles
  <2>1. Passes(st, c, Loose(st, c))
    BY <1>1, InSingle
  <2>2. st.at # "bad" /\ st.at # "start" /\ st.at # "end"
    BY <1>1 DEF Singles
  <2>3. c = "," => st.at \in Singles
    BY <1>1
  <2> QED BY ONLY <2>1, <2>2, <2>3
<1>2. CASE st.at \notin Singles
  BY <1>2, OutsideQuotes
<1> QED BY <1>1, <1>2

LEMMA StepOutside ==
  ASSUME NEW st \in Lexes, NEW c, NEW n, n = Loose(st, c), n.at # "bad",
         st.at \notin {"string", "escape"}
  PROVE  /\ st.at # "bad"
         /\ \/ st.at \in {"start", "open", "comma"} /\ Pushes(st, c, n)
            \/ Pops(st, c, n)
            \/ Passes(st, c, n) /\ (st.at = "end" => c \in Blanks)
                                /\ (st.at = "start" => c \in Blanks)
         /\ c = "," => st.at \in Singles \/ (st.at = "value" /\ n.at = "comma")
BY OutsideStrings

-----------------------------------------------------------------------------
(* A document with or without trailing commas, in JSON's or Python's       *)
(* names, blanks around it taken off, and with nothing between apostrophes *)
(* that the scanners look for.                                             *)
LooseDocument(d) ==
  /\ d \in Text
  /\ \E f : LooseScan(d, f) /\ f[Len(d)].at = "end"
  /\ d[1] \notin Blanks
  /\ d[Len(d)] \notin Blanks

(* How a document is read: nothing is wrong with it, its first character   *)
(* is an opener, and it does not end before its last one, a closer.        *)
LEMMA ReadOf ==
  ASSUME NEW d, LooseDocument(d), NEW f, LooseScan(d, f)
  PROVE  /\ Len(d) \in Nat \ {0}
         /\ \A i \in 0..Len(d) : f[i] \in Lexes /\ f[i].at # "bad"
         /\ d[1] \in Openers
         /\ \A i \in 1..(Len(d) - 1) : f[i].at \in Within
         /\ f[Len(d)].at = "end" /\ d[Len(d)] \in Closers
<1> DEFINE L == Len(d)
<1>1. L \in Nat /\ f \in [0..L -> Lexes] /\ f[0] = Start /\ f[L].at = "end"
  <2>1. d \in Text
    BY DEF LooseDocument
  <2>2. PICK g : LooseScan(d, g) /\ g[Len(d)].at = "end"
    BY DEF LooseDocument
  <2>3. g = f
    BY <2>1, <2>2, OneLooseScan
  <2> QED BY <2>1, <2>2, <2>3 DEF LooseScan, Text
<1>2. L # 0
  BY <1>1 DEF Start
<1>3. \A i \in 1..L : /\ i - 1 \in 0..L /\ f[i - 1] \in Lexes
                      /\ f[i] = Loose(f[i - 1], d[i])
  BY <1>1 DEF LooseScan
<1>4. \A i \in 1..L : f[i].at # "bad" => f[i - 1].at # "bad"
  <2> TAKE i \in 1..L
  <2> HAVE f[i].at # "bad"
  <2>1. /\ f[i - 1] \in Lexes /\ Loose(f[i - 1], d[i]).at # "bad"
    BY <1>3
  <2> HIDE DEF L
  <2> QED BY ONLY <2>1, OutsideStrings
<1>5. \A i \in 0..L : f[i].at # "bad"
  <2> DEFINE K == {n \in 0..L : f[L - n].at # "bad"}
  <2>1. 0 \in K
    BY <1>1
  <2>2. ASSUME NEW n \in 0..(L - 1), n \in K PROVE n + 1 \in K
    <3>1. L - n \in 1..L /\ (L - n) - 1 = L - (n + 1) /\ n + 1 \in 0..L
      BY <1>1
    <3> QED BY <1>4, <2>2, <3>1
  <2>3. \A n \in 0..L : n \in K
    <3> HIDE DEF K, L
    <3> QED BY <1>1, <2>1, <2>2, BoundedInduction
  <2>4. \A i \in 0..L : L - i \in 0..L /\ L - (L - i) = i
    BY <1>1
  <2> QED BY <2>3, <2>4
<1>6. d[1] \in Openers
  <2>1. f[1] = Loose(Start, d[1]) /\ Start \in Lexes /\ f[1].at # "bad"
    BY <1>1, <1>2, <1>3, <1>5
  <2>2. Start.at = "start" /\ d[1] \notin Blanks
    BY DEF Start, LooseDocument
  <2>3. Loose(Start, d[1]).at # "bad"
    BY <2>1
  <2>4. Pushes(Start, d[1], Loose(Start, d[1])) \/ Pops(Start, d[1], Loose(Start, d[1]))
    BY ONLY <2>1, <2>2, <2>3, OutsideStrings
  <2> QED BY <2>2, <2>4 DEF Pushes, Pops
<1>7. \A i \in 1..L : f[i].at # "start"
  <2> DEFINE K == {n \in 0..L : n >= 1 => f[n].at # "start"}
  <2>1. 0 \in K
    BY <1>1
  <2>2. ASSUME NEW n \in 0..(L - 1), n \in K PROVE n + 1 \in K
    <3>1. n + 1 \in 1..L /\ (n + 1) - 1 = n /\ n \in 0..L /\ n + 1 \in 0..L
      BY <1>1
    <3> DEFINE st == f[n]
               m == f[n + 1]
               c == d[n + 1]
    <3>2. st \in Lexes /\ m.at # "bad" /\ m = Loose(st, c)
      BY <1>3, <1>5, <3>1
    <3>3. m.at # "start"
      <4>1. n = 0 => st.at = "start" /\ c \notin Blanks
        BY <1>1 DEF Start, LooseDocument
      <4>2. n # 0 => st.at # "start"
        BY <2>2, <3>1
      <4> HIDE DEF st, m, c, K, L
      <4>3. CASE st.at \in {"string", "escape"}
        BY <3>2, <4>3, InString
      <4>4. CASE st.at \notin {"string", "escape"}
        <5>1. \/ Pushes(st, c, m)
              \/ Pops(st, c, m)
              \/ Passes(st, c, m) /\ (st.at = "start" => c \in Blanks)
          BY <3>2, <4>4, StepOutside
        <5>2. CASE Pushes(st, c, m)
          BY <5>2 DEF Pushes
        <5>3. CASE Pops(st, c, m)
          BY <5>3 DEF Pops
        <5>4. CASE Passes(st, c, m) /\ (st.at = "start" => c \in Blanks)
          BY <4>1, <4>2, <5>4 DEF Passes, Singles
        <5> QED BY <5>1, <5>2, <5>3, <5>4
      <4> QED BY <4>3, <4>4
    <3> QED BY <3>1, <3>3
  <2>3. \A n \in 0..L : n \in K
    <3> HIDE DEF K, L
    <3> QED BY <1>1, <2>1, <2>2, BoundedInduction
  <2> QED BY <2>3
<1>8. \A i \in 1..(L - 1) : f[i].at # "end"
  <2> TAKE i \in 1..(L - 1)
  <2> SUFFICES ASSUME f[i].at = "end" PROVE FALSE
    OBVIOUS
  <2> DEFINE K == {n \in 0..(L - 1) : n >= i => f[n].at = "end"}
  <2>0. i \in 1..(L - 1) /\ L - 1 \in Nat
    BY <1>1, <1>2
  <2>1. 0 \in K
    BY <2>0
  <2>2. ASSUME NEW n \in 0..((L - 1) - 1), n \in K PROVE n + 1 \in K
    <3>1. /\ n + 1 \in 1..L /\ (n + 1) - 1 = n /\ n + 1 \in 0..L /\ n + 1 \in 0..(L - 1)
          /\ n + 1 >= i => n + 1 = i \/ n >= i
      BY <1>1, <2>0
    <3>2. ASSUME n >= i PROVE f[n + 1].at = "end"
      <4> DEFINE st == f[n]
                 m == f[n + 1]
                 c == d[n + 1]
      <4>1. st \in Lexes /\ st.at = "end" /\ m.at # "bad" /\ m = Loose(st, c)
        BY <1>3, <1>5, <2>2, <3>1, <3>2
      <4> HIDE DEF st, m, c, K, L
      <4>2. Passes(st, c, m) /\ c \in Blanks
        BY <4>1, StepOutside DEF Pops
      <4>3. m.at = "end"
        BY <4>1, <4>2 DEF Passes
      <4> QED BY <4>3 DEF m
    <3> QED BY <3>1, <3>2
  <2>3. \A n \in 0..(L - 1) : n \in K
    <3> HIDE DEF K, L
    <3> QED BY <2>0, <2>1, <2>2, BoundedInduction
  <2>4. L - 1 \in 0..(L - 1) /\ L - 1 >= i /\ L \in 1..L /\ L \in 0..L
    BY <1>1, <2>0
  <2>5. f[L - 1].at = "end"
    BY <2>3, <2>4
  <2>6. f[L - 1] \in Lexes /\ f[L] = Loose(f[L - 1], d[L]) /\ f[L].at # "bad"
    BY <1>3, <1>5, <2>4
  <2>7. d[L] \in Blanks
    <3>1. Loose(f[L - 1], d[L]).at # "bad" /\ ~Pops(f[L - 1], d[L], f[L])
      BY <2>5, <2>6 DEF Pops
    <3> HIDE DEF L
    <3> QED BY ONLY <2>5, <2>6, <3>1, OutsideStrings
  <2> QED BY <2>7 DEF LooseDocument
<1>9. \A i \in 0..L : f[i] \in Lexes /\ f[i].at \in Within \cup {"start", "end", "bad"}
  BY <1>1 DEF Lexes
<1>10. d[L] \in Closers
  <2> DEFINE st == f[L - 1]
             n == f[L]
             c == d[L]
  <2>1. L \in 1..L /\ L - 1 \in 0..L /\ L \in 0..L
    BY <1>1, <1>2
  <2>2. st \in Lexes /\ n = Loose(st, c) /\ n.at = "end" /\ c \notin Blanks /\ n.at # "bad"
    BY <1>1, <1>3, <2>1 DEF LooseDocument
  <2> HIDE DEF st, n, c
  <2>3. st.at \notin {"string", "escape"}
    <3> SUFFICES ASSUME st.at \in {"string", "escape"} PROVE FALSE
      OBVIOUS
    <3>1. n.at \in {"string", "value", "escape"}
      BY <2>2, InString
    <3> QED BY <2>2, <3>1
  <2>4. Pushes(st, c, n) \/ Pops(st, c, n) \/ Passes(st, c, n)
    BY <2>2, <2>3, OutsideStrings
  <2>5. ~Pushes(st, c, n)
    BY <2>2 DEF Pushes
  <2>6. ~Passes(st, c, n)
    BY <2>2 DEF Passes, Singles
  <2> QED BY <2>4, <2>5, <2>6 DEF Pops, c
<1> QED BY <1>1, <1>2, <1>5, <1>6, <1>7, <1>8, <1>9, <1>10

-----------------------------------------------------------------------------
(* A reply with a document in it after a characters without an opener.     *)
(* What follows it does not matter.                                        *)
Finds(s, a, d) ==
  /\ s \in Text /\ a \in Nat /\ Len(d) \in Nat
  /\ a + Len(d) <= Len(s)
  /\ \A i \in 1..Len(d) : s[a + i] = d[i]
  /\ \A i \in 1..a : s[i] \notin Openers

(* How comments are taken off.                                             *)
Uncommented == [out : Text, at : {"code", "string", "escape", "slash", "line", "block", "star"}]

CommentScan(s, f) ==
  /\ f \in [0..Len(s) -> Uncommented]
  /\ f[0] = [out |-> <<>>, at |-> "code"]
  /\ \A i \in 1..Len(s) : f[i] = Uncomment(f[i - 1], s[i])
  /\ Scanned(s) = f[Len(s)]
  /\ WithoutComments(s) = IF f[Len(s)].at = "slash" THEN Append(f[Len(s)].out, "/")
                          ELSE f[Len(s)].out

LEMMA AppendExtends ==
  ASSUME NEW S, NEW a \in Seq(S), NEW x \in S
  PROVE  Append(a, x) \in Seq(S) /\ Extends(a, Append(a, x))
<1>1. /\ Append(a, x) \in Seq(S) /\ Len(a) \in Nat /\ Len(Append(a, x)) = Len(a) + 1
      /\ \A k \in 1..Len(a) : Append(a, x)[k] = a[k]
  BY AppendProperties
<1> QED BY <1>1 DEF Extends

LEMMA ExtendsOn ==
  ASSUME NEW a, NEW b, NEW c, Extends(a, b), Extends(b, c)
  PROVE  Extends(a, c)
BY DEF Extends

LEMMA UncommentType ==
  ASSUME NEW st \in Uncommented, NEW c \in Letter
  PROVE  Uncomment(st, c) \in Uncommented /\ Extends(st.out, Uncomment(st, c).out)
<1> DEFINE n == Uncomment(st, c)
           ats == {"code", "string", "escape", "slash", "line", "block", "star"}
<1>1. st = [out |-> st.out, at |-> st.at] /\ st.out \in Text /\ st.at \in ats
  BY DEF Uncommented
<1>2. /\ Append(st.out, c) \in Text /\ Extends(st.out, Append(st.out, c))
      /\ Append(st.out, "/") \in Text /\ Extends(st.out, Append(st.out, "/"))
      /\ Append(Append(st.out, "/"), c) \in Text
      /\ Extends(st.out, Append(Append(st.out, "/"), c))
      /\ Extends(st.out, st.out)
  <2>1. "/" \in Letter /\ Len(st.out) \in Nat
    <3>1. "/" \in Letter
      BY DEF Letter
    <3>2. Len(st.out) \in Nat
      BY <1>1, LenProperties DEF Text
    <3> QED BY <3>1, <3>2
  <2>2. Extends(st.out, st.out)
    BY <2>1 DEF Extends
  <2>3. Append(st.out, "/") \in Text /\ Extends(st.out, Append(st.out, "/"))
    BY <1>1, <2>1, AppendExtends DEF Text
  <2>4. Append(st.out, c) \in Text /\ Extends(st.out, Append(st.out, c))
    BY <1>1, AppendExtends DEF Text
  <2>5. /\ Append(Append(st.out, "/"), c) \in Text
        /\ Extends(Append(st.out, "/"), Append(Append(st.out, "/"), c))
    BY <2>3, AppendExtends DEF Text
  <2>6. Extends(st.out, Append(Append(st.out, "/"), c))
    BY <2>3, <2>5, ExtendsOn
  <2> QED BY <2>2, <2>3, <2>4, <2>5, <2>6
<1>3. \E out \in {st.out, Append(st.out, c), Append(Append(st.out, "/"), c)}, at \in ats :
        n = [out |-> out, at |-> at]
  <2>0. AtQuote(c) \in ats
    BY DEF AtQuote
  <2>1. CASE st.at = "string"
    <3>1. c = Quote \/ c = Backslash \/ c \notin {Quote, Backslash}
      OBVIOUS
    <3>2. n = [out |-> Append(st.out, c),
               at |-> IF c = Quote THEN "code" ELSE IF c = Backslash THEN "escape" ELSE "string"]
      BY <2>1 DEF Uncomment, Quote, Backslash
    <3> QED BY <3>2
  <2>2. CASE st.at = "escape"
    BY <2>2 DEF Uncomment
  <2>3. CASE st.at = "code"
    <3>1. CASE c = "/"
      <4>1. n = [st EXCEPT !.at = "slash"]
        BY <2>3, <3>1 DEF Uncomment
      <4>2. n = [out |-> st.out, at |-> "slash"]
        BY <1>1, <4>1
      <4> QED BY <4>2
    <3>2. CASE c # "/"
      BY <2>0, <2>3, <3>2 DEF Uncomment
    <3> QED BY <3>1, <3>2
  <2>4. CASE st.at = "slash"
    <3>1. CASE c \in {"/", "*"}
      <4>1. n \in {[st EXCEPT !.at = "line"], [st EXCEPT !.at = "block"]}
        BY <2>4, <3>1 DEF Uncomment
      <4>2. n \in {[out |-> st.out, at |-> "line"], [out |-> st.out, at |-> "block"]}
        BY <1>1, <4>1
      <4> QED BY <4>2
    <3>2. CASE c \notin {"/", "*"}
      BY <2>0, <2>4, <3>2 DEF Uncomment
    <3> QED BY <3>1, <3>2
  <2>5. CASE st.at = "line"
    <3>1. CASE c = Newline
      BY <2>0, <2>5, <3>1 DEF Uncomment
    <3>2. CASE c # Newline
      <4>1. n = st
        BY <2>5, <3>2 DEF Uncomment
      <4> QED BY <1>1, <4>1
    <3> QED BY <3>1, <3>2
  <2>6. CASE st.at \in {"block", "star"}
    <3>1. n \in {[st EXCEPT !.at = "star"], [st EXCEPT !.at = "code"], [st EXCEPT !.at = "block"]}
      BY <2>6 DEF Uncomment
    <3>2. n \in {[out |-> st.out, at |-> "star"], [out |-> st.out, at |-> "code"],
                 [out |-> st.out, at |-> "block"]}
      BY <1>1, <3>1
    <3> QED BY <3>2
  <2> QED BY <1>1, <2>1, <2>2, <2>3, <2>4, <2>5, <2>6
<1>4. PICK out \in {st.out, Append(st.out, c), Append(Append(st.out, "/"), c)}, at \in ats :
        n = [out |-> out, at |-> at]
  BY <1>3
<1> HIDE DEF n
<1>5. n.out = out /\ out \in Text /\ Extends(st.out, out)
  BY <1>1, <1>2, <1>4
<1>6. n \in Uncommented
  BY <1>4, <1>5 DEF Uncommented
<1> QED BY <1>5, <1>6 DEF n

LEMMA CommentsByScan ==
  ASSUME NEW s \in Text
  PROVE  \E f : CommentScan(s, f)
<1> DEFINE L == Len(s)
           z == [out |-> <<>>, at |-> "code"]
           step == [x \in Uncommented \X (1..L) |-> Uncomment(x[1], s[x[2]])]
           state == CHOOSE g : g = [i \in 0..L |->
                      IF i = 0 THEN [out |-> <<>>, at |-> "code"]
                      ELSE Uncomment(g[i - 1], s[i])]
<1>0. L \in Nat /\ 0 \in 0..L /\ \A i \in 1..L : s[i] \in Letter
  BY ElementOfSeq DEF Text
<1>1. z \in Uncommented
  BY DEF Uncommented, Text
<1>2. step \in [Uncommented \X (1..L) -> Uncommented]
  BY <1>0, UncommentType
<1>3. PICK g : Scan(g, Uncommented, z, step, L)
  <2> HIDE DEF step, L, z
  <2> QED BY <1>0, <1>1, <1>2, ScanExists
<1>4. g = [i \in 0..L |-> IF i = 0 THEN z ELSE Uncomment(g[i - 1], s[i])]
  <2>1. g = [i \in 0..L |-> g[i]] /\ g[0] = z
    <3> HIDE DEF z
    <3> QED BY <1>3 DEF Scan
  <2>2. ASSUME NEW i \in 1..L PROVE g[i] = Uncomment(g[i - 1], s[i])
    <3>1. i - 1 \in 0..L
      BY <1>0
    <3>2. g[i - 1] \in Uncommented /\ g[i] = step[<<g[i - 1], i>>]
      <4> HIDE DEF step, L, z
      <4> QED BY <1>3, <3>1 DEF Scan
    <3> QED BY <3>2
  <2> HIDE DEF z
  <2>3. \A i \in 0..L : g[i] = IF i = 0 THEN z ELSE Uncomment(g[i - 1], s[i])
    BY <1>0, <2>1, <2>2
  <2> HIDE DEF L
  <2> QED BY <2>1, <2>3
<1>5. state = [i \in 0..L |-> IF i = 0 THEN z ELSE Uncomment(state[i - 1], s[i])]
  BY <1>4
<1>6. /\ Scanned(s) = state[L]
      /\ WithoutComments(s) = IF state[L].at = "slash" THEN Append(state[L].out, "/")
                              ELSE state[L].out
  <2>1. Scanned(s) = state[L]
    BY DEF Scanned
  <2> HIDE DEF state
  <2> QED BY <2>1 DEF WithoutComments
<1>7. /\ Scan(state, Uncommented, z, step, L)
      /\ \A i \in 1..L : state[i] = Uncomment(state[i - 1], s[i])
  <2> HIDE DEF state, z
  <2>1. state[0] = z /\ state = [i \in 0..L |-> state[i]]
    BY <1>0, <1>5
  <2>2. \A i \in 1..L : state[i] = Uncomment(state[i - 1], s[i])
    BY <1>0, <1>5
  <2>3. \A i \in 1..L : state[i - 1] \in Uncommented =>
           /\ step[<<state[i - 1], i>>] \in Uncommented
           /\ state[i] = step[<<state[i - 1], i>>]
    BY <1>2, <2>2
  <2> HIDE DEF step, L
  <2> QED BY <1>0, <1>1, <2>1, <2>2, <2>3, ScanIs
<1> HIDE DEF state
<1> QED BY <1>6, <1>7 DEF Scan, CommentScan

(* Whether the text is in a string there.                                  *)
Lexed(at) == IF at \in {"string", "escape"} THEN at ELSE "code"

(* A scanner that knows strings is where the parser is.                    *)
LEMMA LexedNext ==
  ASSUME NEW here \in Lexes, NEW c, Loose(here, c).at # "bad"
  PROVE  /\ here.at \notin {"string", "escape"} => c # "/"
         /\ Lexed(Loose(here, c).at) =
              IF here.at = "escape" THEN "string"
              ELSE IF here.at = "string"
                   THEN IF c = Quote THEN "code" ELSE IF c = Backslash THEN "escape" ELSE "string"
              ELSE AtQuote(c)
<1> DEFINE n == Loose(here, c)
<1>1. CASE here.at \in {"string", "escape"}
  <2>1. n.at = IF here.at = "escape" THEN "string"
               ELSE IF c = Quote THEN "value"
               ELSE IF c = Backslash THEN "escape"
               ELSE "string"
    BY <1>1, InString
  <2> QED BY <1>1, <2>1 DEF Lexed
<1>2. CASE here.at \notin {"string", "escape"}
  <2>1. Pushes(here, c, n) \/ Pops(here, c, n) \/ Passes(here, c, n)
    BY <1>2, OutsideStrings
  <2>2. CASE Pushes(here, c, n)
    <3>1. c # "/" /\ c # Quote /\ n.at = "open"
      <4>1. c \in Openers /\ n.at = "open"
        BY <2>2 DEF Pushes
      <4> QED BY <4>1 DEF Openers, Quote
    <3> QED BY <1>2, <3>1 DEF Lexed, AtQuote
  <2>3. CASE Pops(here, c, n)
    <3>1. c # "/" /\ c # Quote /\ n.at \in {"end", "value"}
      <4>1. c \in Closers /\ n.at \in {"end", "value"}
        BY <2>3 DEF Pops
      <4> QED BY <4>1 DEF Closers, Quote
    <3> QED BY <1>2, <3>1 DEF Lexed, AtQuote
  <2>4. CASE Passes(here, c, n)
    <3>1. c # "/" /\ (c \in Blanks => c # Quote)
      BY <2>4 DEF Passes, Blanks, Newline, Quote
    <3>2. /\ c = Quote => n.at = "string"
          /\ c # Quote => n.at \notin {"string", "escape"}
      <4>1. CASE here.at \in Singles
        BY <2>4, <4>1 DEF Passes, Singles
      <4>2. CASE here.at \notin Singles
        BY <1>2, <2>4, <3>1, <4>2 DEF Passes
      <4> QED BY <4>1, <4>2
    <3> QED BY <1>2, <3>1, <3>2 DEF Lexed, AtQuote
  <2> QED BY <2>1, <2>2, <2>3, <2>4
<1> QED BY <1>1, <1>2

LEMMA UncommentKeeps ==
  ASSUME NEW st \in Uncommented, NEW c,
         \/ st.at \in {"string", "escape"}
         \/ st.at = "code" /\ c # "/"
  PROVE  Uncomment(st, c) =
           [out |-> Append(st.out, c),
            at |-> IF st.at = "escape" THEN "string"
                   ELSE IF st.at = "string"
                        THEN IF c = Quote THEN "code" ELSE IF c = Backslash THEN "escape" ELSE "string"
                   ELSE AtQuote(c)]
<1>1. CASE st.at = "string"
  BY <1>1 DEF Uncomment, Quote, Backslash
<1>2. CASE st.at = "escape"
  BY <1>2 DEF Uncomment
<1>3. CASE st.at = "code" /\ c # "/"
  BY <1>3 DEF Uncomment
<1> QED BY <1>1, <1>2, <1>3

-----------------------------------------------------------------------------
(* Blanks around the document are taken off.                               *)

LEMMA LeastAndMost ==
  ASSUME NEW L \in Nat, NEW X \in SUBSET (0..L), X # {}
  PROVE  /\ Min(X) \in X /\ \A y \in X : Min(X) <= y
         /\ Max(X) \in X /\ \A y \in X : y <= Max(X)
<1> DEFINE Less == {ss \in Nat \X Nat : ss[1] < ss[2]}
           Down == {L - x : x \in X}
<1>1. IsWellFoundedOn(Less, Nat)
  BY NatLessThanWellFounded DEF OpToRel
<1>2. \E m \in X : \A y \in X : m <= y
  <2>1. X \subseteq Nat
    OBVIOUS
  <2>2. PICK m \in X : \A y \in X : ~(<<y, m>> \in Less)
    <3>1. \E m \in X : \A y \in X : ~(<<y, m>> \in Less)
      <4> HIDE DEF Less
      <4> QED BY <1>1, <2>1, WFMin
    <3> QED BY <3>1
  <2>3. ASSUME NEW y \in X PROVE m <= y
    <3>1. y \in Nat /\ m \in Nat /\ ~(y < m)
      BY <2>1, <2>2
    <3> QED BY <3>1
  <2> QED BY <2>3
<1>3. \E m \in X : \A y \in X : y <= m
  <2>1. Down \subseteq Nat /\ Down # {}
    <3>1. \A x \in X : x \in 0..L
      OBVIOUS
    <3>2. \A x \in X : L - x \in Nat
      BY <3>1
    <3>3. PICK x \in X : TRUE
      OBVIOUS
    <3>4. L - x \in Down
      BY <3>3
    <3> QED BY <3>2, <3>4
  <2>2. PICK m \in Down : \A y \in Down : ~(<<y, m>> \in Less)
    <3>1. \E m \in Down : \A y \in Down : ~(<<y, m>> \in Less)
      <4> HIDE DEF Less, Down
      <4> QED BY <1>1, <2>1, WFMin
    <3> QED BY <3>1
  <2>3. PICK x \in X : m = L - x
    BY <2>2
  <2>4. ASSUME NEW y \in X PROVE y <= x
    <3>1. L - y \in Down /\ L - y \in Nat /\ m \in Nat /\ x \in 0..L /\ y \in 0..L
      BY <2>1, <2>2
    <3>2. ~(L - y < m)
      BY <2>2, <3>1
    <3> QED BY <2>3, <3>1, <3>2
  <2> QED BY <2>4
<1>4. Min(X) \in X /\ \A y \in X : Min(X) <= y
  BY <1>2 DEF Min
<1>5. Max(X) \in X /\ \A y \in X : Max(X) >= y
  <2>1. \E m \in X : \A y \in X : m >= y
    BY <1>3
  <2> QED BY <2>1 DEF Max
<1>6. Max(X) \in 0..L /\ \A y \in X : y \in 0..L
  BY <1>5
<1> QED BY <1>4, <1>5, <1>6

LEMMA Slice ==
  ASSUME NEW s \in Text, NEW m \in 1..Len(s), NEW M \in m..Len(s)
  PROVE  /\ SubSeq(s, m, M) \in Text
         /\ Len(SubSeq(s, m, M)) = (M - m) + 1
         /\ \A k \in 1..((M - m) + 1) : SubSeq(s, m, M)[k] = s[(m + k) - 1]
<1>1. Len(s) \in Nat /\ \A i \in 1..Len(s) : s[i] \in Letter
  BY ElementOfSeq DEF Text
<1>2. m \in Int /\ M \in Int /\ m <= M /\ \A i \in m..M : s[i] \in Letter
  BY <1>1
<1>3. /\ SubSeq(s, m, M) \in Seq(Letter)
      /\ Len(SubSeq(s, m, M)) = IF m <= M THEN M - m + 1 ELSE 0
      /\ \A i \in 1..M - m + 1 : SubSeq(s, m, M)[i] = s[m + i - 1]
  BY <1>2, SubSeqProperties
<1> QED BY <1>2, <1>3 DEF Text

(* From the first to the last character that is no blank.                  *)
Trimmed(s, m, M) ==
  /\ m \in 1..Len(s) /\ M \in m..Len(s)
  /\ s[m] \notin Blanks /\ s[M] \notin Blanks
  /\ \A k \in 1..Len(s) : s[k] \notin Blanks => m <= k /\ k <= M
  /\ Trim(s) \in Text
  /\ Len(Trim(s)) = (M - m) + 1
  /\ \A k \in 1..((M - m) + 1) : Trim(s)[k] = s[(m + k) - 1]

LEMMA TrimIs ==
  ASSUME NEW s \in Text, NEW i \in 1..Len(s), s[i] \notin Blanks
  PROVE  \E m, M : Trimmed(s, m, M)
<1> DEFINE solid == {k \in DOMAIN s : s[k] \notin Blanks}
           m == Min(solid)
           M == Max(solid)
<1>1. Len(s) \in Nat /\ DOMAIN s = 1..Len(s)
  BY DEF Text
<1>2. solid \in SUBSET (0..Len(s)) /\ solid # {}
  BY <1>1
<1>3. /\ m \in solid /\ \A y \in solid : m <= y
      /\ M \in solid /\ \A y \in solid : y <= M
  <2> HIDE DEF solid
  <2> QED BY <1>1, <1>2, LeastAndMost
<1>4. Trim(s) = SubSeq(s, m, M)
  BY <1>2 DEF Trim
<1> HIDE DEF m, M
<1>5. m \in 1..Len(s) /\ M \in m..Len(s) /\ s[m] \notin Blanks /\ s[M] \notin Blanks
  BY <1>1, <1>3
<1>6. \A k \in 1..Len(s) : s[k] \notin Blanks => m <= k /\ k <= M
  BY <1>1, <1>3
<1>7. Trimmed(s, m, M)
  BY <1>4, <1>5, <1>6, Slice DEF Trimmed
<1> QED BY <1>7

(* Two texts that are alike are the same.                                  *)
LEMMA Alike ==
  ASSUME NEW a \in Text, NEW b \in Text, Len(a) = Len(b),
         \A k \in 1..Len(a) : a[k] = b[k]
  PROVE  a = b
BY SeqEqual DEF Text

LEMMA TrimDocument ==
  ASSUME NEW d, LooseDocument(d)
  PROVE  Trim(d) = d
<1>1. PICK f : LooseScan(d, f)
  BY LooseByScan DEF LooseDocument
<1>2. Len(d) \in Nat \ {0} /\ d \in Text /\ 1 \in 1..Len(d) /\ Len(d) \in 1..Len(d)
  <2>1. Len(d) \in Nat \ {0}
    BY <1>1, ReadOf
  <2> QED BY <2>1 DEF LooseDocument
<1>3. d[1] \notin Blanks /\ d[Len(d)] \notin Blanks
  BY DEF LooseDocument
<1>4. PICK m, M : Trimmed(d, m, M)
  BY <1>2, <1>3, TrimIs
<1>5. m = 1 /\ M = Len(d)
  BY <1>2, <1>3, <1>4 DEF Trimmed
<1> QED BY <1>2, <1>4, <1>5, Alike DEF Trimmed

LEMMA TrimFinds ==
  ASSUME NEW s, NEW a, NEW d, LooseDocument(d), Finds(s, a, d)
  PROVE  \E b : Finds(Trim(s), b, d)
<1> DEFINE L == Len(d)
<1>1. PICK f : LooseScan(d, f)
  BY LooseByScan DEF LooseDocument
<1>2. L \in Nat \ {0}
  BY <1>1, ReadOf
<1>3. /\ s \in Text /\ a \in Nat /\ a + L <= Len(s) /\ Len(s) \in Nat
      /\ \A i \in 1..L : s[a + i] = d[i]
      /\ \A i \in 1..a : s[i] \notin Openers
  BY DEF Finds, Text
<1>4. /\ a + 1 \in 1..Len(s) /\ s[a + 1] \notin Blanks
      /\ a + L \in 1..Len(s) /\ s[a + L] \notin Blanks
  <2>1. 1 \in 1..L /\ L \in 1..L /\ a + 1 \in 1..Len(s) /\ a + L \in 1..Len(s)
    BY <1>2, <1>3
  <2>2. s[a + 1] = d[1] /\ s[a + L] = d[L]
    BY <1>3, <2>1
  <2> QED BY <2>1, <2>2 DEF LooseDocument
<1>5. PICK m, M : Trimmed(s, m, M)
  BY <1>3, <1>4, TrimIs
<1>6. m \in 1..(a + 1) /\ M \in (a + L)..Len(s) /\ M \in m..Len(s)
  BY <1>3, <1>4, <1>5 DEF Trimmed
<1> DEFINE b == (a + 1) - m
<1>7. /\ b \in Nat /\ b + L <= (M - m) + 1
      /\ \A i \in 1..L : b + i \in 1..((M - m) + 1) /\ (m + (b + i)) - 1 = a + i
      /\ \A i \in 1..b : i \in 1..((M - m) + 1) /\ (m + i) - 1 \in 1..a
  BY <1>2, <1>3, <1>6
<1>8. /\ Trim(s) \in Text /\ Len(Trim(s)) = (M - m) + 1
      /\ \A k \in 1..((M - m) + 1) : Trim(s)[k] = s[(m + k) - 1]
  BY <1>5 DEF Trimmed
<1> HIDE DEF b
<1>9. /\ \A i \in 1..L : Trim(s)[b + i] = d[i]
      /\ \A i \in 1..b : Trim(s)[i] \notin Openers
  BY <1>3, <1>7, <1>8
<1>10. Finds(Trim(s), b, d)
  BY <1>2, <1>7, <1>8, <1>9 DEF Finds
<1> QED BY <1>10

-----------------------------------------------------------------------------
(* The document is what the brackets of its first kind enclose.            *)

(* How many closers of a kind are owed, counted from the outermost.        *)
Own(owed, c) == {j \in 1..Len(owed) : owed[(Len(owed) + 1) - j] = c}
Depth(owed, c) == Cardinality(Own(owed, c))

LEMMA DepthType ==
  ASSUME NEW owed \in Seq(Closers), NEW c
  PROVE  /\ IsFiniteSet(Own(owed, c)) /\ Depth(owed, c) \in Nat
         /\ owed = <<>> => Depth(owed, c) = 0
         /\ owed # <<>> /\ owed[Len(owed)] = c => Depth(owed, c) >= 1
<1>1. Len(owed) \in Nat /\ (owed = <<>> => Len(owed) = 0) /\ (owed # <<>> => Len(owed) # 0)
  BY EmptySeq
<1>2. IsFiniteSet(Own(owed, c)) /\ Depth(owed, c) \in Nat
  <2>1. IsFiniteSet(1..Len(owed)) /\ Own(owed, c) \in SUBSET (1..Len(owed))
    BY <1>1, FS_Interval DEF Own
  <2> QED BY <2>1, FS_Subset, FS_CardinalityType DEF Depth
<1>3. owed = <<>> => Depth(owed, c) = 0
  <2>1. owed = <<>> => Own(owed, c) = {}
    BY <1>1 DEF Own
  <2> QED BY <2>1, FS_EmptySet DEF Depth
<1>4. owed # <<>> /\ owed[Len(owed)] = c => Depth(owed, c) >= 1
  <2>1. SUFFICES ASSUME owed # <<>>, owed[Len(owed)] = c PROVE Depth(owed, c) # 0
    BY <1>2
  <2>2. 1 \in Own(owed, c)
    <3>1. 1 \in 1..Len(owed) /\ (Len(owed) + 1) - 1 = Len(owed)
      BY <1>1, <2>1
    <3> QED BY <2>1, <3>1 DEF Own
  <2> QED BY <1>2, <2>2, FS_EmptySet DEF Depth
<1> QED BY <1>2, <1>3, <1>4

LEMMA DepthPush ==
  ASSUME NEW owed \in Seq(Closers), NEW x \in Closers, NEW c
  PROVE  Depth(<<x>> \o owed, c) = IF x = c THEN Depth(owed, c) + 1 ELSE Depth(owed, c)
<1> DEFINE n == Len(owed)
           on == <<x>> \o owed
<1>1. /\ n \in Nat /\ on \in Seq(Closers) /\ Len(on) = n + 1
      /\ on[1] = x /\ \A k \in 1..n : on[k + 1] = owed[k]
  <2>1. <<x>> \in Seq(Closers) /\ Len(<<x>>) = 1 /\ <<x>>[1] = x /\ n \in Nat
    OBVIOUS
  <2>2. /\ on \in Seq(Closers) /\ Len(on) = 1 + n
        /\ \A i \in 1..1 + n : on[i] = IF i <= 1 THEN <<x>>[i] ELSE owed[i - 1]
    BY <2>1, ConcatProperties
  <2> HIDE DEF on, n
  <2>3. 1 \in 1..1 + n /\ \A k \in 1..n : k + 1 \in 1..1 + n /\ ~(k + 1 <= 1) /\ (k + 1) - 1 = k
    BY <2>1
  <2> QED BY <2>1, <2>2, <2>3
<1> HIDE DEF on
<1>2. n + 1 \notin Own(owed, c)
  BY <1>1 DEF Own
<1>3. Own(on, c) = IF x = c THEN Own(owed, c) \cup {n + 1} ELSE Own(owed, c)
  <2>1. \A j \in 1..n : /\ (n + 1) - j \in 1..n
                        /\ (Len(on) + 1) - j = ((n + 1) - j) + 1
    BY <1>1
  <2>2. \A j \in 1..n : on[(Len(on) + 1) - j] = owed[(n + 1) - j]
    BY <1>1, <2>1
  <2>3. on[(Len(on) + 1) - (n + 1)] = x
    <3>1. (Len(on) + 1) - (n + 1) = 1
      BY <1>1
    <3> QED BY <1>1, <3>1
  <2>4. 1..Len(on) = (1..n) \cup {n + 1}
    BY <1>1
  <2> HIDE DEF n
  <2>5. \A j : j \in Own(on, c) <=> \/ j \in 1..n /\ owed[(n + 1) - j] = c
                                    \/ j = n + 1 /\ x = c
    BY <2>2, <2>3, <2>4 DEF Own
  <2>6. \A j : j \in Own(owed, c) <=> j \in 1..n /\ owed[(n + 1) - j] = c
    BY DEF Own, n
  <2> QED BY <2>5, <2>6
<1>4. IsFiniteSet(Own(owed, c))
  BY DepthType
<1> QED BY <1>2, <1>3, <1>4, FS_AddElement DEF Depth, on

LEMMA DepthPop ==
  ASSUME NEW owed \in Seq(Closers), owed # <<>>, NEW c
  PROVE  Depth(Tail(owed), c) =
           IF Head(owed) = c THEN Depth(owed, c) - 1 ELSE Depth(owed, c)
<1>1. /\ Head(owed) \in Closers /\ Tail(owed) \in Seq(Closers)
      /\ Len(Tail(owed)) = Len(owed) - 1 /\ Len(owed) \in Nat \ {0}
      /\ Head(owed) = owed[1]
      /\ \A i \in 1..Len(Tail(owed)) : Tail(owed)[i] = owed[i + 1]
  BY HeadTailProperties, EmptySeq
<1>2. owed = <<Head(owed)>> \o Tail(owed)
  <2> DEFINE h == Head(owed)
             t == Tail(owed)
  <2>1. <<h>> \in Seq(Closers) /\ Len(<<h>>) = 1 /\ <<h>>[1] = h
    BY <1>1
  <2>2. /\ <<h>> \o t \in Seq(Closers) /\ Len(<<h>> \o t) = 1 + Len(t)
        /\ \A i \in 1..1 + Len(t) : (<<h>> \o t)[i] = IF i <= 1 THEN <<h>>[i] ELSE t[i - 1]
    BY <1>1, <2>1, ConcatProperties
  <2>3. /\ Len(<<h>> \o t) = Len(owed)
        /\ \A i \in 1..Len(owed) : (<<h>> \o t)[i] = owed[i]
    <3>1. Len(<<h>> \o t) = Len(owed)
      BY <1>1, <2>2
    <3>2. ASSUME NEW i \in 1..Len(owed) PROVE (<<h>> \o t)[i] = owed[i]
      <4>1. i \in 1..1 + Len(t)
        BY <1>1
      <4>2. CASE i = 1
        BY <1>1, <2>1, <2>2, <4>1, <4>2
      <4>3. CASE i # 1
        <5>1. i - 1 \in 1..Len(t) /\ (i - 1) + 1 = i /\ ~(i <= 1)
          BY <1>1, <4>3
        <5> HIDE DEF h, t
        <5>2. (<<h>> \o t)[i] = t[i - 1]
          BY <2>2, <4>1, <5>1
        <5> QED BY <1>1, <5>1, <5>2 DEF t
      <4> QED BY <4>2, <4>3
    <3> QED BY <3>1, <3>2
  <2> HIDE DEF h, t
  <2>4. owed = <<h>> \o t
    BY <2>2, <2>3, SeqEqual
  <2> QED BY <2>4 DEF h, t
<1>3. Depth(owed, c) = IF Head(owed) = c THEN Depth(Tail(owed), c) + 1 ELSE Depth(Tail(owed), c)
  <2> DEFINE h == Head(owed)
             t == Tail(owed)
  <2>1. h \in Closers /\ t \in Seq(Closers) /\ owed = <<h>> \o t
    BY <1>1, <1>2
  <2> HIDE DEF h, t
  <2>2. Depth(<<h>> \o t, c) = IF h = c THEN Depth(t, c) + 1 ELSE Depth(t, c)
    BY <2>1, DepthPush
  <2> QED BY <2>1, <2>2 DEF h, t
<1>4. Depth(Tail(owed), c) \in Nat
  BY <1>1, DepthType
<1> QED BY <1>3, <1>4

Nests == [at : {"code", "string", "escape"}, depth : Int]
Flat == [at |-> "code", depth |-> 0]

NestScan(s, first, f) ==
  /\ f \in [0..Len(s) -> Nests]
  /\ \A i \in 0..(first - 1) : f[i] = Flat
  /\ \A i \in first..Len(s) : f[i] = Nest(f[i - 1], s[i], s[first])

LEMMA NestType ==
  ASSUME NEW st \in Nests, NEW c, NEW open \in Openers
  PROVE  Nest(st, c, open) \in Nests
<1> DEFINE n == Nest(st, c, open)
<1>1. st = [at |-> st.at, depth |-> st.depth] /\ st.depth \in Int
      /\ st.at \in {"code", "string", "escape"}
  BY DEF Nests
<1>2. Closing(open) # open /\ Quote # open /\ Closing(open) # Quote
  BY DEF Openers, Closing, Quote
<1>3. CASE st.at = "string"
  <2>1. \E w \in {"code", "string", "escape"} : n = [st EXCEPT !.at = w]
    BY <1>3 DEF Nest, Quote, Backslash
  <2>2. PICK w \in {"code", "string", "escape"} : n = [st EXCEPT !.at = w]
    BY <2>1
  <2>3. n = [at |-> w, depth |-> st.depth]
    BY <1>1, <2>2
  <2> HIDE DEF n
  <2>4. n \in Nests
    BY <1>1, <2>3 DEF Nests
  <2> QED BY <2>4 DEF n
<1>4. CASE st.at = "escape"
  BY <1>1, <1>4 DEF Nest, Nests
<1>5. CASE st.at = "code"
  <2>1. n \in {st, [st EXCEPT !.at = "string"], [st EXCEPT !.depth = @ + 1], [st EXCEPT !.depth = @ - 1]}
    BY <1>2, <1>5 DEF Nest
  <2>2. \E w \in {"code", "string"}, k \in Int : n = [at |-> w, depth |-> k]
    <3>1. st.depth + 1 \in Int /\ st.depth - 1 \in Int
      BY <1>1
    <3> HIDE DEF n
    <3>2. n \in {[at |-> "code", depth |-> st.depth], [at |-> "string", depth |-> st.depth],
                 [at |-> "code", depth |-> st.depth + 1], [at |-> "code", depth |-> st.depth - 1]}
      BY <1>1, <1>5, <2>1
    <3> QED BY <1>1, <3>1, <3>2
  <2> HIDE DEF n
  <2>3. n \in Nests
    BY <2>2 DEF Nests
  <2> QED BY <2>3 DEF n
<1> QED BY <1>1, <1>3, <1>4, <1>5

LEMMA BalancedByScan ==
  ASSUME NEW s \in Text, NEW first \in 1..Len(s), s[first] \in Openers,
         \A i \in 1..(first - 1) : s[i] \notin Openers
  PROVE  \E f : /\ NestScan(s, first, f)
                /\ LET ends == {i \in first..Len(s) : f[i].depth = 0}
                   IN  ends # {} => Balanced(s) = SubSeq(s, first, Min(ends))
<1> DEFINE L == Len(s)
           starts == {i \in DOMAIN s : s[i] \in Openers}
           step == [x \in Nests \X (1..L) |->
                      IF x[2] < first THEN Flat ELSE Nest(x[1], s[x[2]], s[first])]
           state == CHOOSE g : g = [i \in 0..L |->
                      IF i < Min(starts) THEN [at |-> "code", depth |-> 0]
                      ELSE Nest(g[i - 1], s[i], s[Min(starts)])]
<1>0. L \in Nat /\ 0 \in 0..L /\ DOMAIN s = 1..L /\ first \in 1..L
  BY DEF Text
<1>1. Flat \in Nests
  BY DEF Nests, Flat
<1>2. step \in [Nests \X (1..L) -> Nests]
  BY <1>0, <1>1, NestType
<1>3. PICK g : Scan(g, Nests, Flat, step, L)
  <2> HIDE DEF step, L
  <2> QED BY <1>0, <1>1, <1>2, ScanExists
<1>4. g = [i \in 0..L |-> IF i < first THEN Flat ELSE Nest(g[i - 1], s[i], s[first])]
  <2>1. g = [i \in 0..L |-> g[i]] /\ g[0] = Flat
    BY <1>3 DEF Scan
  <2>2. ASSUME NEW i \in 1..L
        PROVE  g[i] = IF i < first THEN Flat ELSE Nest(g[i - 1], s[i], s[first])
    <3>1. i - 1 \in 0..L
      BY <1>0
    <3>2. g[i - 1] \in Nests /\ g[i] = step[<<g[i - 1], i>>]
      <4> HIDE DEF step, L
      <4> QED BY <1>3, <3>1 DEF Scan
    <3> QED BY <3>2
  <2>3. \A i \in 0..L : g[i] = IF i < first THEN Flat ELSE Nest(g[i - 1], s[i], s[first])
    <3>1. 0 < first
      BY <1>0
    <3> QED BY <1>0, <2>1, <2>2, <3>1
  <2> HIDE DEF L
  <2> QED BY <2>1, <2>3
<1>6. Min(starts) = first
  <2>1. first \in starts /\ \A i \in starts : first <= i
    <3>1. first \in starts
      BY <1>0
    <3>2. ASSUME NEW i \in starts PROVE first <= i
      <4>1. i \in 1..L /\ s[i] \in Openers
        BY <1>0
      <4>2. ~(i \in 1..(first - 1))
        BY <4>1
      <4> QED BY <1>0, <4>1, <4>2
    <3> QED BY <3>1, <3>2
  <2>2. starts \in SUBSET (0..L) /\ starts # {}
    BY <1>0, <2>1
  <2> HIDE DEF starts
  <2>3. Min(starts) \in starts /\ \A y \in starts : Min(starts) <= y
    BY <1>0, <2>2, LeastAndMost
  <2>4. Min(starts) \in 0..L /\ Min(starts) <= first /\ first <= Min(starts)
    BY <2>1, <2>2, <2>3
  <2> QED BY <1>0, <2>4
<1>5. state = [i \in 0..L |-> IF i < first THEN Flat ELSE Nest(state[i - 1], s[i], s[first])]
  <2> DEFINE m == Min(starts)
  <2>1. m = first
    BY <1>6
  <2>2. state = CHOOSE h : h = [i \in 0..L |->
                  IF i < m THEN [at |-> "code", depth |-> 0] ELSE Nest(h[i - 1], s[i], s[m])]
    OBVIOUS
  <2> HIDE DEF m, starts, state
  <2>3. g = [i \in 0..L |->
               IF i < m THEN [at |-> "code", depth |-> 0] ELSE Nest(g[i - 1], s[i], s[m])]
    BY <1>4, <2>1 DEF Flat
  <2>4. state = [i \in 0..L |->
                   IF i < m THEN [at |-> "code", depth |-> 0] ELSE Nest(state[i - 1], s[i], s[m])]
    BY <2>2, <2>3
  <2> QED BY <2>1, <2>4 DEF Flat
<1>7. LET ends == {i \in first..L : state[i].depth = 0}
      IN  ends # {} => Balanced(s) = SubSeq(s, first, Min(ends))
  <2>1. starts # {}
    BY <1>0
  <2>2. LET ends == {i \in Min(starts)..L : state[i].depth = 0}
        IN  ends # {} => Balanced(s) = SubSeq(s, Min(starts), Min(ends))
    BY <2>1 DEF Balanced
  <2> HIDE DEF starts, state
  <2> QED BY <1>6, <2>2
<1>8. /\ Scan(state, Nests, Flat, step, L)
      /\ \A i \in 0..(first - 1) : state[i] = Flat
      /\ \A i \in first..L : state[i] = Nest(state[i - 1], s[i], s[first])
  <2> HIDE DEF state
  <2>0. \A i \in 0..L : state[i] = IF i < first THEN Flat ELSE Nest(state[i - 1], s[i], s[first])
    BY <1>5
  <2>1. state[0] = Flat /\ state = [i \in 0..L |-> state[i]]
    BY <1>0, <1>5, <2>0
  <2>2. \A i \in 1..L : state[i - 1] \in Nests =>
           /\ step[<<state[i - 1], i>>] \in Nests
           /\ state[i] = step[<<state[i - 1], i>>]
    <3>1. \A i \in 1..L : i \in 0..L
      BY <1>0
    <3> QED BY <1>2, <2>0, <3>1
  <2>3. Scan(state, Nests, Flat, step, L)
    <3> HIDE DEF step, L
    <3> QED BY <1>0, <1>1, <2>1, <2>2, ScanIs
  <2>4. /\ \A i \in 0..(first - 1) : i \in 0..L /\ i < first
        /\ \A i \in first..L : i \in 0..L /\ ~(i < first)
    BY <1>0
  <2> QED BY <2>0, <2>3, <2>4
<1> HIDE DEF state
<1>9. NestScan(s, first, state)
  BY <1>8 DEF Scan, NestScan
<1> QED BY <1>7, <1>9

(* Inside a document the brackets of one kind that are open are the        *)
(* closers of that kind that are owed.                                     *)
LEMMA NestFollows ==
  ASSUME NEW here \in Lexes, NEW c, Loose(here, c).at # "bad",
         NEW open \in Openers, NEW st,
         st = [at |-> Lexed(here.at), depth |-> Depth(here.owed, Closing(open))]
  PROVE  LET n == Loose(here, c)
         IN  Nest(st, c, open) =
               [at |-> Lexed(n.at), depth |-> Depth(n.owed, Closing(open))]
<1> DEFINE n == Loose(here, c)
           k == Depth(here.owed, Closing(open))
<1>1. /\ Closing(open) # open /\ Quote # open /\ Closing(open) # Quote
      /\ Closing(open) \in Closers /\ open \notin Closers
      /\ \A x \in Openers : Closing(x) = Closing(open) <=> x = open
      /\ \A x \in Openers : x \notin Closers
      /\ Quote \notin Openers \cup Closers /\ Closing(open) \notin Openers
  BY DEF Openers, Closers, Closing, Quote
<1>2. here.owed \in Seq(Closers) /\ here.at \in Within \cup {"start", "end", "bad"}
      /\ (here.at \in Within => here.owed # <<>>)
  BY DEF Lexes
<1>3. k \in Nat
  BY <1>2, DepthType
<1>4. Lexed(n.at) = IF here.at = "escape" THEN "string"
              ELSE IF here.at = "string"
                   THEN IF c = Quote THEN "code" ELSE IF c = Backslash THEN "escape" ELSE "string"
              ELSE AtQuote(c)
  BY LexedNext
<1>5. CASE here.at \in {"string", "escape"}
  <2>1. n.owed = here.owed
    BY <1>5, InString
  <2>2. st.at = here.at /\ st = [at |-> here.at, depth |-> k]
    BY <1>5 DEF Lexed
  <2> HIDE DEF n, k
  <2>3. Nest(st, c, open) =
          [at |-> IF here.at = "escape" THEN "string"
                  ELSE IF c = Quote THEN "code" ELSE IF c = Backslash THEN "escape" ELSE "string",
           depth |-> k]
    <3>1. CASE here.at = "string"
      <4>1. /\ c = Quote => Nest(st, c, open) = [st EXCEPT !.at = "code"]
            /\ c = Backslash => Nest(st, c, open) = [st EXCEPT !.at = "escape"]
            /\ c \notin {Quote, Backslash} => Nest(st, c, open) = [st EXCEPT !.at = "string"]
        BY <2>2, <3>1 DEF Nest, Quote, Backslash
      <4>2. \A w : [st EXCEPT !.at = w] = [at |-> w, depth |-> k]
        BY <2>2
      <4> QED BY <3>1, <4>1, <4>2
    <3>2. CASE here.at = "escape"
      BY <2>2, <3>2 DEF Nest
    <3> QED BY <1>5, <3>1, <3>2
  <2> QED BY <1>4, <1>5, <2>1, <2>3 DEF n, k
<1>6. CASE here.at \notin {"string", "escape"}
  <2>1. st = [at |-> "code", depth |-> k] /\ Lexed(n.at) = AtQuote(c)
    BY <1>4, <1>6 DEF Lexed
  <2>2. Nest(st, c, open) =
          IF c = Quote THEN [at |-> "string", depth |-> k]
          ELSE IF c = open THEN [at |-> "code", depth |-> k + 1]
          ELSE IF c = Closing(open) THEN [at |-> "code", depth |-> k - 1]
          ELSE [at |-> "code", depth |-> k]
    <3> HIDE DEF k
    <3>1. CASE c = Quote
      BY <1>1, <2>1, <3>1 DEF Nest
    <3>2. CASE c = open
      BY <1>1, <2>1, <3>2 DEF Nest
    <3>3. CASE c = Closing(open)
      BY <1>1, <2>1, <3>3 DEF Nest
    <3>4. CASE c \notin {Quote, open, Closing(open)}
      BY <2>1, <3>4 DEF Nest
    <3> QED BY <1>1, <3>1, <3>2, <3>3, <3>4
  <2>3. Pushes(here, c, n) \/ Pops(here, c, n) \/ Passes(here, c, n)
    BY <1>6, OutsideStrings
  <2>4. CASE Pushes(here, c, n)
    <3>1. c \in Openers /\ n.owed = <<Closing(c)>> \o here.owed /\ Closing(c) \in Closers
      <4>1. c \in Openers /\ n.owed = <<Closing(c)>> \o here.owed
        BY <2>4 DEF Pushes
      <4>2. Closing(c) \in Closers
        BY DEF Closing, Closers
      <4> QED BY <4>1, <4>2
    <3>2. Depth(n.owed, Closing(open)) = IF c = open THEN k + 1 ELSE k
      BY <1>1, <1>2, <3>1, DepthPush
    <3>3. c # Quote /\ c # Closing(open)
      BY <1>1, <3>1
    <3> QED BY <2>1, <2>2, <3>2, <3>3 DEF AtQuote
  <2>5. CASE Pops(here, c, n)
    <3>1. /\ here.owed # <<>> /\ c \in Closers /\ c = Head(here.owed)
          /\ n.owed = Tail(here.owed)
      <4>1. here.at \in {"open", "value", "comma"} /\ c \in Closers /\ c = Head(here.owed)
            /\ n.owed = Tail(here.owed)
        <5> HIDE DEF n
        <5> QED BY <2>5 DEF Pops
      <4> QED BY <1>2, <4>1 DEF Within
    <3>2. Depth(n.owed, Closing(open)) = IF c = Closing(open) THEN k - 1 ELSE k
      BY <1>2, <3>1, DepthPop
    <3>3. c # Quote /\ c # open
      BY <1>1, <3>1
    <3> QED BY <2>1, <2>2, <3>2, <3>3 DEF AtQuote
  <2>6. CASE Passes(here, c, n)
    <3>1. c \notin Openers \cup Closers /\ n.owed = here.owed
      BY <2>6 DEF Passes
    <3>2. c # open /\ c # Closing(open)
      BY <1>1, <3>1
    <3> QED BY <2>1, <2>2, <3>1, <3>2 DEF AtQuote
  <2> QED BY <2>3, <2>4, <2>5, <2>6
<1> QED BY <1>5, <1>6

(* What is owed inside a document begins, innermost last, with the closer  *)
(* of its first bracket, and nothing is owed at its end.                   *)
LEMMA Bottom ==
  ASSUME NEW d, LooseDocument(d), NEW f, LooseScan(d, f)
  PROVE  /\ \A i \in 1..(Len(d) - 1) :
              f[i].owed # <<>> /\ f[i].owed[Len(f[i].owed)] = Closing(d[1])
         /\ f[Len(d)].owed = <<>>
<1> DEFINE L == Len(d)
           B(owed) == owed # <<>> /\ owed[Len(owed)] = Closing(d[1])
           K == {n \in 0..(L - 1) : n >= 1 => B(f[n].owed)}
<1>1. /\ L \in Nat \ {0} /\ d[1] \in Openers
      /\ \A i \in 0..L : f[i] \in Lexes /\ f[i].owed \in Seq(Closers) /\ f[i].at # "bad"
      /\ \A i \in 1..(L - 1) : f[i].at \in Within
      /\ f[L].at = "end" /\ f[0] = Start
      /\ \A i \in 1..L : f[i] = Loose(f[i - 1], d[i])
  <2>1. \A here \in Lexes : here.owed \in Seq(Closers)
    BY DEF Lexes
  <2> QED BY <2>1, ReadOf DEF LooseScan
<1>2. \A x \in Openers : Closing(x) \in Closers
  BY DEF Closing, Closers
<1>3. ASSUME NEW owed \in Seq(Closers), NEW x \in Closers
      PROVE  LET on == <<x>> \o owed
             IN  /\ on \in Seq(Closers) /\ on # <<>>
                 /\ on[Len(on)] = IF owed = <<>> THEN x ELSE owed[Len(owed)]
  <2> DEFINE on == <<x>> \o owed
             n == Len(owed)
  <2>1. <<x>> \in Seq(Closers) /\ Len(<<x>>) = 1 /\ <<x>>[1] = x /\ n \in Nat
        /\ (owed = <<>> => n = 0) /\ (owed # <<>> => n # 0)
    BY EmptySeq
  <2>2. /\ on \in Seq(Closers) /\ Len(on) = 1 + n
        /\ \A i \in 1..1 + n : on[i] = IF i <= 1 THEN <<x>>[i] ELSE owed[i - 1]
    BY <2>1, ConcatProperties
  <2> HIDE DEF on, n
  <2>3. on # <<>>
    <3>1. Len(on) # 0 /\ Len(<<>>) = 0
      BY <2>1, <2>2
    <3> QED BY <3>1
  <2>4. on[Len(on)] = IF owed = <<>> THEN x ELSE owed[n]
    <3>1. 1 + n \in 1..1 + n /\ (1 + n) - 1 = n
      BY <2>1
    <3>2. CASE owed = <<>>
      BY <2>1, <2>2, <3>1, <3>2
    <3>3. CASE owed # <<>>
      <4>1. ~(1 + n <= 1)
        BY <2>1, <3>3
      <4> QED BY <2>2, <3>1, <3>3, <4>1
    <3> QED BY <3>2, <3>3
  <2> QED BY <2>2, <2>3, <2>4 DEF on, n
<1>4. 0 \in K
  BY <1>1
<1>5. ASSUME NEW n \in 0..((L - 1) - 1), n \in K PROVE n + 1 \in K
  <2>1. /\ n + 1 \in 1..(L - 1) /\ n + 1 \in 1..L /\ (n + 1) - 1 = n /\ n \in 0..L
        /\ n + 1 \in 0..L /\ n + 1 \in 0..(L - 1) /\ (n # 0 => n \in 1..(L - 1) /\ n >= 1)
    BY <1>1
  <2> DEFINE c == d[n + 1]
  <2>2. /\ f[n] \in Lexes /\ f[n].owed \in Seq(Closers)
        /\ f[n + 1] = Loose(f[n], c) /\ f[n + 1].at # "bad"
        /\ f[n + 1].at \in Within
    BY <1>1, <2>1
  <2>3. CASE n = 0
    <3>1. f[n].at = "start" /\ f[n].owed = <<>> /\ c \in Openers /\ c = d[1]
      BY <1>1, <2>3 DEF Start
    <3>2. Pushes(f[n], c, f[n + 1])
      <4>1. \/ Pushes(f[n], c, f[n + 1])
            \/ Pops(f[n], c, f[n + 1])
            \/ Passes(f[n], c, f[n + 1])
        <5> HIDE DEF c, B, K, L
        <5> QED BY <2>2, <3>1, StepOutside
      <4> QED BY <3>1, <4>1 DEF Pops, Passes
    <3>3. f[n + 1].owed = <<Closing(c)>> \o f[n].owed
      BY <3>2 DEF Pushes
    <3>4. B(f[n + 1].owed)
      <4>1. Closing(c) \in Closers /\ f[n + 1].owed = <<Closing(c)>> \o <<>>
            /\ <<>> \in Seq(Closers)
        BY <1>2, <3>1, <3>3
      <4>2. /\ <<Closing(c)>> \o <<>> # <<>>
            /\ (<<Closing(c)>> \o <<>>)[Len(<<Closing(c)>> \o <<>>)] = Closing(c)
        BY <1>3, <4>1
      <4> QED BY <3>1, <4>1, <4>2
    <3> QED BY <2>1, <3>4
  <2>4. CASE n # 0
    <3>1. B(f[n].owed) /\ f[n].at \in Within
      BY <1>1, <1>5, <2>1, <2>4
    <3>2. CASE f[n].at \in {"string", "escape"}
      <4>1. f[n + 1].owed = f[n].owed
        BY <2>2, <3>2, InString
      <4> QED BY <2>1, <3>1, <4>1
    <3>3. CASE f[n].at \notin {"string", "escape"}
      <4>0. \/ Pushes(f[n], c, f[n + 1])
            \/ Pops(f[n], c, f[n + 1])
            \/ Passes(f[n], c, f[n + 1])
        <5> DEFINE st == f[n]
                   m == f[n + 1]
        <5>1. st \in Lexes /\ m = Loose(st, c) /\ m.at # "bad" /\ st.at \notin {"string", "escape"}
          BY <2>2, <3>3
        <5> HIDE DEF st, m, c, B, K, L
        <5>2. Pushes(st, c, m) \/ Pops(st, c, m) \/ Passes(st, c, m)
          BY <5>1, StepOutside
        <5> QED BY <5>2 DEF st, m
      <4>1. CASE Pushes(f[n], c, f[n + 1])
        <5>1. f[n + 1].owed = <<Closing(c)>> \o f[n].owed /\ c \in Openers
          BY <4>1 DEF Pushes
        <5>2. B(f[n + 1].owed)
          BY <1>2, <1>3, <2>2, <3>1, <5>1
        <5> QED BY <2>1, <5>2
      <4>2. CASE Pops(f[n], c, f[n + 1])
        <5>1. f[n + 1].owed = Tail(f[n].owed) /\ Len(f[n].owed) # 1
          <6>1. f[n + 1] = [owed |-> Tail(f[n].owed),
                            at |-> IF Len(f[n].owed) = 1 THEN "end" ELSE "value"]
            BY <4>2 DEF Pops
          <6>2. Len(f[n].owed) # 1
            BY <2>2, <6>1 DEF Within, Singles
          <6> QED BY <6>1, <6>2
        <5> DEFINE o == f[n].owed
        <5>2. o \in Seq(Closers) /\ o # <<>> /\ o[Len(o)] = Closing(d[1])
          BY <2>2, <3>1
        <5> HIDE DEF o
        <5>3. /\ Tail(o) \in Seq(Closers) /\ Len(Tail(o)) = Len(o) - 1 /\ Len(o) \in Nat
              /\ \A i \in 1..Len(Tail(o)) : Tail(o)[i] = o[i + 1]
              /\ Len(o) # 0
          BY <5>2, HeadTailProperties, EmptySeq
        <5>4. Tail(o) # <<>> /\ Tail(o)[Len(Tail(o))] = o[Len(o)]
          <6>1. Len(o) # 1
            BY <5>1 DEF o
          <6>2. Len(Tail(o)) \in 1..Len(Tail(o)) /\ Len(Tail(o)) + 1 = Len(o)
            BY <5>3, <6>1
          <6>3. Len(<<>>) = 0 /\ Len(Tail(o)) # 0
            BY <5>3, <6>1
          <6> QED BY <5>3, <6>2, <6>3
        <5>5. B(f[n + 1].owed)
          BY <5>1, <5>2, <5>4 DEF o
        <5> QED BY <2>1, <5>5
      <4>3. CASE Passes(f[n], c, f[n + 1])
        <5>1. f[n + 1].owed = f[n].owed
          BY <4>3 DEF Passes
        <5> QED BY <2>1, <3>1, <5>1
      <4> QED BY <4>0, <4>1, <4>2, <4>3
    <3> QED BY <3>2, <3>3
  <2> QED BY <2>3, <2>4
<1>6. \A n \in 0..(L - 1) : n \in K
  <2>1. L - 1 \in Nat
    BY <1>1
  <2> HIDE DEF K, L
  <2> QED BY <1>4, <1>5, <2>1, BoundedInduction
<1>7. \A i \in 1..(L - 1) : B(f[i].owed)
  <2>1. \A i \in 1..(L - 1) : i \in 0..(L - 1) /\ i >= 1
    BY <1>1
  <2> HIDE DEF B
  <2> QED BY <1>6, <2>1
<1>8. f[L].owed = <<>>
  <2> DEFINE st == f[L - 1]
             n == f[L]
             c == d[L]
  <2>1. L \in 1..L /\ L - 1 \in 0..L /\ L \in 0..L /\ (L - 1 = 0 \/ L - 1 \in 1..(L - 1))
    <3>1. L \in Nat /\ L # 0
      BY <1>1
    <3> HIDE DEF L
    <3>2. L \in 1..L /\ L - 1 \in 0..L /\ L \in 0..L
      BY <3>1
    <3>3. L # 1 => L - 1 \in 1..(L - 1)
      BY <3>1
    <3>4. L = 1 => L - 1 = 0
      BY <3>1
    <3> QED BY <3>2, <3>3, <3>4
  <2>2. st \in Lexes /\ st.owed \in Seq(Closers) /\ n = Loose(st, c) /\ n.at = "end"
    BY <1>1, <2>1
  <2>3. st.at \in Within \cup {"start"}
    BY <1>1, <2>1 DEF Start
  <2> HIDE DEF st, n, c
  <2>4. st.at \notin {"string", "escape"}
    <3> SUFFICES ASSUME st.at \in {"string", "escape"} PROVE FALSE
      OBVIOUS
    <3>1. Loose(st, c).at # "bad"
      BY <2>2
    <3>2. n.at \in {"string", "value", "escape"}
      BY <2>2, <3>1, InString
    <3> QED BY <2>2, <3>2
  <2>5. Pushes(st, c, n) \/ Pops(st, c, n) \/ Passes(st, c, n)
    <3>1. Loose(st, c).at # "bad"
      BY <2>2
    <3> QED BY <2>2, <2>4, <3>1, OutsideStrings
  <2>6. ~Pushes(st, c, n)
    BY <2>2 DEF Pushes
  <2>7. ~Passes(st, c, n)
    BY <2>2, <2>3 DEF Passes, Within, Singles
  <2>8. n = [owed |-> Tail(st.owed), at |-> IF Len(st.owed) = 1 THEN "end" ELSE "value"]
    BY <2>5, <2>6, <2>7 DEF Pops
  <2>9. Len(st.owed) = 1 /\ n.owed = Tail(st.owed)
    BY <2>2, <2>8
  <2>10. Tail(st.owed) \in Seq(Closers) /\ Len(Tail(st.owed)) = 0
    <3>1. st.owed # <<>>
      <4>1. Len(st.owed) # 0
        BY <2>9
      <4> QED BY <2>2, <4>1, EmptySeq
    <3> QED BY <2>2, <2>9, <3>1, HeadTailProperties
  <2>11. Tail(st.owed) = <<>>
    BY <2>10, EmptySeq
  <2> QED BY <2>9, <2>11 DEF n
<1> QED BY <1>7, <1>8

(* Brackets in its strings included, and whatever is after it.             *)
LEMMA Extracted ==
  ASSUME NEW s, NEW a, NEW d, LooseDocument(d), Finds(s, a, d)
  PROVE  Balanced(s) = d
<1> DEFINE L == Len(d)
           N == Len(s)
           first == a + 1
           open == d[1]
<1>1. PICK read : LooseScan(d, read)
  BY LooseByScan DEF LooseDocument
<1>2. /\ L \in Nat \ {0} /\ open \in Openers
      /\ \A i \in 0..L : read[i] \in Lexes /\ read[i].owed \in Seq(Closers) /\ read[i].at # "bad"
      /\ read[0] = Start
      /\ \A i \in 1..L : read[i] = Loose(read[i - 1], d[i])
  <2>1. \A here \in Lexes : here.owed \in Seq(Closers)
    BY DEF Lexes
  <2> QED BY <1>1, <2>1, ReadOf DEF LooseScan
<1>3. /\ s \in Text /\ a \in Nat /\ a + L <= N /\ N \in Nat
      /\ \A i \in 1..L : s[a + i] = d[i]
      /\ \A i \in 1..a : s[i] \notin Openers
  BY DEF Finds, Text
<1>4. /\ first \in 1..N /\ first \in Nat /\ a + L \in first..N
      /\ s[first] = open
      /\ \A i \in 1..(first - 1) : s[i] \notin Openers
  <2>1. 1 \in 1..L /\ first \in 1..N /\ a + L \in first..N /\ first - 1 = a
    BY <1>2, <1>3
  <2> QED BY <1>3, <2>1
<1>5. PICK f : /\ NestScan(s, first, f)
               /\ LET ends == {i \in first..N : f[i].depth = 0}
                  IN  ends # {} => Balanced(s) = SubSeq(s, first, Min(ends))
  BY <1>2, <1>3, <1>4, BalancedByScan
<1> DEFINE In(i) == [at |-> Lexed(read[i].at), depth |-> Depth(read[i].owed, Closing(open))]
           K == {n \in 0..L : f[a + n] = In(n)}
<1>6. 0 \in K
  <2>1. f[a + 0] = Flat
    <3>1. a + 0 \in 0..(first - 1)
      BY <1>3
    <3> QED BY <1>5, <3>1 DEF NestScan
  <2>2. Depth(<<>>, Closing(open)) = 0
    <3>1. <<>> \in Seq(Closers)
      OBVIOUS
    <3> QED BY <3>1, DepthType
  <2>3. In(0) = Flat
    BY <1>2, <2>2 DEF Start, Flat, Lexed
  <2> QED BY <1>2, <2>1, <2>3
<1>7. ASSUME NEW n \in 0..(L - 1), n \in K PROVE n + 1 \in K
  <2>1. /\ n \in 0..L /\ n + 1 \in 0..L /\ n + 1 \in 1..L /\ (n + 1) - 1 = n
        /\ a + (n + 1) \in first..N /\ (a + (n + 1)) - 1 = a + n
    <3>1. L \in Nat /\ a \in Nat /\ N \in Nat /\ a + L <= N
      BY <1>2, <1>3
    <3> QED BY <3>1
  <2>2. f[a + (n + 1)] = Nest(f[a + n], d[n + 1], open)
    BY <1>3, <1>4, <1>5, <2>1 DEF NestScan
  <2>3. /\ read[n] \in Lexes /\ read[n + 1] = Loose(read[n], d[n + 1])
        /\ read[n + 1].at # "bad"
        /\ f[a + n] = [at |-> Lexed(read[n].at), depth |-> Depth(read[n].owed, Closing(open))]
    BY <1>2, <1>7, <2>1
  <2>4. f[a + (n + 1)] = In(n + 1)
    <3>1. open \in Openers
      BY <1>2
    <3> DEFINE st == f[a + n]
               here == read[n]
               c == d[n + 1]
    <3>2. /\ here \in Lexes /\ read[n + 1] = Loose(here, c)
          /\ Loose(here, c).at # "bad"
          /\ st = [at |-> Lexed(here.at), depth |-> Depth(here.owed, Closing(open))]
          /\ f[a + (n + 1)] = Nest(st, c, open)
      BY <2>2, <2>3
    <3> HIDE DEF open, st, here, c
    <3>3. Nest(st, c, open) =
            [at |-> Lexed(Loose(here, c).at),
             depth |-> Depth(Loose(here, c).owed, Closing(open))]
      BY <3>1, <3>2, NestFollows
    <3> QED BY <3>2, <3>3
  <2> QED BY <2>1, <2>4
<1>8. \A n \in 0..L : f[a + n] = In(n)
  <2>1. \A n \in 0..L : n \in K
    <3> HIDE DEF K, L
    <3> QED BY <1>2, <1>6, <1>7, BoundedInduction
  <2> HIDE DEF In
  <2> QED BY <2>1
<1>9. /\ \A n \in 1..(L - 1) : f[a + n].depth # 0
      /\ f[a + L].depth = 0
  <2>1. /\ \A n \in 1..(L - 1) :
             n \in 0..L /\ read[n].owed # <<>>
             /\ read[n].owed[Len(read[n].owed)] = Closing(open)
        /\ read[L].owed = <<>> /\ L \in 0..L
    BY <1>1, <1>2, Bottom
  <2>2. ASSUME NEW n \in 0..L PROVE f[a + n].depth = Depth(read[n].owed, Closing(open))
    <3>1. f[a + n] = [at |-> Lexed(read[n].at), depth |-> Depth(read[n].owed, Closing(open))]
      BY <1>8
    <3> HIDE DEF open
    <3> QED BY <3>1
  <2>3. ASSUME NEW n \in 1..(L - 1) PROVE f[a + n].depth # 0
    <3>1. Depth(read[n].owed, Closing(open)) >= 1
      BY <1>2, <2>1, DepthType
    <3>2. Depth(read[n].owed, Closing(open)) \in Nat
      BY <1>2, <2>1, DepthType
    <3> QED BY <2>1, <2>2, <3>1, <3>2
  <2>4. f[a + L].depth = 0
    BY <1>2, <2>1, <2>2, DepthType
  <2> QED BY <2>3, <2>4
<1> DEFINE ends == {i \in first..N : f[i].depth = 0}
<1>10. Min(ends) = a + L /\ ends # {}
  <2>1. a + L \in ends
    BY <1>4, <1>9
  <2>2. ASSUME NEW i \in ends PROVE a + L <= i
    <3>1. i \in first..N /\ f[i].depth = 0
      OBVIOUS
    <3>2. SUFFICES ASSUME i < a + L PROVE FALSE
      BY <1>3, <1>4, <3>1
    <3>3. i - a \in 1..(L - 1) /\ a + (i - a) = i
      BY <1>2, <1>3, <3>1, <3>2
    <3> QED BY <1>9, <3>1, <3>3
  <2>3. ends \in SUBSET (0..N) /\ ends # {}
    BY <1>4, <2>1
  <2> HIDE DEF ends
  <2>4. Min(ends) \in ends /\ \A y \in ends : Min(ends) <= y
    BY <1>3, <2>3, LeastAndMost
  <2>5. Min(ends) <= a + L /\ a + L <= Min(ends) /\ Min(ends) \in 0..N
    BY <2>1, <2>2, <2>3, <2>4
  <2> QED BY <1>2, <1>3, <2>3, <2>5
<1>11. Balanced(s) = SubSeq(s, first, a + L)
  BY <1>5, <1>10
<1>12. /\ SubSeq(s, first, a + L) \in Text
       /\ Len(SubSeq(s, first, a + L)) = ((a + L) - first) + 1
       /\ \A k \in 1..(((a + L) - first) + 1) : SubSeq(s, first, a + L)[k] = s[(first + k) - 1]
  BY <1>3, <1>4, Slice
<1>13. ((a + L) - first) + 1 = L /\ \A k \in 1..L : (first + k) - 1 = a + k
  BY <1>2, <1>3
<1>14. \A k \in 1..L : SubSeq(s, first, a + L)[k] = d[k]
  BY <1>3, <1>12, <1>13
<1>15. d \in Text
  BY DEF LooseDocument
<1> QED BY <1>11, <1>12, <1>13, <1>14, <1>15, Alike

-----------------------------------------------------------------------------
(* What a strict reader accepts a loose one accepts, in the same states.   *)
LEMMA StrictIsLoose ==
  ASSUME NEW st \in Lexes, NEW c, NEW atoms \in SUBSET Atoms, NEW n,
         n = After(st, c, atoms), n.at # "bad",
         st.at \in Singles => c \notin Sought
  PROVE  /\ n = Loose(st, c)
         /\ st.at = "comma" => c \notin Closers
         /\ st.at # "bad"
<1>1. st = [owed |-> st.owed, at |-> st.at] /\ st.at \in Within \cup {"start", "end", "bad"}
  BY DEF Lexes
<1>2. st.at # "bad"
  BY <1>1 DEF After, InQuotes
<1>3. ASSUME st.at = "comma" PROVE c \notin Closers
  <2> SUFFICES ASSUME c \in Closers PROVE FALSE
    OBVIOUS
  <2>1. c \notin Blanks \cup Openers \cup Atoms \cup {Quote, ","}
    BY DEF Blanks, Newline, Openers, Closers, Atoms, JsonAtoms, PythonAtoms, Quote, Apostrophe
  <2>2. c \notin atoms
    BY <2>1
  <2>3. n = [st EXCEPT !.at = "bad"]
    BY <1>3, <2>1, <2>2 DEF After, InQuotes
  <2> QED BY <1>1, <2>3
<1>4. Loose(st, c) = After(st, c, Atoms)
  BY <1>3 DEF Loose
<1>5. CASE st.at \in {"open", "comma"} /\ c \in Atoms \ atoms
  <2>1. c \notin Blanks \cup Openers \cup Closers \cup {Quote, Backslash, ","}
    BY <1>5 DEF Blanks, Newline, Openers, Closers, Atoms, JsonAtoms, PythonAtoms, Quote, Backslash,
                Apostrophe
  <2>2. n = [st EXCEPT !.at = "bad"]
    BY <1>5, <2>1 DEF After, InQuotes
  <2> QED BY <1>1, <2>2
<1>6. CASE st.at \notin {"open", "comma"}
  <2>1. After(st, c, Atoms) = After(st, c, atoms)
    BY <1>6 DEF After
  <2> QED BY <1>2, <1>3, <1>4, <2>1
<1>7. CASE st.at \in {"open", "comma"} /\ c \notin Atoms \ atoms
  <2>1. c \in Atoms <=> c \in atoms
    BY <1>7
  <2>2. After(st, c, Atoms) = After(st, c, atoms)
    BY <2>1 DEF After
  <2> QED BY <1>2, <1>3, <1>4, <2>2
<1> QED BY <1>5, <1>6, <1>7

LEMMA ReadIsLoose ==
  ASSUME NEW s \in Text, NEW atoms \in SUBSET Atoms, NEW f, ReadScan(s, atoms, f),
         f[Len(s)].at # "bad",
         \A i \in 1..Len(s) : f[i - 1].at \in Singles => s[i] \notin Sought
  PROVE  /\ LooseScan(s, f)
         /\ \A i \in 0..Len(s) : f[i].at # "bad"
         /\ \A i \in 1..Len(s) : f[i - 1].at = "comma" => s[i] \notin Closers
<1> DEFINE L == Len(s)
           K == {n \in 0..L : f[L - n].at # "bad"}
<1>1. L \in Nat /\ f \in [0..L -> Lexes] /\ f[0] = Start
      /\ \A i \in 1..L : f[i] = After(f[i - 1], s[i], atoms)
  BY DEF ReadScan, Text
<1>2. \A i \in 1..L : i - 1 \in 0..L /\ f[i - 1] \in Lexes
  BY <1>1
<1>3. 0 \in K
  BY <1>1
<1>4. ASSUME NEW n \in 0..(L - 1), n \in K PROVE n + 1 \in K
  <2>1. L - n \in 1..L /\ (L - n) - 1 = L - (n + 1) /\ n + 1 \in 0..L
    BY <1>1
  <2> DEFINE st == f[L - (n + 1)]
             m == f[L - n]
             c == s[L - n]
  <2>2. st \in Lexes /\ m = After(st, c, atoms) /\ m.at # "bad"
        /\ (st.at \in Singles => c \notin Sought)
    BY <1>1, <1>2, <1>4, <2>1
  <2>3. st.at # "bad"
    <3> HIDE DEF st, m, c
    <3> QED BY <2>2, StrictIsLoose
  <2> QED BY <2>1, <2>3
<1>5. \A n \in 0..L : n \in K
  <2> HIDE DEF K, L
  <2> QED BY <1>1, <1>3, <1>4, BoundedInduction
<1>6. \A i \in 0..L : f[i].at # "bad"
  <2>1. \A i \in 0..L : L - i \in 0..L /\ L - (L - i) = i
    BY <1>1
  <2> QED BY <1>5, <2>1
<1>7. ASSUME NEW i \in 1..L
      PROVE  f[i] = Loose(f[i - 1], s[i]) /\ (f[i - 1].at = "comma" => s[i] \notin Closers)
  <2> DEFINE st == f[i - 1]
             m == f[i]
             c == s[i]
  <2>1. st \in Lexes /\ m = After(st, c, atoms) /\ m.at # "bad"
        /\ (st.at \in Singles => c \notin Sought)
    BY <1>1, <1>2, <1>6
  <2> HIDE DEF st, m, c
  <2>2. m = Loose(st, c) /\ (st.at = "comma" => c \notin Closers)
    BY <2>1, StrictIsLoose
  <2> QED BY <2>2 DEF st, m, c
<1> QED BY <1>1, <1>6, <1>7 DEF LooseScan

(* A reader that has no apostrophes is never between two.                  *)
LEMMA NeverSingle ==
  ASSUME NEW s \in Text, NEW atoms \in SUBSET Atoms, NEW f, ReadScan(s, atoms, f),
         Apostrophe \notin atoms
  PROVE  \A i \in 0..Len(s) : f[i].at \notin Singles
<1> DEFINE L == Len(s)
           K == {n \in 0..L : f[n].at \notin Singles}
<1>1. L \in Nat /\ f \in [0..L -> Lexes] /\ f[0] = Start
      /\ \A i \in 1..L : f[i] = After(f[i - 1], s[i], atoms)
  BY DEF ReadScan, Text
<1>2. 0 \in K
  BY <1>1 DEF Start, Singles
<1>3. ASSUME NEW n \in 0..(L - 1), n \in K PROVE n + 1 \in K
  <2>1. n + 1 \in 1..L /\ (n + 1) - 1 = n /\ n \in 0..L /\ n + 1 \in 0..L
    BY <1>1
  <2> DEFINE st == f[n]
             m == f[n + 1]
             c == s[n + 1]
  <2>2. st \in Lexes /\ st.at \notin Singles /\ m = After(st, c, atoms)
    BY <1>1, <1>3, <2>1
  <2> HIDE DEF st, m, c
  <2>3. m.at \notin Singles
    <3>1. st = [owed |-> st.owed, at |-> st.at]
      BY <2>2 DEF Lexes
    <3>2. c \in atoms => c # Apostrophe
      OBVIOUS
    <3> QED BY <2>2, <3>1, <3>2 DEF After, InQuotes, Singles
  <2> QED BY <2>1, <2>3 DEF m
<1> HIDE DEF K, L
<1>4. \A n \in 0..L : n \in K
  BY <1>1, <1>2, <1>3, BoundedInduction
<1> QED BY <1>4 DEF K, L

(* A JSON document, blanks around it taken off.                            *)
Document(d) ==
  /\ d \in Text /\ Accepted(d, JsonAtoms)
  /\ d[1] \notin Blanks
  /\ d[Len(d)] \notin Blanks

LEMMA DocumentIsLoose ==
  ASSUME NEW d, Document(d)
  PROVE  /\ LooseDocument(d)
         /\ \A f : ReadScan(d, JsonAtoms, f) =>
              /\ LooseScan(d, f)
              /\ \A i \in 1..Len(d) : f[i - 1].at = "comma" => d[i] \notin Closers
<1>1. d \in Text /\ JsonAtoms \in SUBSET Atoms
  BY DEF Document, Atoms
<1>2. ASSUME NEW f, ReadScan(d, JsonAtoms, f)
      PROVE  /\ LooseScan(d, f) /\ f[Len(d)].at = "end"
             /\ \A i \in 1..Len(d) : f[i - 1].at = "comma" => d[i] \notin Closers
  <2>1. f[Len(d)].at = "end"
    BY <1>2 DEF Document, Accepted, ReadScan
  <2>2. \A i \in 1..Len(d) : f[i - 1].at \in Singles => d[i] \notin Sought
    <3>1. Apostrophe \notin JsonAtoms
      BY DEF Apostrophe, JsonAtoms
    <3>2. \A i \in 0..Len(d) : f[i].at \notin Singles
      BY <1>1, <1>2, <3>1, NeverSingle
    <3>3. \A i \in 1..Len(d) : i - 1 \in 0..Len(d)
      BY <1>1 DEF Text
    <3> QED BY <3>2, <3>3
  <2> QED BY <1>1, <1>2, <2>1, <2>2, ReadIsLoose
<1>3. PICK f : ReadScan(d, JsonAtoms, f)
  BY <1>1, ReadByScan
<1> QED BY <1>2, <1>3 DEF LooseDocument, Document

-----------------------------------------------------------------------------
(* What is left of the other steps.                                        *)

(* The beginning of a text, one character on.                              *)
LEMMA Upto ==
  ASSUME NEW s \in Text, NEW m \in 1..(Len(s) + 1), NEW i \in m..Len(s)
  PROVE  /\ i - 1 \in Nat
         /\ SubSeq(s, m, i) = Append(SubSeq(s, m, i - 1), s[i])
         /\ SubSeq(s, m, i) # <<>>
<1>1. Len(s) \in Nat /\ m \in Nat \ {0} /\ i \in 1..Len(s) /\ m <= i
      /\ \A k \in 1..Len(s) : s[k] \in Letter
  BY ElementOfSeq DEF Text
<1>2. /\ SubSeq(s, m, i) \in Seq(Letter) /\ Len(SubSeq(s, m, i)) = (i - m) + 1
      /\ \A k \in 1..((i - m) + 1) : SubSeq(s, m, i)[k] = s[(m + k) - 1]
  <2>1. m \in 1..Len(s) /\ i \in m..Len(s)
    BY <1>1
  <2> QED BY <2>1, Slice DEF Text
<1>3. /\ SubSeq(s, m, i - 1) \in Seq(Letter) /\ Len(SubSeq(s, m, i - 1)) = i - m
      /\ \A k \in 1..(i - m) : SubSeq(s, m, i - 1)[k] = s[(m + k) - 1]
  <2>1. m \in Int /\ i - 1 \in Int /\ \A k \in m..(i - 1) : s[k] \in Letter
    BY <1>1
  <2>2. /\ SubSeq(s, m, i - 1) \in Seq(Letter)
        /\ Len(SubSeq(s, m, i - 1)) = IF m <= i - 1 THEN (i - 1) - m + 1 ELSE 0
        /\ \A k \in 1..(i - 1) - m + 1 : SubSeq(s, m, i - 1)[k] = s[m + k - 1]
    BY <2>1, SubSeqProperties
  <2>3. (i - 1) - m + 1 = i - m /\ (~(m <= i - 1) => i - m = 0)
    BY <1>1
  <2> QED BY <2>2, <2>3
<1> DEFINE a == SubSeq(s, m, i - 1)
           b == SubSeq(s, m, i)
<1>4. /\ Append(a, s[i]) \in Seq(Letter) /\ Len(Append(a, s[i])) = (i - m) + 1
      /\ \A k \in 1..(i - m) : Append(a, s[i])[k] = a[k]
      /\ Append(a, s[i])[(i - m) + 1] = s[i]
  <2>1. s[i] \in Letter
    BY <1>1
  <2> HIDE DEF a
  <2>2. a \in Seq(Letter) /\ Len(a) = i - m
    BY <1>3 DEF a
  <2> QED BY <2>1, <2>2, AppendProperties
<1>5. \A k \in 1..((i - m) + 1) : b[k] = Append(a, s[i])[k]
  <2> TAKE k \in 1..((i - m) + 1)
  <2>1. CASE k = (i - m) + 1
    <3>1. (m + k) - 1 = i
      BY <1>1, <2>1
    <3> QED BY <1>2, <1>4, <2>1, <3>1
  <2>2. CASE k # (i - m) + 1
    <3>1. k \in 1..(i - m)
      BY <1>1, <2>2
    <3> QED BY <1>2, <1>3, <1>4, <3>1
  <2> QED BY <2>1, <2>2
<1>6. b = Append(a, s[i])
  <2> HIDE DEF a, b
  <2> QED BY <1>2, <1>4, <1>5, SeqEqual DEF b
<1>7. b # <<>>
  <2>1. Len(b) # 0
    BY <1>1, <1>2
  <2> QED BY <1>2, <2>1, EmptySeq
<1> QED BY <1>1, <1>6, <1>7

LEMMA NothingRead ==
  ASSUME NEW s \in Text, NEW m \in 1..(Len(s) + 1)
  PROVE  SubSeq(s, m, m - 1) = <<>>
<1>1. m \in Int /\ m - 1 \in Int /\ m - 1 < m /\ \A k \in m..(m - 1) : s[k] \in Letter
  BY DEF Text
<1>2. SubSeq(s, m, m - 1) \in Seq(Letter) /\ Len(SubSeq(s, m, m - 1)) = 0
  <2>1. ~(m <= m - 1)
    BY <1>1
  <2> QED BY <1>1, <2>1, SubSeqProperties
<1> QED BY <1>2, EmptySeq

LEMMA Whole ==
  ASSUME NEW s \in Text
  PROVE  SubSeq(s, 1, Len(s)) = s
BY SubSeqFull DEF Text

-----------------------------------------------------------------------------
(* Two fences: what is between them; none: all of it.                      *)
LEMMA FirstFences ==
  ASSUME NEW s \in Text
  PROVE  /\ (\A k \in 1..Len(s) : s[k] # "fence") => Unfenced(s) = s
         /\ \A i \in 1..Len(s), j \in 1..Len(s) :
              /\ i < j /\ s[i] = "fence" /\ s[j] = "fence"
              /\ \A k \in 1..(j - 1) : k # i => s[k] # "fence"
              => Unfenced(s) = SubSeq(s, i + 1, j - 1)
<1> DEFINE fences == {i \in DOMAIN s : s[i] = "fence"}
           later == fences \ {Min(fences)}
<1>1. Len(s) \in Nat /\ DOMAIN s = 1..Len(s)
  BY DEF Text
<1>2. ASSUME \A k \in 1..Len(s) : s[k] # "fence" PROVE Unfenced(s) = s
  <2>1. fences = {}
    BY <1>1, <1>2
  <2> QED BY <2>1 DEF Unfenced
<1>3. ASSUME NEW i \in 1..Len(s), NEW j \in 1..Len(s),
             i < j, s[i] = "fence", s[j] = "fence",
             \A k \in 1..(j - 1) : k # i => s[k] # "fence"
      PROVE  Unfenced(s) = SubSeq(s, i + 1, j - 1)
  <2>1. /\ i \in fences /\ j \in fences /\ i # j
        /\ \A k \in fences : k \in 1..Len(s) /\ (k = i \/ j <= k)
    <3>1. i \in fences /\ j \in fences
      BY <1>1, <1>3
    <3>2. ASSUME NEW k \in fences PROVE k \in 1..Len(s) /\ (k = i \/ j <= k)
      <4>1. k \in 1..Len(s) /\ s[k] = "fence"
        BY <1>1
      <4>2. k # i => ~(k \in 1..(j - 1))
        BY <1>3, <4>1
      <4> QED BY <1>1, <4>1, <4>2
    <3> QED BY <1>3, <3>1, <3>2
  <2>2. fences \in SUBSET (0..Len(s)) /\ fences # {}
    BY <1>1, <2>1
  <2> HIDE DEF fences
  <2>3. Min(fences) \in fences /\ \A k \in fences : Min(fences) <= k
    BY <1>1, <2>2, LeastAndMost
  <2>4. Min(fences) = i
    <3>1. /\ Min(fences) \in 1..Len(s) /\ (Min(fences) = i \/ j <= Min(fences))
          /\ Min(fences) <= i
      BY <2>1, <2>3
    <3> QED BY <1>1, <1>3, <3>1
  <2>5. later = fences \ {i} /\ j \in later /\ later \in SUBSET (0..Len(s)) /\ later # {}
    BY <2>1, <2>2, <2>4
  <2> HIDE DEF later
  <2>6. Min(later) \in later /\ \A k \in later : Min(later) <= k
    BY <1>1, <2>5, LeastAndMost
  <2>7. Min(later) = j
    <3>1. Min(later) \in fences /\ Min(later) # i /\ Min(later) <= j
      BY <2>5, <2>6
    <3>2. Min(later) \in 1..Len(s) /\ j <= Min(later)
      BY <2>1, <3>1
    <3> QED BY <1>1, <3>1, <3>2
  <2>8. Unfenced(s) = IF fences = {} \/ later = {} THEN s
                      ELSE SubSeq(s, Min(fences) + 1, Min(later) - 1)
    BY DEF Unfenced, fences, later
  <2> QED BY <2>2, <2>4, <2>5, <2>7, <2>8
<1> QED BY <1>2, <1>3

-----------------------------------------------------------------------------
(* One text after another.                                                 *)
LEMMA OneAfterAnother ==
  ASSUME NEW a \in Text, NEW b \in Text
  PROVE  /\ a \o b \in Text /\ Len(a \o b) = Len(a) + Len(b)
         /\ Len(a) \in Nat /\ Len(b) \in Nat
         /\ \A i \in 1..Len(a) : (a \o b)[i] = a[i]
         /\ \A i \in 1..Len(b) : (a \o b)[Len(a) + i] = b[i]
         /\ \A i \in 1..Len(a \o b) :
              \/ i \in 1..Len(a) /\ (a \o b)[i] = a[i]
              \/ i - Len(a) \in 1..Len(b) /\ (a \o b)[i] = b[i - Len(a)]
<1>1. /\ a \o b \in Text /\ Len(a \o b) = Len(a) + Len(b)
      /\ \A i \in 1..Len(a) + Len(b) :
           (a \o b)[i] = IF i <= Len(a) THEN a[i] ELSE b[i - Len(a)]
      /\ Len(a) \in Nat /\ Len(b) \in Nat
  BY ConcatProperties DEF Text
<1> DEFINE ab == a \o b
<1> HIDE DEF ab
<1>2. /\ Len(ab) = Len(a) + Len(b)
      /\ \A i \in 1..Len(a) + Len(b) : ab[i] = IF i <= Len(a) THEN a[i] ELSE b[i - Len(a)]
  BY <1>1 DEF ab
<1>3. \A i \in 1..Len(a) : ab[i] = a[i]
  <2> TAKE i \in 1..Len(a)
  <2>1. i \in 1..Len(a) + Len(b) /\ i <= Len(a)
    BY <1>1
  <2> QED BY <1>2, <2>1
<1>4. \A i \in 1..Len(b) : ab[Len(a) + i] = b[i]
  <2> TAKE i \in 1..Len(b)
  <2>1. Len(a) + i \in 1..Len(a) + Len(b) /\ ~(Len(a) + i <= Len(a)) /\ (Len(a) + i) - Len(a) = i
    BY <1>1
  <2> QED BY <1>2, <2>1
<1>5. ASSUME NEW i \in 1..Len(ab)
      PROVE  \/ i \in 1..Len(a) /\ ab[i] = a[i]
             \/ i - Len(a) \in 1..Len(b) /\ ab[i] = b[i - Len(a)]
  <2>1. i \in 1..Len(a) + Len(b)
    BY <1>2
  <2>2. CASE i <= Len(a)
    BY <1>1, <1>2, <2>1, <2>2
  <2>3. CASE ~(i <= Len(a))
    BY <1>1, <1>2, <2>1, <2>3
  <2> QED BY <2>2, <2>3
<1> QED BY <1>1, <1>3, <1>4, <1>5 DEF ab

(* Texts with none of some marks in them.                                  *)
Lacks(s, marks) == s \in Text /\ \A i \in 1..Len(s) : s[i] \notin marks

LEMMA LacksBoth ==
  ASSUME NEW marks, NEW a, NEW b, Lacks(a, marks), Lacks(b, marks)
  PROVE  Lacks(a \o b, marks)
<1>1. a \in Text /\ b \in Text
  BY DEF Lacks
<1>2. /\ a \o b \in Text
      /\ \A i \in 1..Len(a \o b) :
              \/ i \in 1..Len(a) /\ (a \o b)[i] = a[i]
              \/ i - Len(a) \in 1..Len(b) /\ (a \o b)[i] = b[i - Len(a)]
  BY <1>1, OneAfterAnother
<1> QED BY <1>2 DEF Lacks

LEMMA OneMark ==
  ASSUME NEW x \in Letter
  PROVE  /\ <<x>> \in Text /\ Len(<<x>>) = 1 /\ <<x>>[1] = x
         /\ \A marks : x \notin marks => Lacks(<<x>>, marks)
<1>1. <<x>> \in Text /\ Len(<<x>>) = 1 /\ <<x>>[1] = x
  BY DEF Text
<1>2. \A i \in 1..1 : i = 1
  OBVIOUS
<1> QED BY <1>1, <1>2 DEF Lacks

-----------------------------------------------------------------------------
(* What models put around a document.                                      *)

(* What two fences enclose, prose before them.                             *)
LEMMA FencedIsFound ==
  ASSUME NEW p, Lacks(p, {"fence"}), NEW x, Lacks(x, {"fence"}), NEW u \in Text
  PROVE  Unfenced(p \o (<<"fence">> \o (x \o (<<"fence">> \o u)))) = x
<1> DEFINE f == <<"fence">>
           fu == f \o u
           xfu == x \o fu
           fxfu == f \o xfu
           s == p \o fxfu
<1>1. /\ f \in Text /\ Len(f) = 1 /\ f[1] = "fence"
      /\ p \in Text /\ x \in Text
      /\ \A k \in 1..Len(p) : p[k] # "fence"
      /\ \A k \in 1..Len(x) : x[k] # "fence"
  <2>1. "fence" \in Letter
    BY DEF Letter
  <2> QED BY <2>1, OneMark DEF Lacks
<1> HIDE DEF f
<1>2. /\ fu \in Text /\ Len(fu) = 1 + Len(u) /\ Len(u) \in Nat /\ fu[1] = "fence"
  <2>1. /\ f \o u \in Text /\ Len(f \o u) = Len(f) + Len(u) /\ Len(u) \in Nat
        /\ \A i \in 1..Len(f) : (f \o u)[i] = f[i]
    BY <1>1, OneAfterAnother
  <2>2. 1 \in 1..Len(f)
    BY <1>1
  <2> QED BY <1>1, <2>1, <2>2
<1> HIDE DEF fu
<1>3. /\ xfu \in Text /\ Len(xfu) = Len(x) + Len(fu) /\ Len(x) \in Nat
      /\ \A i \in 1..Len(x) : xfu[i] = x[i]
      /\ xfu[Len(x) + 1] = "fence"
  <2>1. /\ x \o fu \in Text /\ Len(x \o fu) = Len(x) + Len(fu) /\ Len(x) \in Nat
        /\ \A i \in 1..Len(x) : (x \o fu)[i] = x[i]
        /\ \A i \in 1..Len(fu) : (x \o fu)[Len(x) + i] = fu[i]
    BY <1>1, <1>2, OneAfterAnother
  <2>2. 1 \in 1..Len(fu)
    BY <1>2
  <2> QED BY <1>2, <2>1, <2>2
<1> HIDE DEF xfu
<1>4. /\ fxfu \in Text /\ Len(fxfu) = 1 + Len(xfu) /\ fxfu[1] = "fence"
      /\ \A i \in 1..Len(xfu) : fxfu[1 + i] = xfu[i]
  <2>1. /\ f \o xfu \in Text /\ Len(f \o xfu) = Len(f) + Len(xfu)
        /\ \A i \in 1..Len(f) : (f \o xfu)[i] = f[i]
        /\ \A i \in 1..Len(xfu) : (f \o xfu)[Len(f) + i] = xfu[i]
    BY <1>1, <1>3, OneAfterAnother
  <2>2. 1 \in 1..Len(f)
    BY <1>1
  <2> QED BY <1>1, <2>1, <2>2
<1> HIDE DEF fxfu
<1>5. /\ s \in Text /\ Len(s) = Len(p) + Len(fxfu) /\ Len(p) \in Nat
      /\ \A i \in 1..Len(p) : s[i] = p[i]
      /\ \A i \in 1..Len(fxfu) : s[Len(p) + i] = fxfu[i]
  BY <1>1, <1>4, OneAfterAnother
<1> HIDE DEF s
<1> DEFINE i == Len(p) + 1
           j == (Len(p) + Len(x)) + 2
<1>6. /\ Len(s) = ((Len(p) + Len(x)) + 2) + Len(u)
      /\ i \in 1..Len(s) /\ j \in 1..Len(s) /\ i < j
      /\ (i + 1) \in 1..Len(s) /\ j - 1 \in Nat
  BY <1>2, <1>3, <1>4, <1>5
<1>7. \A k \in 1..Len(xfu) : s[(Len(p) + 1) + k] = xfu[k]
  <2> TAKE k \in 1..Len(xfu)
  <2>1. 1 + k \in 1..Len(fxfu) /\ Len(p) + (1 + k) = (Len(p) + 1) + k
    BY <1>2, <1>3, <1>4, <1>5
  <2>2. s[Len(p) + (1 + k)] = fxfu[1 + k]
    BY <1>5, <2>1
  <2> QED BY <1>4, <2>1, <2>2
<1>8. s[i] = "fence" /\ s[j] = "fence"
  <2>1. 1 \in 1..Len(fxfu) /\ Len(x) + 1 \in 1..Len(xfu) /\ (Len(p) + 1) + (Len(x) + 1) = j
    BY <1>2, <1>3, <1>4, <1>5
  <2>2. s[Len(p) + 1] = fxfu[1]
    BY <1>5, <2>1
  <2>3. s[(Len(p) + 1) + (Len(x) + 1)] = xfu[Len(x) + 1]
    BY <1>7, <2>1
  <2> QED BY <1>3, <1>4, <2>1, <2>2, <2>3
<1>9. \A k \in 1..Len(x) : s[(Len(p) + 1) + k] = x[k]
  <2> TAKE k \in 1..Len(x)
  <2>1. k \in 1..Len(xfu)
    BY <1>2, <1>3
  <2> QED BY <1>3, <1>7, <2>1
<1>10. ASSUME NEW k \in 1..(j - 1), k # i PROVE s[k] # "fence"
  <2>1. CASE k \in 1..Len(p)
    BY <1>1, <1>5, <2>1
  <2>2. CASE ~(k \in 1..Len(p))
    <3>1. k - (Len(p) + 1) \in 1..Len(x) /\ (Len(p) + 1) + (k - (Len(p) + 1)) = k
      BY <1>3, <1>5, <1>10, <2>2
    <3>2. s[(Len(p) + 1) + (k - (Len(p) + 1))] = x[k - (Len(p) + 1)]
      BY <1>9, <3>1
    <3> QED BY <1>1, <3>1, <3>2
  <2> QED BY <2>1, <2>2
<1>11. Unfenced(s) = SubSeq(s, i + 1, j - 1)
  <2> HIDE DEF i, j
  <2> QED BY <1>5, <1>6, <1>8, <1>10, FirstFences
<1>12. SubSeq(s, i + 1, j - 1) = x
  <2>1. CASE Len(x) = 0
    <3>1. i + 1 \in 1..(Len(s) + 1) /\ j - 1 = (i + 1) - 1
      BY <1>5, <1>6, <2>1
    <3>2. SubSeq(s, i + 1, j - 1) = <<>>
      <4> HIDE DEF i, j
      <4> QED BY <1>5, <3>1, NothingRead
    <3>3. x = <<>>
      BY <1>1, <2>1, EmptySeq DEF Text
    <3> QED BY <3>2, <3>3
  <2>2. CASE Len(x) # 0
    <3>1. i + 1 \in 1..Len(s) /\ j - 1 \in (i + 1)..Len(s)
          /\ ((j - 1) - (i + 1)) + 1 = Len(x)
          /\ \A k \in 1..Len(x) : ((i + 1) + k) - 1 = (Len(p) + 1) + k
      BY <1>2, <1>3, <1>5, <1>6, <2>2
    <3> HIDE DEF i, j
    <3>2. /\ SubSeq(s, i + 1, j - 1) \in Text
          /\ Len(SubSeq(s, i + 1, j - 1)) = Len(x)
          /\ \A k \in 1..Len(x) : SubSeq(s, i + 1, j - 1)[k] = s[((i + 1) + k) - 1]
      BY <1>5, <3>1, Slice
    <3>3. \A k \in 1..Len(x) : SubSeq(s, i + 1, j - 1)[k] = x[k]
      BY <1>9, <3>1, <3>2
    <3> QED BY <1>1, <3>2, <3>3, Alike
  <2> QED BY <2>1, <2>2
<1>13. Unfenced(s) = x
  BY <1>11, <1>12
<1> QED BY <1>13 DEF s, fxfu, xfu, fu, f

(* A text that parses as it is begins, after blanks, with an opener.       *)
LEMMA FirstTaken ==
  ASSUME NEW s \in Text, Accepted(Trim(s), JsonAtoms)
  PROVE  /\ Document(Trim(s))
         /\ \E m \in 1..Len(s) :
              s[m] \in Openers /\ \A i \in 1..(m - 1) : s[i] \in Blanks
<1>0. Len(s) \in Nat /\ DOMAIN s = 1..Len(s)
  BY DEF Text
<1>1. \E i \in 1..Len(s) : s[i] \notin Blanks
  <2>1. SUFFICES ASSUME \A i \in 1..Len(s) : s[i] \in Blanks PROVE FALSE
    OBVIOUS
  <2>2. {i \in DOMAIN s : s[i] \notin Blanks} = {}
    BY <1>0, <2>1
  <2>3. Trim(s) = <<>>
    BY <2>2 DEF Trim
  <2>4. <<>> \in Text /\ Len(<<>>) = 0
    BY DEF Text
  <2>5. PICK f : ReadScan(<<>>, JsonAtoms, f)
    BY <2>4, ReadByScan
  <2>6. Read(<<>>, JsonAtoms)[0].at = "start"
    BY <2>5 DEF ReadScan, Start
  <2> QED BY <2>3, <2>4, <2>6 DEF Accepted
<1>2. PICK i \in 1..Len(s) : s[i] \notin Blanks
  BY <1>1
<1>3. \E m, M : Trimmed(s, m, M)
  BY <1>2, TrimIs
<1>4. PICK m, M : Trimmed(s, m, M)
  BY <1>3
<1>5. /\ m \in 1..Len(s) /\ M \in m..Len(s)
      /\ s[m] \notin Blanks /\ s[M] \notin Blanks
      /\ \A k \in 1..Len(s) : s[k] \notin Blanks => m <= k /\ k <= M
      /\ Trim(s) \in Text
      /\ Len(Trim(s)) = (M - m) + 1
      /\ \A k \in 1..((M - m) + 1) : Trim(s)[k] = s[(m + k) - 1]
  BY <1>4 DEF Trimmed
<1>6. Trim(s)[1] = s[m] /\ Trim(s)[Len(Trim(s))] = s[M]
  <2>1. /\ 1 \in 1..((M - m) + 1) /\ (m + 1) - 1 = m
        /\ (M - m) + 1 \in 1..((M - m) + 1) /\ (m + ((M - m) + 1)) - 1 = M
    BY <1>0, <1>5
  <2> QED BY <1>5, <2>1
<1>7. Document(Trim(s))
  BY <1>5, <1>6 DEF Document
<1>8. PICK f : LooseScan(Trim(s), f)
  BY <1>5, LooseByScan
<1>9. s[m] \in Openers
  BY <1>6, <1>7, <1>8, DocumentIsLoose, ReadOf
<1>10. \A k \in 1..(m - 1) : s[k] \in Blanks
  <2> TAKE k \in 1..(m - 1)
  <2>1. k \in 1..Len(s) /\ ~(m <= k)
    BY <1>0, <1>5
  <2> QED BY <1>5, <2>1
<1> QED BY <1>5, <1>7, <1>9, <1>10

-----------------------------------------------------------------------------
(* JsonReply: what the reader makes of a reply while it is written.        *)

(* A scanner goes over a text from one state to another.                   *)
Run(S, step, s, y, z) ==
  \E g : /\ g \in [0..Len(s) -> S]
         /\ g[0] = y
         /\ \A i \in 1..Len(s) : g[i] = step[<<g[i - 1], s[i]>>]
         /\ g[Len(s)] = z

LEMMA RunNothing ==
  ASSUME NEW S, NEW step, NEW y \in S
  PROVE  Run(S, step, <<>>, y, y)
<1> DEFINE g == [i \in 0..0 |-> y]
<1>1. g \in [0..Len(<<>>) -> S] /\ g[0] = y /\ g[Len(<<>>)] = y /\ 1..Len(<<>>) = {}
  OBVIOUS
<1> HIDE DEF g
<1> QED BY <1>1 DEF Run

LEMMA RunCharacter ==
  ASSUME NEW S, NEW step, NEW y \in S, NEW z \in S, NEW c, z = step[<<y, c>>]
  PROVE  Run(S, step, <<c>>, y, z)
<1> DEFINE g == [i \in 0..1 |-> IF i = 0 THEN y ELSE z]
<1>1. /\ g \in [0..1 -> S] /\ g[0] = y /\ g[1] = z /\ Len(<<c>>) = 1 /\ <<c>>[1] = c
      /\ \A i \in 1..1 : i = 1 /\ i - 1 = 0
  OBVIOUS
<1> HIDE DEF g
<1> QED BY <1>1 DEF Run

LEMMA RunBoth ==
  ASSUME NEW S, NEW step, NEW a \in Text, NEW b \in Text, NEW x, NEW y, NEW z,
         Run(S, step, a, x, y), Run(S, step, b, y, z)
  PROVE  Run(S, step, a \o b, x, z)
<1> DEFINE m == Len(a)
           n == Len(b)
           ab == a \o b
<1>1. PICK f : /\ f \in [0..m -> S] /\ f[0] = x /\ f[m] = y
               /\ \A i \in 1..m : f[i] = step[<<f[i - 1], a[i]>>]
  BY DEF Run
<1>2. PICK g : /\ g \in [0..n -> S] /\ g[0] = y /\ g[n] = z
               /\ \A i \in 1..n : g[i] = step[<<g[i - 1], b[i]>>]
  BY DEF Run
<1>3. /\ m \in Nat /\ n \in Nat /\ Len(ab) = m + n
      /\ \A i \in 1..m : ab[i] = a[i]
      /\ \A i \in 1..n : ab[m + i] = b[i]
  BY OneAfterAnother
<1> DEFINE h == [i \in 0..(m + n) |-> IF i <= m THEN f[i] ELSE g[i - m]]
<1> HIDE DEF m, n, ab
<1>4. h \in [0..(m + n) -> S]
  <2>1. ASSUME NEW i \in 0..(m + n) PROVE h[i] \in S
    <3>1. CASE i <= m
      BY <1>1, <1>3, <3>1
    <3>2. CASE ~(i <= m)
      <4>1. i - m \in 0..n
        BY <1>3, <3>2
      <4> QED BY <1>2, <3>2, <4>1
    <3> QED BY <3>1, <3>2
  <2> QED BY <2>1
<1>5. h[0] = x
  BY <1>1, <1>3
<1>6. h[m + n] = z
  <2>1. CASE n = 0
    BY <1>1, <1>2, <1>3, <2>1
  <2>2. CASE n # 0
    <3>1. ~(m + n <= m) /\ (m + n) - m = n /\ m + n \in 0..(m + n)
      BY <1>3, <2>2
    <3> QED BY <1>2, <3>1
  <2> QED BY <2>1, <2>2
<1>7. \A i \in 1..n : h[m + i] = g[i]
  <2> TAKE i \in 1..n
  <2>1. m + i \in 0..(m + n) /\ ~(m + i <= m) /\ (m + i) - m = i
    BY <1>3
  <2> QED BY <2>1
<1>8. \A i \in 0..m : h[i] = f[i]
  BY <1>3
<1>9. ASSUME NEW i \in 1..(m + n) PROVE h[i] = step[<<h[i - 1], ab[i]>>]
  <2> HIDE DEF h
  <2>1. CASE i <= m
    <3>1. i \in 1..m /\ i \in 0..m /\ i - 1 \in 0..m
      BY <1>3, <2>1
    <3> QED BY <1>1, <1>3, <1>8, <3>1
  <2>2. CASE ~(i <= m)
    <3> DEFINE j == i - m
    <3>1. j \in 1..n /\ i = m + j /\ (j = 1 => i - 1 = m /\ j - 1 = 0 /\ m \in 0..m)
          /\ (j # 1 => j - 1 \in 1..n /\ i - 1 = m + (j - 1))
      BY <1>3, <2>2
    <3> HIDE DEF j
    <3>2. h[i] = g[j] /\ ab[i] = b[j] /\ g[j] = step[<<g[j - 1], b[j]>>]
      BY <1>2, <1>3, <1>7, <3>1
    <3>3. h[i - 1] = g[j - 1]
      BY <1>1, <1>2, <1>7, <1>8, <3>1
    <3> QED BY <3>2, <3>3
  <2> QED BY <2>1, <2>2
<1> HIDE DEF h
<1> QED BY <1>3, <1>4, <1>5, <1>6, <1>9 DEF Run, ab

(* What no character of the text leads out of holds at the end.            *)
LEMMA RunWithin ==
  ASSUME NEW S, NEW J \in SUBSET S, NEW C, NEW s \in Text, NEW y \in J, NEW step,
         \A i \in 1..Len(s) : s[i] \in C,
         \A x \in J, c \in C : step[<<x, c>>] \in J
  PROVE  \E z \in J : Run(S, step, s, y, z)
<1> DEFINE L == Len(s)
           go == [x \in J \X (1..L) |-> step[<<x[1], s[x[2]]>>]]
<1>1. L \in Nat
  BY DEF Text
<1>2. go \in [J \X (1..L) -> J]
  OBVIOUS
<1>3. PICK g : Scan(g, J, y, go, L)
  <2> HIDE DEF go, L
  <2> QED BY <1>1, <1>2, ScanExists
<1>4. g \in [0..L -> J] /\ g[0] = y /\ L \in 0..L
  BY <1>1, <1>3 DEF Scan
<1>5. ASSUME NEW i \in 1..L PROVE g[i] = step[<<g[i - 1], s[i]>>]
  <2>1. i - 1 \in 0..L /\ g[i] = go[<<g[i - 1], i>>]
    <3> HIDE DEF go, L
    <3> QED BY <1>1, <1>3 DEF Scan
  <2>2. g[i - 1] \in J
    BY <1>4, <2>1
  <2> QED BY <2>1, <2>2
<1>6. g \in [0..L -> S] /\ g[L] \in J
  BY <1>4
<1>7. Run(S, step, s, y, g[L])
  <2> HIDE DEF go
  <2> QED BY <1>4, <1>5, <1>6 DEF Run
<1> QED BY <1>6, <1>7

(* It ends in one state.                                                   *)
LEMMA OneRun ==
  ASSUME NEW S, NEW step, NEW s \in Text, NEW x, NEW y, NEW z,
         Run(S, step, s, x, y), Run(S, step, s, x, z)
  PROVE  y = z
<1> DEFINE L == Len(s)
<1>1. L \in Nat
  BY DEF Text
<1>2. PICK f : /\ f[0] = x /\ f[L] = y
               /\ \A i \in 1..L : f[i] = step[<<f[i - 1], s[i]>>]
  BY DEF Run
<1>3. PICK g : /\ g[0] = x /\ g[L] = z
               /\ \A i \in 1..L : g[i] = step[<<g[i - 1], s[i]>>]
  BY DEF Run
<1> DEFINE K == {n \in 0..L : f[n] = g[n]}
<1>4. 0 \in K
  BY <1>1, <1>2, <1>3
<1>5. ASSUME NEW n \in 0..(L - 1), n \in K PROVE n + 1 \in K
  <2>1. n + 1 \in 1..L /\ n + 1 \in 0..L /\ (n + 1) - 1 = n
    BY <1>1
  <2> QED BY <1>2, <1>3, <1>5, <2>1
<1>6. \A n \in 0..L : n \in K
  <2> HIDE DEF K, L
  <2> QED BY <1>1, <1>4, <1>5, BoundedInduction
<1>7. L \in K
  BY <1>1, <1>6
<1> QED BY <1>2, <1>3, <1>7

(* The scanners.                                                           *)
Thinking == [out : Text, held : Text]

Reader(atoms) == [x \in Lexes \X Letter |-> After(x[1], x[2], atoms)]
LooseReader == [x \in Lexes \X Letter |-> Loose(x[1], x[2])]
Uncommenter == [x \in Uncommented \X Letter |-> Uncomment(x[1], x[2])]
Unthinker == [x \in Thinking \X Letter |-> Unthink(x[1], x[2])]

Unread == [out |-> <<>>, at |-> "code"]
Unthought == [out |-> <<>>, held |-> <<>>]

LEMMA ReadRuns ==
  ASSUME NEW s \in Text, NEW atoms, NEW f, ReadScan(s, atoms, f)
  PROVE  Run(Lexes, Reader(atoms), s, Start, f[Len(s)])
<1>1. f \in [0..Len(s) -> Lexes] /\ f[0] = Start /\ Len(s) \in Nat
  BY DEF ReadScan, Text
<1>2. ASSUME NEW i \in 1..Len(s) PROVE f[i] = Reader(atoms)[<<f[i - 1], s[i]>>]
  <2>1. i - 1 \in 0..Len(s) /\ s[i] \in Letter
    BY <1>1, ElementOfSeq DEF Text
  <2>2. f[i - 1] \in Lexes /\ f[i] = After(f[i - 1], s[i], atoms)
    BY <1>1, <2>1 DEF ReadScan
  <2> QED BY <2>1, <2>2 DEF Reader
<1> QED BY <1>1, <1>2 DEF Run

LEMMA ReadIsRun ==
  ASSUME NEW s \in Text, NEW atoms, NEW z, Run(Lexes, Reader(atoms), s, Start, z)
  PROVE  Read(s, atoms)[Len(s)] = z
<1>1. PICK f : ReadScan(s, atoms, f)
  BY ReadByScan
<1>2. f[Len(s)] = z
  BY <1>1, ReadRuns, OneRun
<1> QED BY <1>1, <1>2 DEF ReadScan

LEMMA LooseIsRun ==
  ASSUME NEW s \in Text, NEW z, Run(Lexes, LooseReader, s, Start, z)
  PROVE  \E f : LooseScan(s, f) /\ f[Len(s)] = z
<1>1. PICK f : /\ f \in [0..Len(s) -> Lexes] /\ f[0] = Start /\ f[Len(s)] = z
               /\ \A i \in 1..Len(s) : f[i] = LooseReader[<<f[i - 1], s[i]>>]
  BY DEF Run
<1>2. ASSUME NEW i \in 1..Len(s) PROVE f[i] = Loose(f[i - 1], s[i])
  <2>1. i - 1 \in 0..Len(s) /\ s[i] \in Letter /\ Len(s) \in Nat
    BY ElementOfSeq DEF Text
  <2>2. f[i - 1] \in Lexes
    BY <1>1, <2>1
  <2> QED BY <1>1, <2>1, <2>2 DEF LooseReader
<1> QED BY <1>1, <1>2 DEF LooseScan

LEMMA CommentsAreRun ==
  ASSUME NEW s \in Text, NEW z, Run(Uncommented, Uncommenter, s, Unread, z)
  PROVE  /\ z \in Uncommented
         /\ WithoutComments(s) = IF z.at = "slash" THEN Append(z.out, "/") ELSE z.out
<1>1. PICK f : CommentScan(s, f)
  BY CommentsByScan
<1>2. /\ f \in [0..Len(s) -> Uncommented] /\ f[0] = Unread /\ Len(s) \in Nat
      /\ f[Len(s)] \in Uncommented
  BY <1>1 DEF CommentScan, Text, Unread
<1>3. ASSUME NEW i \in 1..Len(s) PROVE f[i] = Uncommenter[<<f[i - 1], s[i]>>]
  <2>1. i - 1 \in 0..Len(s) /\ s[i] \in Letter
    BY <1>2, ElementOfSeq DEF Text
  <2>2. f[i - 1] \in Uncommented /\ f[i] = Uncomment(f[i - 1], s[i])
    BY <1>1, <1>2, <2>1 DEF CommentScan
  <2> QED BY <2>1, <2>2 DEF Uncommenter
<1>4. Run(Uncommented, Uncommenter, s, Unread, f[Len(s)])
  BY <1>2, <1>3 DEF Run
<1>5. f[Len(s)] = z
  BY <1>4, OneRun
<1> QED BY <1>1, <1>2, <1>5 DEF CommentScan

LEMMA ThoughtsAreRun ==
  ASSUME NEW s \in Text, NEW z, Run(Thinking, Unthinker, s, Unthought, z)
  PROVE  WithoutThoughts(s) = z.out \o z.held
<1> DEFINE L == Len(s)
           state == CHOOSE f : f = [i \in 0..L |->
                      IF i = 0 THEN [out |-> <<>>, held |-> <<>>] ELSE Unthink(f[i - 1], s[i])]
<1>1. L \in Nat
  BY DEF Text
<1>2. PICK g : /\ g \in [0..L -> Thinking] /\ g[0] = Unthought /\ g[L] = z
               /\ \A i \in 1..L : g[i] = Unthinker[<<g[i - 1], s[i]>>]
  BY DEF Run
<1>3. ASSUME NEW i \in 1..L PROVE g[i] = Unthink(g[i - 1], s[i]) /\ i - 1 \in 0..L
  <2>1. i - 1 \in 0..L /\ s[i] \in Letter
    BY <1>1, ElementOfSeq DEF Text
  <2>2. g[i - 1] \in Thinking
    BY <1>2, <2>1
  <2> QED BY <1>2, <2>1, <2>2 DEF Unthinker
<1>4. g = [i \in 0..L |-> IF i = 0 THEN [out |-> <<>>, held |-> <<>>]
                          ELSE Unthink(g[i - 1], s[i])]
  <2>1. \A i \in 0..L : g[i] = IF i = 0 THEN [out |-> <<>>, held |-> <<>>]
                               ELSE Unthink(g[i - 1], s[i])
    BY <1>1, <1>2, <1>3 DEF Unthought
  <2> HIDE DEF L
  <2> QED BY <1>2, <2>1
<1>5. state = [i \in 0..L |-> IF i = 0 THEN [out |-> <<>>, held |-> <<>>]
                              ELSE Unthink(state[i - 1], s[i])]
  BY <1>4
<1>6. WithoutThoughts(s) = state[L].out \o state[L].held
  BY DEF WithoutThoughts
<1> DEFINE K == {n \in 0..L : state[n] = g[n]}
<1> HIDE DEF state
<1>7. 0 \in K
  BY <1>1, <1>2, <1>5 DEF Unthought
<1>8. ASSUME NEW n \in 0..(L - 1), n \in K PROVE n + 1 \in K
  <2>1. n + 1 \in 1..L /\ n + 1 \in 0..L /\ (n + 1) - 1 = n /\ n + 1 # 0
    BY <1>1
  <2>2. state[n + 1] = Unthink(state[n], s[n + 1])
    BY <1>5, <2>1
  <2>3. g[n + 1] = Unthink(g[n], s[n + 1])
    BY <1>3, <2>1
  <2> QED BY <1>8, <2>1, <2>2, <2>3
<1>9. \A n \in 0..L : n \in K
  <2> HIDE DEF K, L
  <2> QED BY <1>1, <1>7, <1>8, BoundedInduction
<1>10. L \in K
  BY <1>1, <1>9
<1> QED BY <1>2, <1>6, <1>10

-----------------------------------------------------------------------------
(* Thought blocks, character by character.                                 *)

LEMMA ConcatAppend ==
  ASSUME NEW a \in Text, NEW b \in Text, NEW c \in Letter
  PROVE  /\ a \o Append(b, c) = Append(a \o b, c)
         /\ Append(a, c) = a \o <<c>>
         /\ a \o b \in Text /\ Append(a, c) \in Text /\ <<c>> \in Text
<1>1. <<c>> \in Seq(Letter) /\ a \in Seq(Letter) /\ b \in Seq(Letter)
  BY DEF Text
<1>2. a \o b \in Seq(Letter)
  BY <1>1, ConcatProperties
<1>3. /\ Append(b, c) = b \o <<c>> /\ Append(a \o b, c) = (a \o b) \o <<c>>
      /\ Append(a, c) = a \o <<c>> /\ Append(a, c) \in Seq(Letter)
  BY <1>1, <1>2, AppendIsConcat, AppendProperties
<1>4. (a \o b) \o <<c>> = a \o (b \o <<c>>)
  BY <1>1, ConcatAssociative
<1> QED BY <1>1, <1>2, <1>3, <1>4 DEF Text

LEMMA ConcatText ==
  ASSUME NEW a \in Text, NEW b \in Text, NEW c \in Text
  PROVE  /\ (a \o b) \o c = a \o (b \o c)
         /\ a \o b \in Text
         /\ a \o <<>> = a /\ <<>> \o a = a /\ <<>> \in Text
BY ConcatAssociative, ConcatProperties, ConcatEmptySeq DEF Text

Told(o) == [out |-> o, held |-> <<>>]

LEMMA ToldOn ==
  ASSUME NEW o \in Text, NEW c \in Letter
  PROVE  /\ Told(o) \in Thinking
         /\ c # "<think>" => Unthinker[<<Told(o), c>>] = Told(Append(o, c))
         /\ c = "<think>" => Unthinker[<<Told(o), c>>] = [out |-> o, held |-> <<c>>]
<1>1. Told(o) \in Thinking
  BY DEF Told, Thinking, Text
<1>2. Unthinker[<<Told(o), c>>] = Unthink(Told(o), c)
  BY <1>1 DEF Unthinker
<1>3. Unthink(Told(o), c) =
        IF c = "<think>" THEN [out |-> o, held |-> Append(<<>>, c)]
        ELSE [out |-> Append(o, c), held |-> <<>>]
  <2> DEFINE st == Told(o)
  <2>1. st = [out |-> o, held |-> <<>>] /\ st.held = <<>> /\ st.out = o
    BY DEF Told
  <2> HIDE DEF st
  <2>2. CASE c = "<think>"
    <3>1. Unthink(st, c) = [st EXCEPT !.held = Append(@, c)]
      BY <2>1, <2>2 DEF Unthink
    <3>2. [st EXCEPT !.held = Append(@, c)] = [out |-> o, held |-> Append(<<>>, c)]
      BY <2>1
    <3> QED BY <2>2, <3>1, <3>2 DEF st
  <2>3. CASE c # "<think>"
    <3>1. Unthink(st, c) = [st EXCEPT !.out = Append(@, c)]
      BY <2>1, <2>3 DEF Unthink
    <3>2. [st EXCEPT !.out = Append(@, c)] = [out |-> Append(o, c), held |-> <<>>]
      BY <2>1
    <3> QED BY <2>3, <3>1, <3>2 DEF st
  <2> QED BY <2>2, <2>3
<1>4. Append(<<>>, c) = <<c>>
  OBVIOUS
<1> QED BY <1>1, <1>2, <1>3, <1>4 DEF Told

(* What has no thought in it is told.                                      *)
LEMMA SaidIsTold ==
  ASSUME NEW o \in Text, NEW s, Lacks(s, {"<think>"})
  PROVE  Run(Thinking, Unthinker, s, Told(o), Told(o \o s))
<1> DEFINE L == Len(s)
           so(i) == SubSeq(s, 1, i)
           g == [i \in 0..L |-> Told(o \o so(i))]
<1>1. s \in Text /\ L \in Nat /\ \A i \in 1..L : s[i] \in Letter /\ s[i] # "<think>"
  BY ElementOfSeq DEF Lacks, Text
<1>2. so(0) = <<>> /\ so(L) = s
  <2>1. 1 \in 1..(Len(s) + 1) /\ 1 - 1 = 0
    BY <1>1
  <2> QED BY <1>1, <2>1, NothingRead, Whole
<1>3. \A i \in 0..L : so(i) \in Text
  <2> TAKE i \in 0..L
  <2>1. CASE i = 0
    BY <1>2, <2>1 DEF Text
  <2>2. CASE i # 0
    <3>1. 1 \in 1..Len(s) /\ i \in 1..Len(s)
      BY <1>1, <2>2
    <3> QED BY <1>1, <3>1, Slice
  <2> QED BY <2>1, <2>2
<1>4. \A i \in 0..L : o \o so(i) \in Text /\ Told(o \o so(i)) \in Thinking
  <2> TAKE i \in 0..L
  <2>1. so(i) \in Text
    BY <1>3
  <2> HIDE DEF so
  <2>2. o \o so(i) \in Text
    BY <2>1, OneAfterAnother
  <2> QED BY <2>2 DEF Told, Thinking, Text
<1>5. ASSUME NEW i \in 1..L PROVE g[i] = Unthinker[<<g[i - 1], s[i]>>]
  <2>1. i - 1 \in 0..L /\ i \in 0..L
    BY <1>1
  <2>2. so(i) = Append(so(i - 1), s[i])
    <3>1. 1 \in 1..(Len(s) + 1)
      BY <1>1
    <3> QED BY <1>1, <3>1, Upto
  <2>3. so(i - 1) \in Text /\ o \o so(i - 1) \in Text /\ s[i] \in Letter /\ s[i] # "<think>"
    BY <1>1, <1>3, <1>4, <2>1
  <2>4. g[i] = Told(o \o so(i)) /\ g[i - 1] = Told(o \o so(i - 1))
    BY <2>1
  <2> HIDE DEF so, g
  <2>5. o \o Append(so(i - 1), s[i]) = Append(o \o so(i - 1), s[i])
    BY <2>3, ConcatAppend
  <2> QED BY <2>2, <2>3, <2>4, <2>5, ToldOn
<1>6. g \in [0..L -> Thinking] /\ g[0] = Told(o) /\ g[L] = Told(o \o s)
  <2>1. o \o <<>> = o /\ 0 \in 0..L /\ L \in 0..L
    BY <1>1, ConcatText
  <2>2. g[0] = Told(o \o so(0)) /\ g[L] = Told(o \o so(L))
    BY <2>1
  <2>3. g \in [0..L -> Thinking]
    BY <1>4
  <2> HIDE DEF g, so
  <2> QED BY <1>2, <2>1, <2>2, <2>3
<1> HIDE DEF g
<1> QED BY <1>5, <1>6 DEF Run

(* A thought is not told.                                                  *)
LEMMA ThoughtIsNotTold ==
  ASSUME NEW o \in Text, NEW s, Lacks(s, {"</think>"})
  PROVE  /\ <<"<think>">> \o s \o <<"</think>">> \in Text
         /\ Run(Thinking, Unthinker, <<"<think>">> \o s \o <<"</think>">>, Told(o), Told(o))
<1> DEFINE J == {x \in Thinking : x.out = o /\ x.held # <<>>}
           C == Letter \ {"</think>"}
           b == <<"<think>">>
           e == <<"</think>">>
<1>1. s \in Text /\ \A i \in 1..Len(s) : s[i] \in C
  BY ElementOfSeq DEF Lacks, Text
<1>2. "<think>" \in Letter /\ "</think>" \in Letter /\ "<think>" # "</think>"
  BY DEF Letter
<1>3. b \in Text /\ e \in Text /\ b # <<>>
  BY <1>2 DEF Text
<1> DEFINE h == [out |-> o, held |-> b]
<1>4. h \in J /\ J \in SUBSET Thinking
  BY <1>3 DEF Thinking
<1>5. ASSUME NEW x \in J, NEW c \in C PROVE Unthinker[<<x, c>>] \in J
  <2>1. x \in Thinking /\ x.out \in Text /\ x.held \in Text /\ c \in Letter /\ c # "</think>"
        /\ x = [out |-> x.out, held |-> x.held]
    BY DEF Thinking
  <2>2. Append(x.held, c) \in Text /\ Append(x.held, c) # <<>>
    BY <2>1, AppendProperties DEF Text
  <2>3. Unthink(x, c) = [x EXCEPT !.held = Append(@, c)]
    BY <2>1 DEF Unthink
  <2>4. Unthink(x, c) = [out |-> x.out, held |-> Append(x.held, c)]
    BY <2>1, <2>3
  <2>5. Unthinker[<<x, c>>] = Unthink(x, c)
    BY <2>1 DEF Unthinker
  <2> QED BY <2>1, <2>2, <2>4, <2>5 DEF Thinking
<1>6. PICK z \in J : Run(Thinking, Unthinker, s, h, z)
  <2> HIDE DEF J, C, h
  <2> QED BY <1>1, <1>4, <1>5, RunWithin
<1>7. Run(Thinking, Unthinker, b, Told(o), h)
  BY <1>2, <1>4, ToldOn, RunCharacter
<1>8. Run(Thinking, Unthinker, e, z, Told(o))
  <2>1. z \in Thinking /\ z.out = o /\ z.held # <<>> /\ z = [out |-> z.out, held |-> z.held]
    BY DEF Thinking
  <2>2. Unthink(z, "</think>") = [z EXCEPT !.held = <<>>]
    BY <2>1 DEF Unthink
  <2>3. Unthink(z, "</think>") = Told(o)
    BY <2>1, <2>2 DEF Told
  <2>4. Unthinker[<<z, "</think>">>] = Told(o)
    BY <1>2, <2>1, <2>3 DEF Unthinker
  <2> QED BY <1>2, <2>1, <2>4, ToldOn, RunCharacter
<1> HIDE DEF b, e, h
<1>9. b \o s \in Text
  BY <1>1, <1>3, ConcatText
<1>10. Run(Thinking, Unthinker, b \o s, Told(o), z)
  BY <1>1, <1>3, <1>6, <1>7, RunBoth
<1>11. Run(Thinking, Unthinker, b \o s \o e, Told(o), Told(o)) /\ b \o s \o e \in Text
  BY <1>3, <1>8, <1>9, <1>10, RunBoth, ConcatText
<1> QED BY <1>11 DEF b, e

-----------------------------------------------------------------------------
(* Comments, piece by piece.                                               *)

At(o, at) == [out |-> o, at |-> at]

LEMMA AtType ==
  ASSUME NEW o \in Text, NEW at \in {"code", "string", "escape", "slash", "line", "block", "star"}
  PROVE  /\ At(o, at) \in Uncommented
         /\ At(o, at).out = o /\ At(o, at).at = at
         /\ \A c \in Letter : Uncommenter[<<At(o, at), c>>] = Uncomment(At(o, at), c)
<1>1. At(o, at) \in Uncommented
  BY DEF At, Uncommented
<1> QED BY <1>1 DEF At, Uncommenter

LEMMA Regroup ==
  ASSUME NEW a \in Text, NEW b \in Text, NEW c \in Text
  PROVE  (a \o b) \o c = a \o (b \o c) /\ a \o b \in Text /\ b \o c \in Text
BY ConcatAssociative, ConcatProperties DEF Text

(* One character on.                                                       *)
LEMMA UncommentAt ==
  ASSUME NEW o \in Text, NEW at \in {"code", "string", "escape", "slash", "line", "block", "star"},
         NEW c \in Letter
  PROVE  LET n == Uncommenter[<<At(o, at), c>>]
         IN  /\ at = "string" /\ c = Quote => n = At(Append(o, c), "code")
             /\ at = "string" /\ c \notin {Quote, Backslash} => n = At(Append(o, c), "string")
             /\ at = "code" /\ c # "/" => n = At(Append(o, c), AtQuote(c))
             /\ at = "code" /\ c = "/" => n = At(o, "slash")
             /\ at = "slash" /\ c = "/" => n = At(o, "line")
             /\ at = "slash" /\ c = "*" => n = At(o, "block")
             /\ at = "slash" /\ c \notin {"/", "*"} => n = At(Append(Append(o, "/"), c), AtQuote(c))
             /\ at = "line" /\ c # Newline => n = At(o, "line")
             /\ at = "line" /\ c = Newline => n = At(Append(o, c), AtQuote(c))
             /\ at \in {"block", "star"} /\ c = "*" => n = At(o, "star")
             /\ at = "star" /\ c = "/" => n = At(o, "code")
             /\ at \in {"block", "star"} /\ c \notin {"*", "/"} => n = At(o, "block")
             /\ at = "block" /\ c # "*" => n = At(o, "block")
<1> DEFINE st == At(o, at)
<1>1. st \in Uncommented /\ st.out = o /\ st.at = at
      /\ Uncommenter[<<st, c>>] = Uncomment(st, c)
  BY AtType
<1>2. \A w : [st EXCEPT !.at = w] = At(o, w)
  BY DEF At
<1> HIDE DEF st
<1>3. CASE at = "string"
  <2>1. c = Quote => Quote # Backslash
    BY DEF Quote, Backslash
  <2> QED BY <1>1, <1>3, <2>1 DEF Uncomment, At, st
<1>4. CASE at = "code"
  BY <1>1, <1>2, <1>4 DEF Uncomment, At, st
<1>5. CASE at = "slash"
  BY <1>1, <1>2, <1>5 DEF Uncomment, At, st
<1>6. CASE at = "line"
  BY <1>1, <1>2, <1>6 DEF Uncomment, At, st
<1>7. CASE at \in {"block", "star"}
  BY <1>1, <1>2, <1>7 DEF Uncomment, At, st
<1>8. CASE at = "escape"
  BY <1>8
<1> QED BY <1>3, <1>4, <1>5, <1>6, <1>7, <1>8

(* The scanner makes w of s.                                               *)
Rewrites(s, w) ==
  /\ s \in Text /\ w \in Text
  /\ \A o \in Text : Run(Uncommented, Uncommenter, s, At(o, "code"), At(o \o w, "code"))

LEMMA QuietCharacter ==
  ASSUME NEW c \in Letter, c \notin {Quote, "/"}
  PROVE  Rewrites(<<c>>, <<c>>)
<1>1. ASSUME NEW o \in Text
      PROVE  Run(Uncommented, Uncommenter, <<c>>, At(o, "code"), At(o \o <<c>>, "code"))
  <2>1. Append(o, c) = o \o <<c>> /\ Append(o, c) \in Text
    BY ConcatAppend
  <2>2. At(o, "code") \in Uncommented /\ At(Append(o, c), "code") \in Uncommented
    BY <2>1, AtType
  <2>3. Uncommenter[<<At(o, "code"), c>>] = At(Append(o, c), "code")
    BY UncommentAt DEF AtQuote
  <2> QED BY <2>1, <2>2, <2>3, RunCharacter
<1> QED BY <1>1, OneMark DEF Rewrites

(* A comment that is a line leaves the end of it.                          *)
LEMMA LineComment ==
  ASSUME NEW s, Lacks(s, {Newline})
  PROVE  Rewrites(<<"/", "/">> \o s \o <<Newline>>, <<Newline>>)
<1> DEFINE b == <<"/", "/">>
           e == <<Newline>>
           C == Letter \ {Newline}
<1>1. "/" \in Letter /\ Newline \in Letter /\ Newline # Quote /\ Newline # "/"
  BY DEF Letter, Newline, Quote
<1>2. b \in Text /\ e \in Text /\ <<"/">> \in Text /\ b = <<"/">> \o <<"/">>
  BY <1>1, OneMark DEF Text
<1>3. s \in Text /\ \A i \in 1..Len(s) : s[i] \in C
  BY ElementOfSeq DEF Lacks, Text
<1>4. b \o s \in Text /\ (b \o s) \o e \in Text
  <2> HIDE DEF b, e
  <2>1. b \o s \in Text
    BY <1>2, <1>3, Regroup
  <2> QED BY <1>2, <2>1, Regroup
<1>5. ASSUME NEW o \in Text
      PROVE  Run(Uncommented, Uncommenter, (b \o s) \o e, At(o, "code"), At(o \o e, "code"))
  <2> DEFINE J == {At(o, "line")}
  <2>1. /\ At(o, "code") \in Uncommented /\ At(o, "slash") \in Uncommented
        /\ At(o, "line") \in Uncommented /\ At(Append(o, Newline), "code") \in Uncommented
        /\ Append(o, Newline) = o \o e
    <3>1. Append(o, Newline) = o \o e /\ Append(o, Newline) \in Text
      BY <1>1, ConcatAppend
    <3> QED BY <3>1, AtType
  <2>2. /\ Uncommenter[<<At(o, "code"), "/">>] = At(o, "slash")
        /\ Uncommenter[<<At(o, "slash"), "/">>] = At(o, "line")
        /\ Uncommenter[<<At(o, "line"), Newline>>] = At(Append(o, Newline), "code")
        /\ \A c \in C : Uncommenter[<<At(o, "line"), c>>] = At(o, "line")
    BY <1>1, UncommentAt DEF AtQuote
  <2>3. Run(Uncommented, Uncommenter, <<"/">>, At(o, "code"), At(o, "slash"))
        /\ Run(Uncommented, Uncommenter, <<"/">>, At(o, "slash"), At(o, "line"))
    BY <2>1, <2>2, RunCharacter
  <2>4. Run(Uncommented, Uncommenter, b, At(o, "code"), At(o, "line"))
    BY <1>2, <2>3, RunBoth
  <2>5. PICK z \in J : Run(Uncommented, Uncommenter, s, At(o, "line"), z)
    <3>1. \A x \in J, c \in C : Uncommenter[<<x, c>>] \in J
      BY <2>2
    <3>2. J \in SUBSET Uncommented /\ At(o, "line") \in J
      BY <2>1
    <3> HIDE DEF J, C
    <3> QED BY <1>3, <3>1, <3>2, RunWithin
  <2>6. Run(Uncommented, Uncommenter, s, At(o, "line"), At(o, "line"))
    BY <2>5
  <2>7. Run(Uncommented, Uncommenter, e, At(o, "line"), At(Append(o, Newline), "code"))
    BY <2>1, <2>2, RunCharacter
  <2> HIDE DEF b, e
  <2>8. Run(Uncommented, Uncommenter, b \o s, At(o, "code"), At(o, "line"))
    BY <1>2, <1>3, <2>4, <2>6, RunBoth
  <2>9. Run(Uncommented, Uncommenter, (b \o s) \o e, At(o, "code"), At(o \o e, "code"))
    BY <1>2, <1>4, <2>1, <2>7, <2>8, RunBoth
  <2> QED BY <2>9
<1> DEFINE all == (b \o s) \o e
<1>6. all \in Text /\ e \in Text
      /\ \A o \in Text : Run(Uncommented, Uncommenter, all, At(o, "code"), At(o \o e, "code"))
  BY <1>2, <1>4, <1>5
<1> HIDE DEF all, e
<1>7. Rewrites(all, e)
  BY <1>6 DEF Rewrites
<1> QED BY <1>7 DEF all, e

(* A comment that is a block leaves nothing.                               *)
LEMMA BlockComment ==
  ASSUME NEW s \in Text,
         \A i \in 1..Len(s) : s[i] = "*" => ~(i + 1 \in 1..Len(s) /\ s[i + 1] = "/")
  PROVE  Rewrites(<<"/", "*">> \o s \o <<"*", "/">>, <<>>)
<1> DEFINE b == <<"/", "*">>
           e == <<"*", "/">>
           L == Len(s)
<1>1. "/" \in Letter /\ "*" \in Letter /\ "/" # "*"
  BY DEF Letter
<1>2. b \in Text /\ e \in Text /\ <<"/">> \in Text /\ <<"*">> \in Text
      /\ b = <<"/">> \o <<"*">> /\ e = <<"*">> \o <<"/">> /\ <<>> \in Text
  BY <1>1, OneMark DEF Text
<1>3. L \in Nat /\ \A i \in 1..L : s[i] \in Letter
  BY ElementOfSeq DEF Text
<1>4. b \o s \in Text /\ (b \o s) \o e \in Text
  <2> HIDE DEF b, e
  <2>1. b \o s \in Text
    BY <1>2, <1>3, Regroup
  <2> QED BY <1>2, <2>1, Regroup
<1>5. ASSUME NEW o \in Text
      PROVE  Run(Uncommented, Uncommenter, (b \o s) \o e, At(o, "code"), At(o \o <<>>, "code"))
  <2>1. /\ At(o, "code") \in Uncommented /\ At(o, "slash") \in Uncommented
        /\ At(o, "block") \in Uncommented /\ At(o, "star") \in Uncommented
        /\ o \o <<>> = o
    BY <1>1, AtType, ConcatText
  <2>2. /\ Uncommenter[<<At(o, "code"), "/">>] = At(o, "slash")
        /\ Uncommenter[<<At(o, "slash"), "*">>] = At(o, "block")
        /\ \A at \in {"block", "star"} : Uncommenter[<<At(o, at), "*">>] = At(o, "star")
        /\ Uncommenter[<<At(o, "star"), "/">>] = At(o, "code")
        /\ \A c \in Letter \ {"*"} : Uncommenter[<<At(o, "block"), c>>] = At(o, "block")
        /\ \A c \in Letter \ {"*", "/"} : Uncommenter[<<At(o, "star"), c>>] = At(o, "block")
    BY <1>1, UncommentAt
  <2>3. Run(Uncommented, Uncommenter, <<"/">>, At(o, "code"), At(o, "slash"))
        /\ Run(Uncommented, Uncommenter, <<"*">>, At(o, "slash"), At(o, "block"))
    BY <2>1, <2>2, RunCharacter
  <2>4. Run(Uncommented, Uncommenter, b, At(o, "code"), At(o, "block"))
    BY <1>2, <2>3, RunBoth
  <2> DEFINE g == [i \in 0..L |->
                     IF i # 0 /\ s[i] = "*" THEN At(o, "star") ELSE At(o, "block")]
  <2>5. g \in [0..L -> Uncommented] /\ g[0] = At(o, "block")
        /\ g[L] \in {At(o, "block"), At(o, "star")}
    BY <1>3, <2>1
  <2>6. ASSUME NEW i \in 1..L PROVE g[i] = Uncommenter[<<g[i - 1], s[i]>>]
    <3>1. i - 1 \in 0..L /\ i \in 0..L /\ i # 0 /\ s[i] \in Letter
      BY <1>3
    <3>2. CASE s[i] = "*"
      <4>1. g[i] = At(o, "star") /\ g[i - 1] \in {At(o, "block"), At(o, "star")}
        BY <3>1, <3>2
      <4> HIDE DEF g
      <4> QED BY <2>2, <3>2, <4>1
    <3>3. CASE s[i] # "*"
      <4>1. g[i] = At(o, "block")
        BY <3>1, <3>3
      <4>2. CASE i - 1 # 0 /\ s[i - 1] = "*"
        <5>1. g[i - 1] = At(o, "star") /\ i - 1 \in 1..Len(s) /\ (i - 1) + 1 = i
          BY <3>1, <4>2
        <5>2. s[i] # "/"
          BY <4>2, <5>1
        <5> HIDE DEF g
        <5> QED BY <2>2, <3>1, <3>3, <4>1, <5>1, <5>2
      <4>3. CASE ~(i - 1 # 0 /\ s[i - 1] = "*")
        <5>1. g[i - 1] = At(o, "block")
          BY <3>1, <4>3
        <5> HIDE DEF g
        <5> QED BY <2>2, <3>1, <3>3, <4>1, <5>1
      <4> QED BY <4>2, <4>3
    <3> QED BY <3>2, <3>3
  <2>7. Run(Uncommented, Uncommenter, s, At(o, "block"), g[L])
    <3> HIDE DEF g
    <3> QED BY <2>5, <2>6 DEF Run
  <2> HIDE DEF g
  <2>8. Run(Uncommented, Uncommenter, <<"*">>, g[L], At(o, "star"))
    BY <2>1, <2>2, <2>5, RunCharacter
  <2>9. Run(Uncommented, Uncommenter, <<"/">>, At(o, "star"), At(o, "code"))
    BY <2>1, <2>2, RunCharacter
  <2>10. Run(Uncommented, Uncommenter, e, g[L], At(o, "code"))
    BY <1>2, <2>8, <2>9, RunBoth
  <2> HIDE DEF b, e
  <2>11. Run(Uncommented, Uncommenter, b \o s, At(o, "code"), g[L])
    BY <1>2, <2>4, <2>7, RunBoth
  <2>12. Run(Uncommented, Uncommenter, (b \o s) \o e, At(o, "code"), At(o, "code"))
    BY <1>2, <1>4, <2>10, <2>11, RunBoth
  <2> QED BY <2>1, <2>12
<1> DEFINE all == (b \o s) \o e
<1>6. all \in Text /\ <<>> \in Text
      /\ \A o \in Text : Run(Uncommented, Uncommenter, all, At(o, "code"), At(o \o <<>>, "code"))
  BY <1>2, <1>4, <1>5
<1> HIDE DEF all
<1>7. Rewrites(all, <<>>)
  BY <1>6 DEF Rewrites
<1> QED BY <1>7 DEF all, b, e

LEMMA AComma ==
  Rewrites(<<",">>, <<",">>) /\ Rewrites(<<Newline>>, <<Newline>>)
  /\ Rewrites(<<"x">>, <<"x">>) /\ Rewrites(<<"fence">>, <<"fence">>)
BY QuietCharacter DEF Letter, Quote, Newline, JsonAtoms

-----------------------------------------------------------------------------
LEMMA Associate ==
  ASSUME NEW a \in Text, NEW b \in Text, NEW c \in Text
  PROVE  (a \o b) \o c = a \o (b \o c)
BY ConcatAssociative DEF Text

(* The scanner of comments where a document may begin: outside strings and *)
(* comments, no bracket before it.                                         *)
Opened(y) == y \in Uncommented /\ y.at \in {"code", "slash"} /\ Lacks(y.out, Openers)

(* From there on it leaves s of b, after something without an opener.      *)
Reads(b, s, at) ==
  /\ b \in Text /\ s \in Text
  /\ \A y : Opened(y) =>
       \E o : /\ Lacks(o, Openers)
              /\ Run(Uncommented, Uncommenter, b, y, At(o \o s, Lexed(at)))

LEMMA ReadsFirst ==
  ASSUME NEW c \in Openers
  PROVE  Reads(<<c>>, <<c>>, "open")
<1>1. c \in Letter /\ c \notin {"/", "*", Quote} /\ <<c>> \in Text /\ "/" \in Letter
      /\ "/" \notin Openers
  BY OneMark DEF Letter, Openers, Quote
<1>2. ASSUME NEW y, Opened(y)
      PROVE  \E o : /\ Lacks(o, Openers)
                    /\ Run(Uncommented, Uncommenter, <<c>>, y, At(o \o <<c>>, Lexed("open")))
  <2>1. y \in Uncommented /\ y.out \in Text /\ y.at \in {"code", "slash"} /\ Lacks(y.out, Openers)
        /\ y = At(y.out, y.at)
    BY <1>2 DEF Opened, Uncommented, At
  <2>2. PICK o : /\ Lacks(o, Openers)
                 /\ Uncommenter[<<y, c>>] = At(Append(o, c), "code")
    <3> DEFINE a == Append(y.out, "/")
    <3>1. CASE y.at = "code"
      BY <1>1, <2>1, <3>1, UncommentAt DEF AtQuote
    <3>2. CASE y.at = "slash"
      <4>1. a = y.out \o <<"/">> /\ Lacks(<<"/">>, Openers)
        BY <1>1, <2>1, ConcatAppend, OneMark
      <4>3. Lacks(a, Openers)
        BY <2>1, <4>1, LacksBoth
      <4>2. Uncommenter[<<y, c>>] = At(Append(a, c), "code")
        BY <1>1, <2>1, <3>2, UncommentAt DEF AtQuote
      <4> QED BY <4>2, <4>3
    <3> QED BY <2>1, <3>1, <3>2
  <2>3. o \in Text /\ o \o <<c>> \in Text /\ Append(o, c) = o \o <<c>> /\ Lexed("open") = "code"
    BY <1>1, <2>2, ConcatAppend DEF Lacks, Lexed
  <2>4. At(o \o <<c>>, "code") \in Uncommented
    BY <2>3, AtType
  <2>5. Run(Uncommented, Uncommenter, <<c>>, y, At(o \o <<c>>, "code"))
    BY <2>1, <2>2, <2>3, <2>4, RunCharacter
  <2> QED BY <2>2, <2>3, <2>5
<1> QED BY <1>1, <1>2 DEF Reads

(* A comment, or what it leaves.                                           *)
LEMMA ReadsComment ==
  ASSUME NEW b, NEW d, NEW at, at \notin {"string", "escape"}, Reads(b, d, at),
         NEW s, NEW w, Rewrites(s, w)
  PROVE  Reads(b \o s, d \o w, at)
<1>1. b \in Text /\ d \in Text /\ s \in Text /\ w \in Text /\ b \o s \in Text /\ d \o w \in Text
      /\ Lexed(at) = "code"
  <2>1. b \in Text /\ d \in Text /\ s \in Text /\ w \in Text
    BY DEF Reads, Rewrites
  <2> QED BY <2>1, OneAfterAnother DEF Lexed
<1>2. ASSUME NEW y, Opened(y)
      PROVE  \E o : /\ Lacks(o, Openers)
                    /\ Run(Uncommented, Uncommenter, b \o s, y, At(o \o (d \o w), "code"))
  <2>1. PICK o : /\ Lacks(o, Openers)
                 /\ Run(Uncommented, Uncommenter, b, y, At(o \o d, "code"))
    BY <1>1, <1>2 DEF Reads
  <2>2. o \in Text /\ (o \o d) \o w = o \o (d \o w) /\ o \o d \in Text
    <3>1. o \in Text
      BY <2>1 DEF Lacks
    <3> QED BY <1>1, <3>1, Regroup
  <2>3. Run(Uncommented, Uncommenter, s, At(o \o d, "code"), At((o \o d) \o w, "code"))
    BY <2>2 DEF Rewrites
  <2> QED BY <1>1, <2>1, <2>2, <2>3, RunBoth
<1> QED BY <1>1, <1>2 DEF Reads

LEMMA ExtendsItself ==
  ASSUME NEW a \in Text
  PROVE  Extends(a, a)
BY DEF Extends, Text

(* A character of the document.                                            *)
LEMMA ReadsCharacter ==
  ASSUME NEW b, NEW d, NEW here \in Lexes, Reads(b, d, here.at),
         NEW c \in Letter, NEW next, next = Loose(here, c), next.at # "bad"
  PROVE  Reads(b \o <<c>>, d \o <<c>>, next.at)
<1>1. b \in Text /\ d \in Text /\ <<c>> \in Text /\ b \o <<c>> \in Text /\ d \o <<c>> \in Text
  <2>1. b \in Text /\ d \in Text /\ <<c>> \in Text
    BY OneMark DEF Reads
  <2> QED BY <2>1, OneAfterAnother
<1>4. Lexed(here.at) \in {"code", "string", "escape"} /\ Lexed(next.at) \in {"code", "string", "escape"}
      /\ (here.at \notin {"string", "escape"} => Lexed(here.at) = "code")
      /\ (here.at \in {"string", "escape"} => Lexed(here.at) = here.at)
  BY DEF Lexed
<1>5. /\ here.at \notin {"string", "escape"} => c # "/"
      /\ Lexed(next.at) =
              IF here.at = "escape" THEN "string"
              ELSE IF here.at = "string"
                   THEN IF c = Quote THEN "code" ELSE IF c = Backslash THEN "escape" ELSE "string"
              ELSE AtQuote(c)
  BY LexedNext
<1>2. ASSUME NEW x, Opened(x)
      PROVE  \E o : /\ Lacks(o, Openers)
                    /\ Run(Uncommented, Uncommenter, b \o <<c>>, x, At(o \o (d \o <<c>>), Lexed(next.at)))
  <2>0. PICK o : /\ Lacks(o, Openers)
                 /\ Run(Uncommented, Uncommenter, b, x, At(o \o d, Lexed(here.at)))
    BY <1>2 DEF Reads
  <2> DEFINE y == At(o \o d, Lexed(here.at))
             od == o \o d
             at == Lexed(here.at)
             e == o \o (d \o <<c>>)
  <2>1. o \in Text /\ od \in Text /\ e \in Text /\ Append(od, c) = e
    <3>1. o \in Text
      BY <2>0 DEF Lacks
    <3>2. (o \o d) \o <<c>> = o \o (d \o <<c>>) /\ o \o d \in Text /\ o \o (d \o <<c>>) \in Text
      <4>1. (o \o d) \o <<c>> = o \o (d \o <<c>>) /\ o \o d \in Text
        BY <1>1, <3>1, Regroup
      <4>2. o \o (d \o <<c>>) \in Text
        BY <1>1, <3>1, OneAfterAnother
      <4> QED BY <4>1, <4>2
    <3>3. Append(o \o d, c) = (o \o d) \o <<c>>
      BY <3>2, ConcatAppend
    <3> QED BY <3>1, <3>2, <3>3
  <2> HIDE DEF od, at, e
  <2>2. /\ y = At(od, at) /\ y \in Uncommented /\ y.out = od /\ y.at = at
        /\ Uncommenter[<<y, c>>] = Uncomment(y, c)
    <3>1. y = At(od, at) /\ at \in {"code", "string", "escape"}
      BY <1>4 DEF od, at
    <3> HIDE DEF y
    <3> QED BY <2>1, <3>1, AtType
  <2> HIDE DEF y
  <2>3. Uncomment(y, c) =
           [out |-> Append(y.out, c),
            at |-> IF y.at = "escape" THEN "string"
                   ELSE IF y.at = "string"
                        THEN IF c = Quote THEN "code" ELSE IF c = Backslash THEN "escape" ELSE "string"
                   ELSE AtQuote(c)]
    <3>1. at = Lexed(here.at)
      BY DEF at
    <3> QED BY <1>4, <1>5, <2>2, <3>1, UncommentKeeps
  <2>4. Uncommenter[<<y, c>>] = At(e, Lexed(next.at))
    <3>1. (IF y.at = "escape" THEN "string"
                   ELSE IF y.at = "string"
                        THEN IF c = Quote THEN "code" ELSE IF c = Backslash THEN "escape" ELSE "string"
                   ELSE AtQuote(c)) = Lexed(next.at)
      BY <1>4, <1>5, <2>2 DEF at
    <3> QED BY <2>1, <2>2, <2>3, <3>1 DEF At
  <2>5. Run(Uncommented, Uncommenter, <<c>>, y, At(e, Lexed(next.at)))
    <3>1. At(e, Lexed(next.at)) \in Uncommented
      BY <1>4, <2>1, AtType
    <3> QED BY <2>2, <2>4, <3>1, RunCharacter
  <2>6. Run(Uncommented, Uncommenter, b \o <<c>>, x, At(e, Lexed(next.at)))
    <3>1. Run(Uncommented, Uncommenter, b, x, y)
      BY <2>0 DEF y
    <3> QED BY <1>1, <2>5, <3>1, RunBoth
  <2> QED BY <2>0, <2>6 DEF e
<1> QED BY <1>1, <1>2 DEF Reads

(* A document reads as itself.                                             *)
LEMMA DocumentReads ==
  ASSUME NEW d, LooseDocument(d)
  PROVE  \E at : Reads(d, d, at)
<1> DEFINE L == Len(d)
           part(n) == SubSeq(d, 1, n)
<1>1. PICK f : LooseScan(d, f)
  BY LooseByScan DEF LooseDocument
<1>2. /\ d \in Text /\ L \in Nat \ {0} /\ d[1] \in Openers
      /\ \A i \in 0..L : f[i] \in Lexes /\ f[i].at # "bad"
      /\ f[0] = Start /\ \A i \in 1..L : f[i] = Loose(f[i - 1], d[i]) /\ d[i] \in Letter
  <2>1. d \in Text
    BY DEF LooseDocument
  <2> QED BY <1>1, <2>1, ReadOf, ElementOfSeq DEF LooseScan, Text
<1> DEFINE K == {n \in 0..(L - 1) : Reads(part(n + 1), part(n + 1), f[n + 1].at)}
<1>3. 0 \in K
  <2>1. 1 \in 1..L /\ 0 + 1 = 1 /\ 1 - 1 = 0 /\ 0 \in 0..(L - 1) /\ 1 \in 1..(L + 1)
    BY <1>2
  <2>2. part(1) = <<d[1]>>
    <3>1. 1 \in 1..Len(d) /\ d \in Text
      BY <1>2, <2>1
    <3>2. SubSeq(d, 1, 1) = Append(SubSeq(d, 1, 1 - 1), d[1])
      BY <3>1, <2>1, Upto
    <3>3. SubSeq(d, 1, 1 - 1) = <<>>
      BY <3>1, <2>1, NothingRead
    <3>4. Append(<<>>, d[1]) = <<d[1]>>
      OBVIOUS
    <3> QED BY <3>2, <3>3, <3>4
  <2>3. f[1].at = "open"
    <3> DEFINE c == d[1]
    <3>1. f[1] = Loose(Start, c) /\ c \in Openers
      BY <1>2, <2>1
    <3> HIDE DEF c
    <3>2. Start.at = "start" /\ c \notin Blanks /\ c # Quote /\ c # Apostrophe
      BY <3>1 DEF Start, Blanks, Openers, Newline, Quote, Apostrophe
    <3>3. Loose(Start, c) = After(Start, c, Atoms)
      BY <3>2 DEF Loose, Singles
    <3>4. After(Start, c, Atoms) = [owed |-> <<Closing(c)>> \o Start.owed, at |-> "open"]
      BY <3>1, <3>2 DEF After, InQuotes
    <3> QED BY <3>1, <3>3, <3>4
  <2>4. Reads(part(1), part(1), f[1].at)
    BY <1>2, <2>2, <2>3, ReadsFirst
  <2> QED BY <2>1, <2>4
<1>4. ASSUME NEW n \in 0..((L - 1) - 1), n \in K PROVE n + 1 \in K
  <2>1. /\ n + 1 \in 0..(L - 1) /\ (n + 1) + 1 \in 1..L /\ ((n + 1) + 1) - 1 = n + 1 /\ n + 1 \in 0..L
        /\ (n + 1) + 1 \in 0..L /\ 1 \in 1..(L + 1) /\ n + 1 \in 1..L
    BY <1>2
  <2> DEFINE m == (n + 1) + 1
  <2>2. part(m) = Append(part(n + 1), d[m]) /\ part(n + 1) \in Text
    <3>1. SubSeq(d, 1, m) = Append(SubSeq(d, 1, m - 1), d[m])
      BY <1>2, <2>1, Upto
    <3>2. part(n + 1) \in Text
      BY <1>4 DEF Reads
    <3> QED BY <2>1, <3>1, <3>2
  <2>3. part(m) = part(n + 1) \o <<d[m]>>
    <3>1. d[m] \in Letter
      BY <1>2, <2>1
    <3> HIDE DEF part, m
    <3> QED BY <2>2, <3>1, ConcatAppend
  <2>4. f[m] = Loose(f[n + 1], d[m]) /\ f[n + 1] \in Lexes /\ f[m].at # "bad" /\ d[m] \in Letter
    BY <1>2, <2>1
  <2>5. Reads(part(n + 1), part(n + 1), f[n + 1].at)
    BY <1>4
  <2> HIDE DEF part, m
  <2>6. Reads(part(m), part(m), f[m].at)
    BY <2>3, <2>4, <2>5, ReadsCharacter
  <2> QED BY <2>1, <2>6 DEF m
<1>5. \A n \in 0..(L - 1) : n \in K
  <2>1. L - 1 \in Nat
    BY <1>2
  <2> HIDE DEF K, L
  <2> QED BY <1>3, <1>4, <2>1, BoundedInduction
<1>6. L - 1 \in 0..(L - 1) /\ (L - 1) + 1 = L
  BY <1>2
<1>7. part(L) = d
  BY <1>2, Whole
<1>8. L - 1 \in K
  <2> HIDE DEF K
  <2> QED BY <1>5, <1>6
<1> QED BY <1>6, <1>7, <1>8

(* What the scanner has left of a text it only adds to.                    *)
LEMMA Extending ==
  ASSUME NEW y \in Uncommented, NEW v \in Text
  PROVE  \E z \in Uncommented : Run(Uncommented, Uncommenter, v, y, z) /\ Extends(y.out, z.out)
<1> DEFINE J == {x \in Uncommented : Extends(y.out, x.out)}
<1>1. y \in J
  <2>1. y.out \in Text
    BY DEF Uncommented
  <2> QED BY <2>1, ExtendsItself
<1>2. ASSUME NEW x \in J, NEW c \in Letter PROVE Uncommenter[<<x, c>>] \in J
  <2>1. Uncomment(x, c) \in Uncommented /\ Extends(x.out, Uncomment(x, c).out)
    BY UncommentType
  <2>2. Extends(y.out, Uncomment(x, c).out)
    BY <2>1, ExtendsOn
  <2> QED BY <2>1, <2>2 DEF Uncommenter
<1>3. \A i \in 1..Len(v) : v[i] \in Letter
  BY ElementOfSeq DEF Text
<1>4. J \in SUBSET Uncommented
  OBVIOUS
<1>5. PICK z \in J : Run(Uncommented, Uncommenter, v, y, z)
  <2> HIDE DEF J
  <2> QED BY <1>1, <1>2, <1>3, <1>4, RunWithin
<1> QED BY <1>5

(* Where clean text ends a document may begin.                             *)
LEMMA CleanOpens ==
  ASSUME NEW p \in Text, Clean(p)
  PROVE  Opened(Scanned(p)) /\ Run(Uncommented, Uncommenter, p, Unread, Scanned(p))
<1>1. PICK f : CommentScan(p, f)
  BY CommentsByScan
<1>2. /\ f \in [0..Len(p) -> Uncommented] /\ f[0] = Unread /\ Len(p) \in Nat
      /\ f[Len(p)] \in Uncommented /\ Scanned(p) = f[Len(p)]
  BY <1>1 DEF CommentScan, Text, Unread
<1>3. ASSUME NEW i \in 1..Len(p) PROVE f[i] = Uncommenter[<<f[i - 1], p[i]>>]
  <2>1. i - 1 \in 0..Len(p) /\ p[i] \in Letter
    BY <1>2, ElementOfSeq DEF Text
  <2>2. f[i - 1] \in Uncommented /\ f[i] = Uncomment(f[i - 1], p[i])
    BY <1>1, <1>2, <2>1 DEF CommentScan
  <2> QED BY <2>1, <2>2 DEF Uncommenter
<1>4. Run(Uncommented, Uncommenter, p, Unread, Scanned(p))
  BY <1>2, <1>3 DEF Run
<1>5. Scanned(p).out \in Text
  BY <1>2 DEF Uncommented
<1>6. DOMAIN Scanned(p).out = 1..Len(Scanned(p).out)
  BY <1>5, LenProperties DEF Text
<1> QED BY <1>2, <1>4, <1>5, <1>6 DEF Clean, Opened, Lacks

(* What the scanner leaves of a reply: what it leaves of the document is   *)
(* there, and no opener before it.                                         *)
LEMMA DocumentStays ==
  ASSUME NEW p \in Text, Clean(p), NEW b, NEW d, NEW at, Reads(b, d, at), NEW v \in Text
  PROVE  \E o : Lacks(o, Openers) /\ Extends(o \o d, WithoutComments(p \o (b \o v)))
<1> DEFINE u == p \o (b \o v)
           w == WithoutComments(u)
<1>1. b \in Text /\ d \in Text /\ b \o v \in Text /\ u \in Text
  <2>1. b \in Text /\ d \in Text
    BY DEF Reads
  <2> QED BY <2>1, OneAfterAnother
<1>2. Opened(Scanned(p)) /\ Run(Uncommented, Uncommenter, p, Unread, Scanned(p))
  BY CleanOpens
<1>3. PICK o : /\ Lacks(o, Openers)
               /\ Run(Uncommented, Uncommenter, b, Scanned(p), At(o \o d, Lexed(at)))
  BY <1>2 DEF Reads
<1> DEFINE y == At(o \o d, Lexed(at))
<1>4. y \in Uncommented /\ y.out = o \o d
  <2>1. o \o d \in Text
    BY <1>1, <1>3, OneAfterAnother DEF Lacks
  <2>2. Lexed(at) \in {"code", "string", "escape", "slash", "line", "block", "star"}
    BY DEF Lexed
  <2> QED BY <2>1, <2>2, AtType
<1> HIDE DEF y
<1>5. PICK z \in Uncommented : Run(Uncommented, Uncommenter, v, y, z) /\ Extends(y.out, z.out)
  BY <1>4, Extending
<1>6. Run(Uncommented, Uncommenter, u, Unread, z)
  <2>1. Run(Uncommented, Uncommenter, b, Scanned(p), y)
    BY <1>3 DEF y
  <2>2. Run(Uncommented, Uncommenter, b \o v, Scanned(p), z)
    BY <1>1, <1>5, <2>1, RunBoth
  <2> QED BY <1>1, <1>2, <2>2, RunBoth
<1>7. w = IF z.at = "slash" THEN Append(z.out, "/") ELSE z.out
  <2> HIDE DEF u
  <2> QED BY <1>1, <1>6, CommentsAreRun
<1>8. Extends(z.out, w)
  <2>1. z.out \in Text /\ "/" \in Letter
    BY DEF Uncommented, Letter
  <2>2. Extends(z.out, Append(z.out, "/"))
    BY <2>1, AppendExtends DEF Text
  <2> QED BY <1>7, <2>1, <2>2, ExtendsItself
<1>9. Extends(o \o d, w)
  <2> HIDE DEF w
  <2> QED BY <1>4, <1>5, <1>8, ExtendsOn
<1> QED BY <1>3, <1>9

(* _strip_json_comments takes nothing of a document with it, slashes       *)
(* between double quotes included: after text in which no string and no    *)
(* comment is begun and not ended, and no bracket stands, the document is  *)
(* left as it is, and no bracket before it.  A URL in the text begins a    *)
(* comment that takes the document with it, and between apostrophes a      *)
(* slash is not safe (LooseDocument).                                      *)
THEOREM CommentsSpareTheDocument ==
  ASSUME NEW p \in Text, Clean(p), NEW d, LooseDocument(d), NEW v \in Text
  PROVE  \E o : Lacks(o, Openers) /\ Extends(o \o d, WithoutComments(p \o (d \o v)))
<1>1. PICK at : Reads(d, d, at)
  BY DocumentReads
<1> QED BY <1>1, DocumentStays

(* So the document is extracted.                                           *)
LEMMA ReadsTheDocument ==
  ASSUME NEW p \in Text, Clean(p), NEW b, NEW d, NEW at, Reads(b, d, at), LooseDocument(d),
         NEW v \in Text
  PROVE  Balanced(Trim(WithoutComments(p \o (b \o v)))) = d
<1> DEFINE u == p \o (b \o v)
           w == WithoutComments(u)
<1>1. PICK o : Lacks(o, Openers) /\ Extends(o \o d, w)
  BY DocumentStays
<1>2. b \in Text /\ d \in Text /\ o \in Text /\ u \in Text
  <2>1. b \in Text /\ d \in Text /\ o \in Text
    BY <1>1 DEF Reads, Lacks
  <2>2. b \o v \in Text
    BY <2>1, OneAfterAnother
  <2> QED BY <2>1, <2>2, OneAfterAnother
<1>3. w \in Text
  <2> HIDE DEF u
  <2>1. PICK f : CommentScan(u, f)
    BY <1>2, CommentsByScan
  <2>2. f[Len(u)] \in Uncommented /\ f[Len(u)].out \in Text /\ "/" \in Letter
    <3>1. Len(u) \in 0..Len(u)
      BY <1>2 DEF Text
    <3>2. f[Len(u)] \in Uncommented
      BY <2>1, <3>1 DEF CommentScan
    <3> QED BY <3>2 DEF Uncommented, Letter
  <2>3. Append(f[Len(u)].out, "/") \in Text
    BY <2>2, ConcatAppend
  <2> QED BY <2>1, <2>2, <2>3 DEF CommentScan
<1> HIDE DEF w
<1>6. Finds(w, Len(o), d)
  <2> DEFINE od == o \o d
             a == Len(o)
             k == Len(d)
  <2>1. /\ a \in Nat /\ k \in Nat /\ Len(od) = a + k
        /\ \A i \in 1..a : od[i] = o[i]
        /\ \A i \in 1..k : od[a + i] = d[i]
    BY <1>2, OneAfterAnother
  <2>2. Len(od) <= Len(w) /\ \A i \in 1..Len(od) : w[i] = od[i]
    BY <1>1 DEF Extends
  <2>3. \A i \in 1..a : o[i] \notin Openers
    BY <1>1 DEF Lacks
  <2> HIDE DEF od, a, k
  <2>4. a + k <= Len(w)
    BY <2>1, <2>2
  <2>5. \A i \in 1..k : w[a + i] = d[i]
    BY <2>1, <2>2
  <2>6. \A i \in 1..a : w[i] \notin Openers
    BY <2>1, <2>2, <2>3
  <2> QED BY <1>3, <2>1, <2>4, <2>5, <2>6 DEF Finds, a, k
<1>7. PICK k : Finds(Trim(w), k, d)
  BY <1>6, TrimFinds
<1> QED BY <1>7, Extracted DEF w

(* _extract_balanced_json: the first bracket of a text decides.  If a      *)
(* document begins with it, that one is extracted, to its end, brackets in *)
(* its strings included (between double quotes: LooseDocument), and        *)
(* nothing of what follows, another document either: of `[1] {"a": 1}` the *)
(* list is.                                                                *)
THEOREM FirstDocumentIsExtracted ==
  ASSUME NEW p, Lacks(p, Openers), NEW d, LooseDocument(d), NEW v \in Text
  PROVE  Balanced(p \o (d \o v)) = d
<1> DEFINE w == d \o v
           s == p \o w
           k == Len(d)
           a == Len(p)
<1>1. p \in Text /\ d \in Text
  BY DEF Lacks, LooseDocument
<1>2. /\ w \in Text /\ Len(w) = k + Len(v) /\ k \in Nat /\ Len(v) \in Nat
      /\ \A i \in 1..k : w[i] = d[i]
  BY <1>1, OneAfterAnother
<1> HIDE DEF w
<1>3. /\ s \in Text /\ Len(s) = a + Len(w) /\ a \in Nat
      /\ \A i \in 1..a : s[i] = p[i]
      /\ \A i \in 1..Len(w) : s[a + i] = w[i]
  BY <1>1, <1>2, OneAfterAnother
<1>4. \A i \in 1..a : p[i] \notin Openers
  BY DEF Lacks
<1> HIDE DEF s, a, k
<1>5. a + k <= Len(s) /\ \A i \in 1..k : i \in 1..Len(w)
  BY <1>2, <1>3
<1>6. (\A i \in 1..k : s[a + i] = d[i]) /\ \A i \in 1..a : s[i] \notin Openers
  BY <1>2, <1>3, <1>4, <1>5
<1>7. Finds(s, a, d)
  BY <1>2, <1>3, <1>5, <1>6 DEF Finds, k
<1> QED BY <1>7, Extracted DEF s, w

-----------------------------------------------------------------------------
(* The reply without its thoughts: what its first two fences enclose.      *)

Mark == <<"fence">>

LEMMA MarkType ==
  Mark \in Text /\ "fence" \in Letter
BY OneMark DEF Mark, Letter

LEMMA OneFence ==
  ASSUME NEW s \in Text, NEW i \in 1..Len(s), \A k \in 1..Len(s) : s[k] = "fence" <=> k = i
  PROVE  Unfenced(s) = s
<1> DEFINE fences == {k \in DOMAIN s : s[k] = "fence"}
<1>1. Len(s) \in Nat /\ DOMAIN s = 1..Len(s)
  BY DEF Text
<1>2. fences = {i}
  BY <1>1
<1>3. Min(fences) = i
  <2>1. fences \in SUBSET (0..Len(s)) /\ fences # {}
    BY <1>1, <1>2
  <2> HIDE DEF fences
  <2>2. Min(fences) \in fences
    BY <1>1, <2>1, LeastAndMost
  <2> QED BY <1>2, <2>2
<1>4. fences \ {Min(fences)} = {}
  BY <1>2, <1>3
<1> QED BY <1>4 DEF Unfenced

(* A text is what is before a character, the character, what is after it.  *)
LEMMA Split ==
  ASSUME NEW s \in Text, NEW i \in 1..Len(s)
  PROVE  LET p == SubSeq(s, 1, i - 1)
             q == SubSeq(s, i + 1, Len(s))
         IN  /\ p \in Text /\ q \in Text
             /\ s = p \o (<<s[i]>> \o q)
             /\ \A k \in 1..Len(p) : k < i /\ k \in 1..Len(s) /\ p[k] = s[k]
             /\ \A k \in 1..Len(q) : i + k \in 1..Len(s) /\ q[k] = s[i + k]
<1> DEFINE p == SubSeq(s, 1, i - 1)
           q == SubSeq(s, i + 1, Len(s))
           x == <<s[i]>> \o q
<1>1. Len(s) \in Nat /\ \A k \in 1..Len(s) : s[k] \in Letter
  BY ElementOfSeq DEF Text
<1>2. /\ p \in Text /\ Len(p) = i - 1
      /\ \A k \in 1..(i - 1) : p[k] = s[k]
  <2>1. 1 \in Int /\ i - 1 \in Int /\ \A k \in 1..(i - 1) : s[k] \in Letter
    BY <1>1
  <2>2. /\ p \in Seq(Letter)
        /\ Len(p) = IF 1 <= i - 1 THEN (i - 1) - 1 + 1 ELSE 0
        /\ \A k \in 1..(i - 1) - 1 + 1 : p[k] = s[1 + k - 1]
    BY <2>1, SubSeqProperties
  <2>3. (i - 1) - 1 + 1 = i - 1 /\ (~(1 <= i - 1) => i - 1 = 0)
        /\ \A k \in 1..(i - 1) : 1 + k - 1 = k
    BY <1>1
  <2> HIDE DEF p
  <2> QED BY <2>2, <2>3 DEF Text
<1>3. /\ q \in Text /\ Len(q) = Len(s) - i
      /\ \A k \in 1..(Len(s) - i) : q[k] = s[i + k]
  <2>1. i + 1 \in Int /\ Len(s) \in Int /\ \A k \in (i + 1)..Len(s) : s[k] \in Letter
    BY <1>1
  <2>2. /\ q \in Seq(Letter)
        /\ Len(q) = IF i + 1 <= Len(s) THEN Len(s) - (i + 1) + 1 ELSE 0
        /\ \A k \in 1..Len(s) - (i + 1) + 1 : q[k] = s[(i + 1) + k - 1]
    BY <2>1, SubSeqProperties
  <2>3. Len(s) - (i + 1) + 1 = Len(s) - i /\ (~(i + 1 <= Len(s)) => Len(s) - i = 0)
        /\ \A k \in 1..(Len(s) - i) : (i + 1) + k - 1 = i + k
    BY <1>1
  <2> HIDE DEF q
  <2> QED BY <2>2, <2>3 DEF Text
<1>4. /\ x \in Text /\ Len(x) = 1 + Len(q) /\ x[1] = s[i]
      /\ \A k \in 1..Len(q) : x[1 + k] = q[k]
  <2> HIDE DEF q
  <2>1. <<s[i]>> \in Text /\ Len(<<s[i]>>) = 1 /\ <<s[i]>>[1] = s[i]
    BY <1>1, OneMark
  <2>2. 1 \in 1..1
    OBVIOUS
  <2> QED BY <1>3, <2>1, <2>2, OneAfterAnother
<1> HIDE DEF p, q, x
<1>5. /\ p \o x \in Text /\ Len(p \o x) = Len(s)
      /\ \A k \in 1..(i - 1) : (p \o x)[k] = p[k]
      /\ \A k \in 1..Len(x) : (p \o x)[(i - 1) + k] = x[k]
  <2>1. /\ p \o x \in Text /\ Len(p \o x) = Len(p) + Len(x)
        /\ \A k \in 1..Len(p) : (p \o x)[k] = p[k]
        /\ \A k \in 1..Len(x) : (p \o x)[Len(p) + k] = x[k]
    BY <1>2, <1>4, OneAfterAnother
  <2>2. (i - 1) + (1 + (Len(s) - i)) = Len(s)
    BY <1>1
  <2> QED BY <1>2, <1>3, <1>4, <2>1, <2>2
<1>6. ASSUME NEW k \in 1..Len(s) PROVE (p \o x)[k] = s[k]
  <2>1. CASE k < i
    <3>1. k \in 1..(i - 1)
      BY <1>1, <2>1
    <3> QED BY <1>2, <1>5, <3>1
  <2>2. CASE k = i
    <3>1. 1 \in 1..Len(x) /\ (i - 1) + 1 = k
      BY <1>1, <1>3, <1>4, <2>2
    <3> QED BY <1>4, <1>5, <2>2, <3>1
  <2>3. CASE k > i
    <3> DEFINE j == k - i
    <3>1. j \in 1..(Len(s) - i) /\ 1 + j \in 1..Len(x)
          /\ (i - 1) + (1 + j) = k /\ i + j = k
      BY <1>1, <1>3, <1>4, <2>3
    <3> HIDE DEF j
    <3>2. (p \o x)[k] = x[1 + j]
      BY <1>5, <3>1
    <3>3. x[1 + j] = q[j] /\ q[j] = s[i + j]
      BY <1>3, <1>4, <3>1
    <3> QED BY <3>1, <3>2, <3>3
  <2>4. k < i \/ k = i \/ k > i
    BY <1>1
  <2> QED BY <2>1, <2>2, <2>3, <2>4
<1>7. s = p \o x
  <2> DEFINE a == p \o x
  <2>1. a \in Text /\ Len(a) = Len(s) /\ \A k \in 1..Len(a) : a[k] = s[k]
    BY <1>5, <1>6
  <2> HIDE DEF a
  <2>2. a = s
    BY <2>1, Alike
  <2> QED BY <2>2 DEF a
<1>8. /\ \A k \in 1..Len(p) : k < i /\ k \in 1..Len(s) /\ p[k] = s[k]
      /\ \A k \in 1..Len(q) : i + k \in 1..Len(s) /\ q[k] = s[i + k]
  BY <1>1, <1>2, <1>3
<1> QED BY <1>2, <1>3, <1>7, <1>8 DEF p, q, x

(* Named, so that the provers find the instance they need.                 *)
Regroups(p, m, q, r) == (p \o (m \o q)) \o r = p \o (m \o (q \o r))

LEMMA RegroupFour ==
  ASSUME NEW p \in Text, NEW m \in Text, NEW q \in Text, NEW r \in Text
  PROVE  Regroups(p, m, q, r)
<1>1. PICK y \in Text : y = m \o q
  BY OneAfterAnother
<1>2. (p \o y) \o r = p \o (y \o r)
  BY Associate, Zenon
<1>3. (m \o q) \o r = m \o (q \o r)
  BY Associate, Zenon
<1> QED BY <1>1, <1>2, <1>3 DEF Regroups

LEMMA OneOrNone ==
  ASSUME NEW s \in Text
  PROVE  /\ IsFiniteSet(Fences(s)) /\ Cardinality(Fences(s)) \in Nat
         /\ DOMAIN s = 1..Len(s)
         /\ Cardinality(Fences(s)) = 0 => Fences(s) = {}
         /\ Cardinality(Fences(s)) = 1 => \E i \in 1..Len(s) : Fences(s) = {i}
<1>1. Len(s) \in Nat /\ DOMAIN s = 1..Len(s)
  BY DEF Text
<1>2. Fences(s) \in SUBSET (1..Len(s)) /\ IsFiniteSet(1..Len(s))
  BY <1>1, FS_Interval DEF Fences
<1>3. IsFiniteSet(Fences(s))
  BY <1>2, FS_Subset
<1>4. Cardinality(Fences(s)) = 1 => \E i : Fences(s) = {i}
  BY <1>3, FS_Singleton
<1> QED BY <1>1, <1>2, <1>3, <1>4, FS_EmptySet, FS_CardinalityType

(* Between harmless prose, the document is what the fences enclose, or all *)
(* of it is left, and what is before it there is clean.                    *)
LEMMA HarmlessProse ==
  ASSUME lead \in Text, tail \in Text, Harmless, NEW b, Lacks(b, {"fence"})
  PROVE  \E p \in Text, v \in Text :
           Clean(p) /\ Unfenced(lead \o (b \o tail)) = p \o (b \o v)
<1> DEFINE told == lead \o (b \o tail)
           m == Len(lead)
           n == Len(b)
<1>1. b \in Text /\ \A k \in 1..Len(b) : b[k] # "fence"
  BY DEF Lacks
<1>2. /\ IsFiniteSet(Fences(lead)) /\ Cardinality(Fences(lead)) \in Nat
      /\ DOMAIN lead = 1..Len(lead)
      /\ Cardinality(Fences(lead)) = 0 => Fences(lead) = {}
      /\ Cardinality(Fences(lead)) = 1 => \E i \in 1..Len(lead) : Fences(lead) = {i}
  BY OneOrNone
<1>3. /\ IsFiniteSet(Fences(tail)) /\ Cardinality(Fences(tail)) \in Nat
      /\ DOMAIN tail = 1..Len(tail)
      /\ Cardinality(Fences(tail)) = 0 => Fences(tail) = {}
      /\ Cardinality(Fences(tail)) = 1 => \E i \in 1..Len(tail) : Fences(tail) = {i}
  BY OneOrNone
<1>4. CASE Cardinality(Fences(lead)) + Cardinality(Fences(tail)) <= 1 /\ Clean(lead)
  <2>1. /\ told \in Text /\ Len(told) = m + (n + Len(tail)) /\ m \in Nat /\ n \in Nat /\ Len(tail) \in Nat
        /\ \A k \in 1..m : told[k] = lead[k]
        /\ \A k \in 1..n : told[m + k] = b[k]
        /\ \A k \in 1..Len(tail) : told[m + (n + k)] = tail[k]
    <3>1. /\ b \o tail \in Text /\ Len(b \o tail) = Len(b) + Len(tail) /\ Len(b) \in Nat /\ Len(tail) \in Nat
          /\ \A k \in 1..Len(b) : (b \o tail)[k] = b[k]
          /\ \A k \in 1..Len(tail) : (b \o tail)[Len(b) + k] = tail[k]
      BY <1>1, OneAfterAnother
    <3> DEFINE bu == b \o tail
    <3> HIDE DEF bu
    <3>2. /\ lead \o bu \in Text /\ Len(lead \o bu) = Len(lead) + Len(bu) /\ Len(lead) \in Nat
          /\ \A k \in 1..Len(lead) : (lead \o bu)[k] = lead[k]
          /\ \A k \in 1..Len(bu) : (lead \o bu)[Len(lead) + k] = bu[k]
      BY <3>1, OneAfterAnother DEF bu
    <3>3. /\ \A k \in 1..Len(b) : k \in 1..Len(bu)
          /\ \A k \in 1..Len(tail) : Len(b) + k \in 1..Len(bu)
      BY <3>1 DEF bu
    <3> QED BY <3>1, <3>2, <3>3 DEF bu
  <2> HIDE DEF told, m, n
  <2>2. ASSUME NEW k \in 1..Len(told), told[k] = "fence"
        PROVE  \/ k \in Fences(lead)
               \/ k - (m + n) \in Fences(tail) /\ k = m + (n + (k - (m + n)))
    <3>1. CASE k <= m
      BY <1>2, <2>1, <2>2, <3>1 DEF Fences, m
    <3>2. CASE m < k /\ k <= m + n
      <4>1. k - m \in 1..n /\ m + (k - m) = k
        BY <2>1, <3>2
      <4> QED BY <1>1, <2>1, <2>2, <4>1 DEF n
    <3>3. CASE m + n < k
      <4>1. k - (m + n) \in 1..Len(tail) /\ m + (n + (k - (m + n))) = k
        BY <2>1, <3>3
      <4> QED BY <1>3, <2>1, <2>2, <4>1 DEF Fences
    <3> QED BY <2>1, <3>1, <3>2, <3>3
  <2>3. Unfenced(told) = told
    <3>1. CASE Fences(lead) = {} /\ Fences(tail) = {}
      <4>1. \A k \in 1..Len(told) : told[k] # "fence"
        BY <2>2, <3>1
      <4> QED BY <2>1, <4>1, FirstFences
    <3>2. CASE Fences(tail) = {} /\ \E i \in 1..Len(lead) : Fences(lead) = {i}
      <4>1. PICK i \in 1..m : Fences(lead) = {i}
        BY <3>2 DEF m
      <4>2. i \in 1..Len(told) /\ told[i] = "fence"
        BY <2>1, <4>1 DEF Fences
      <4>3. \A k \in 1..Len(told) : told[k] = "fence" <=> k = i
        BY <2>2, <3>2, <4>1, <4>2
      <4> QED BY <2>1, <4>2, <4>3, OneFence
    <3>3. CASE Fences(lead) = {} /\ \E i \in 1..Len(tail) : Fences(tail) = {i}
      <4>1. PICK j \in 1..Len(tail) : Fences(tail) = {j}
        BY <3>3
      <4> DEFINE i == m + (n + j)
      <4>2. i \in 1..Len(told) /\ told[i] = "fence"
        BY <2>1, <4>1 DEF Fences
      <4>3. \A k \in 1..Len(told) : told[k] = "fence" <=> k = i
        BY <2>2, <3>3, <4>1, <4>2
      <4> HIDE DEF i
      <4> QED BY <2>1, <4>2, <4>3, OneFence
    <3> DEFINE cl == Cardinality(Fences(lead))
               ct == Cardinality(Fences(tail))
    <3>4. (cl = 0 /\ ct = 0) \/ (cl = 1 /\ ct = 0) \/ (cl = 0 /\ ct = 1)
      <4>1. cl \in Nat /\ ct \in Nat /\ cl + ct <= 1
        BY <1>2, <1>3, <1>4
      <4> HIDE DEF cl, ct
      <4> QED BY <4>1
    <3> QED BY <1>2, <1>3, <3>1, <3>2, <3>3, <3>4
  <2> QED BY <1>4, <2>3 DEF told
<1>5. CASE /\ Cardinality(Fences(lead)) = 1 /\ Fences(tail) # {}
           /\ Clean(SubSeq(lead, Max(Fences(lead)) + 1, Len(lead)))
  <2>1. PICK i \in 1..Len(lead) : Fences(lead) = {i}
    BY <1>2, <1>5
  <2> DEFINE j == Min(Fences(tail))
             p == SubSeq(lead, 1, i - 1)
             q == SubSeq(lead, i + 1, Len(lead))
             v == SubSeq(tail, 1, j - 1)
             w == SubSeq(tail, j + 1, Len(tail))
  <2>2. Max(Fences(lead)) = i /\ lead[i] = "fence"
    <3>1. Len(lead) \in Nat /\ Fences(lead) \in SUBSET (0..Len(lead)) /\ Fences(lead) # {}
      BY <2>1 DEF Text
    <3>2. Max(Fences(lead)) \in Fences(lead)
      BY <3>1, LeastAndMost
    <3> QED BY <2>1, <3>2 DEF Fences
  <2>3. j \in 1..Len(tail) /\ tail[j] = "fence" /\ \A k \in 1..Len(tail) : k < j => tail[k] # "fence"
    <3>1. Len(tail) \in Nat /\ Fences(tail) \in SUBSET (0..Len(tail))
      BY <1>3 DEF Text, Fences
    <3>2. j \in Fences(tail) /\ \A k \in Fences(tail) : j <= k
      BY <1>5, <3>1, LeastAndMost
    <3> HIDE DEF j
    <3> QED BY <1>3, <3>1, <3>2 DEF Fences
  <2> HIDE DEF j
  <2>4. /\ p \in Text /\ q \in Text /\ lead = p \o (Mark \o q)
        /\ Lacks(p, {"fence"}) /\ Lacks(q, {"fence"})
    <3>1. /\ p \in Text /\ q \in Text /\ lead = p \o (<<lead[i]>> \o q)
          /\ \A k \in 1..Len(p) : k < i /\ k \in 1..Len(lead) /\ p[k] = lead[k]
          /\ \A k \in 1..Len(q) : i + k \in 1..Len(lead) /\ q[k] = lead[i + k]
      BY Split
    <3>2. \A k \in 1..Len(lead) : k # i => lead[k] # "fence"
      BY <1>2, <2>1 DEF Fences
    <3>3. Len(q) \in Nat /\ \A k \in 1..Len(q) : i + k # i
      BY <3>1 DEF Text
    <3> HIDE DEF p, q
    <3> QED BY <2>2, <3>1, <3>2, <3>3 DEF Lacks, Mark
  <2>5. /\ v \in Text /\ w \in Text /\ tail = v \o (Mark \o w) /\ Lacks(v, {"fence"})
    <3>1. /\ v \in Text /\ w \in Text /\ tail = v \o (<<tail[j]>> \o w)
          /\ \A k \in 1..Len(v) : k < j /\ k \in 1..Len(tail) /\ v[k] = tail[k]
      BY <2>3, Split
    <3> HIDE DEF v, w
    <3> QED BY <2>3, <3>1 DEF Lacks, Mark
  <2>6. Clean(q)
    BY <1>5, <2>2
  <2> HIDE DEF p, q, v, w
  <2> DEFINE x == q \o (b \o v)
  <2>7. Lacks(x, {"fence"}) /\ x \in Text
    <3>1. Lacks(b \o v, {"fence"})
      BY <2>5, LacksBoth
    <3>2. Lacks(x, {"fence"})
      BY <2>4, <3>1, LacksBoth
    <3> QED BY <3>2 DEF Lacks
  <2>8. told = p \o (Mark \o (x \o (Mark \o w)))
    <3> DEFINE mw == Mark \o w
    <3>1. mw \in Text /\ Mark \in Text
      BY <2>5, MarkType, OneAfterAnother
    <3>2. told = (p \o (Mark \o q)) \o (b \o (v \o mw))
      BY <2>4, <2>5
    <3> HIDE DEF mw, told, x
    <3>3. Regroups(p, Mark, q, b \o (v \o mw)) /\ Regroups(q, b, v, mw)
      <4>1. p \in Text /\ q \in Text /\ b \in Text /\ v \in Text
        BY <1>1, <2>4, <2>5
      <4>2. v \o mw \in Text
        BY <3>1, <4>1, OneAfterAnother
      <4>3. b \o (v \o mw) \in Text
        BY <4>1, <4>2, OneAfterAnother
      <4> QED BY <3>1, <4>1, <4>3, RegroupFour
    <3> QED BY <3>2, <3>3 DEF x, mw, Regroups
  <2> HIDE DEF x
  <2> HIDE DEF told
  <2>9. Unfenced(told) = x
    BY <2>4, <2>5, <2>7, <2>8, FencedIsFound DEF Mark
  <2> QED BY <2>4, <2>5, <2>6, <2>9 DEF x, told
<1> QED BY <1>4, <1>5 DEF Harmless

-----------------------------------------------------------------------------
(* Trailing commas, character by character.                                *)

LEMMA OneMore ==
  ASSUME NEW s \in Text, NEW c \in Letter
  PROVE  /\ s \o <<c>> \in Text /\ Len(s \o <<c>>) = Len(s) + 1 /\ Len(s) \in Nat
         /\ (s \o <<c>>)[Len(s) + 1] = c
         /\ \A i \in 1..Len(s) : (s \o <<c>>)[i] = s[i]
<1>1. <<c>> \in Text /\ Len(<<c>>) = 1 /\ <<c>>[1] = c
  BY OneMark
<1>2. /\ s \o <<c>> \in Text /\ Len(s \o <<c>>) = Len(s) + Len(<<c>>) /\ Len(s) \in Nat
      /\ \A i \in 1..Len(s) : (s \o <<c>>)[i] = s[i]
      /\ \A i \in 1..Len(<<c>>) : (s \o <<c>>)[Len(s) + i] = <<c>>[i]
  BY <1>1, OneAfterAnother
<1> QED BY <1>1, <1>2

(* d is s without the positions of K.                                      *)
Drops(s, K, d) ==
  /\ s \in Text /\ d \in Text /\ K \subseteq 1..Len(s)
  /\ \E g : /\ g \in [0..Len(s) -> Text]
            /\ g[0] = <<>>
            /\ \A i \in 1..Len(s) :
                 g[i] = IF i \in K THEN g[i - 1] ELSE Append(g[i - 1], s[i])
            /\ g[Len(s)] = d

LEMMA DropsNothing ==
  Drops(<<>>, {}, <<>>)
<1> DEFINE g == [i \in 0..0 |-> <<>>]
<1>1. <<>> \in Text /\ Len(<<>>) = 0
  BY ConcatText DEF Text
<1>2. g \in [0..0 -> Text] /\ g[0] = <<>> /\ 1..0 = {}
  BY <1>1
<1> HIDE DEF g
<1> QED BY <1>1, <1>2 DEF Drops

LEMMA DropsOn ==
  ASSUME NEW s, NEW K, NEW d, Drops(s, K, d), NEW c \in Letter
  PROVE  /\ Drops(s \o <<c>>, K, d \o <<c>>)
         /\ Drops(s \o <<c>>, K \cup {Len(s) + 1}, d)
<1> DEFINE L == Len(s)
           t == s \o <<c>>
<1>1. /\ s \in Text /\ d \in Text /\ K \subseteq 1..L
  BY DEF Drops
<1>2. PICK g : /\ g \in [0..L -> Text]
               /\ g[0] = <<>>
               /\ \A i \in 1..L : g[i] = IF i \in K THEN g[i - 1] ELSE Append(g[i - 1], s[i])
               /\ g[L] = d
  BY DEF Drops
<1>3. /\ t \in Text /\ Len(t) = L + 1 /\ L \in Nat /\ t[L + 1] = c
      /\ \A i \in 1..L : t[i] = s[i]
  BY <1>1, OneMore
<1>4. d \o <<c>> \in Text /\ Append(d, c) = d \o <<c>>
  BY <1>1, ConcatAppend
<1> HIDE DEF t, L
<1>5. ASSUME NEW D \in Text, NEW M, M \subseteq 1..(L + 1), M \cap (1..L) = K,
             D = IF L + 1 \in M THEN d ELSE Append(d, c)
      PROVE  Drops(t, M, D)
  <2> DEFINE h == [i \in 0..(L + 1) |-> IF i = L + 1 THEN D ELSE g[i]]
  <2>1. \A i \in 0..L : h[i] = g[i]
    BY <1>3
  <2>2. h \in [0..(L + 1) -> Text] /\ h[L + 1] = D
    BY <1>2, <1>3
  <2> HIDE DEF h
  <2>3. h[0] = <<>>
    BY <1>2, <1>3, <2>1
  <2>4. ASSUME NEW i \in 1..(L + 1)
        PROVE  h[i] = IF i \in M THEN h[i - 1] ELSE Append(h[i - 1], t[i])
    <3>1. CASE i = L + 1
      <4>1. i - 1 = L /\ L \in 0..L
        BY <1>3, <3>1
      <4> QED BY <1>2, <1>3, <1>5, <2>1, <2>2, <3>1, <4>1
    <3>2. CASE i # L + 1
      <4>1. i \in 1..L /\ i \in 0..L /\ i - 1 \in 0..L /\ (i \in M <=> i \in K)
        BY <1>3, <1>5, <3>2
      <4> QED BY <1>2, <1>3, <2>1, <4>1
    <3> QED BY <3>1, <3>2
  <2> QED BY <1>3, <1>5, <2>2, <2>3, <2>4 DEF Drops
<1>6. /\ K \subseteq 1..(L + 1) /\ K \cap (1..L) = K /\ L + 1 \notin K
      /\ K \cup {L + 1} \subseteq 1..(L + 1) /\ (K \cup {L + 1}) \cap (1..L) = K
  <2>1. K \subseteq 1..L /\ 1..L \subseteq 1..(L + 1) /\ L + 1 \notin 1..L /\ L + 1 \in 1..(L + 1)
    BY <1>1, <1>3
  <2> QED BY <2>1
<1>7. Drops(t, K, d \o <<c>>)
  BY <1>4, <1>5, <1>6
<1>8. Drops(t, K \cup {L + 1}, d)
  BY <1>1, <1>5, <1>6
<1> QED BY <1>7, <1>8 DEF t, L

LEMMA DropsTrailing ==
  ASSUME NEW s, NEW K, NEW d, Drops(s, K, d),
         \A i \in 1..Len(s) : i \in K <=> Trailing(s, i)
  PROVE  WithoutTrailingCommas(s) = d
<1> DEFINE L == Len(s)
           kept == CHOOSE f : f = [i \in 0..L |->
                     IF i = 0 THEN <<>>
                     ELSE IF Trailing(s, i) THEN f[i - 1] ELSE Append(f[i - 1], s[i])]
<1>1. s \in Text /\ L \in Nat
  BY DEF Drops, Text
<1>2. PICK g : /\ g \in [0..L -> Text]
               /\ g[0] = <<>>
               /\ \A i \in 1..L : g[i] = IF i \in K THEN g[i - 1] ELSE Append(g[i - 1], s[i])
               /\ g[L] = d
  BY DEF Drops
<1>3. g = [i \in 0..L |->
             IF i = 0 THEN <<>>
             ELSE IF Trailing(s, i) THEN g[i - 1] ELSE Append(g[i - 1], s[i])]
  <2>1. ASSUME NEW i \in 0..L
        PROVE  g[i] = IF i = 0 THEN <<>>
                      ELSE IF Trailing(s, i) THEN g[i - 1] ELSE Append(g[i - 1], s[i])
    <3>1. CASE i = 0
      BY <1>2, <3>1
    <3>2. CASE i # 0
      <4>1. i \in 1..L /\ (i \in K <=> Trailing(s, i))
        BY <1>1, <3>2
      <4> QED BY <1>2, <3>2, <4>1
    <3> QED BY <3>1, <3>2
  <2> HIDE DEF L
  <2> QED BY <1>2, <2>1
<1>4. kept = [i \in 0..L |->
                IF i = 0 THEN <<>>
                ELSE IF Trailing(s, i) THEN kept[i - 1] ELSE Append(kept[i - 1], s[i])]
  BY <1>3
<1>5. WithoutTrailingCommas(s) = kept[L]
  BY DEF WithoutTrailingCommas
<1> DEFINE J == {n \in 0..L : kept[n] = g[n]}
<1> HIDE DEF kept
<1>6. 0 \in J
  BY <1>1, <1>2, <1>4
<1>7. ASSUME NEW n \in 0..(L - 1), n \in J PROVE n + 1 \in J
  <2>1. n + 1 \in 1..L /\ n + 1 \in 0..L /\ (n + 1) - 1 = n /\ n + 1 # 0
    BY <1>1
  <2>2. kept[n + 1] = IF Trailing(s, n + 1) THEN kept[n] ELSE Append(kept[n], s[n + 1])
    BY <1>4, <2>1
  <2>3. g[n + 1] = IF Trailing(s, n + 1) THEN g[n] ELSE Append(g[n], s[n + 1])
    BY <1>3, <2>1
  <2> QED BY <1>7, <2>1, <2>2, <2>3
<1>8. \A n \in 0..L : n \in J
  <2> HIDE DEF J, L
  <2> QED BY <1>1, <1>6, <1>7, BoundedInduction
<1>9. kept[L] = g[L]
  BY <1>1, <1>8
<1> QED BY <1>2, <1>5, <1>9

(* Only blanks after it.                                                   *)
Blank(s, i) == \A k \in (i + 1)..Len(s) : s[k] \in Blanks

LEMMA TrailingOn ==
  ASSUME NEW s \in Text, NEW c \in Letter
  PROVE  LET t == s \o <<c>>
         IN  /\ \A i \in 1..Len(s) :
                  /\ Blank(t, i) <=> Blank(s, i) /\ c \in Blanks
                  /\ Trailing(t, i) <=>
                       \/ Trailing(s, i)
                       \/ s[i] = "," /\ Blank(s, i) /\ c \in Closers
             /\ ~Trailing(t, Len(s) + 1)
<1> DEFINE t == s \o <<c>>
           L == Len(s)
<1>1. /\ t \in Text /\ Len(t) = L + 1 /\ L \in Nat /\ t[L + 1] = c
      /\ \A i \in 1..L : t[i] = s[i]
  BY OneMore
<1> HIDE DEF t, L
<1>2. ASSUME NEW i \in 1..L PROVE Blank(t, i) <=> Blank(s, i) /\ c \in Blanks
  <2>1. (i + 1)..(L + 1) = ((i + 1)..L) \cup {L + 1}
    BY <1>1
  <2>2. \A k \in (i + 1)..L : k \in 1..L /\ t[k] = s[k]
    BY <1>1
  <2> QED BY <1>1, <2>1, <2>2 DEF Blank, L
<1>3. ASSUME NEW i \in 1..L
      PROVE  Trailing(t, i) <=> \/ Trailing(s, i)
                                \/ s[i] = "," /\ Blank(s, i) /\ c \in Closers
  <2>1. t[i] = s[i]
    BY <1>1
  <2>2. ASSUME NEW j \in (i + 1)..L
        PROVE  (t[j] \in Closers /\ \A k \in (i + 1)..(j - 1) : t[k] \in Blanks) <=>
               (s[j] \in Closers /\ \A k \in (i + 1)..(j - 1) : s[k] \in Blanks)
    <3>1. j \in 1..L /\ \A k \in (i + 1)..(j - 1) : k \in 1..L
      BY <1>1
    <3> QED BY <1>1, <3>1
  <2>3. (t[L + 1] \in Closers /\ \A k \in (i + 1)..((L + 1) - 1) : t[k] \in Blanks) <=>
        (c \in Closers /\ Blank(s, i))
    <3>1. (L + 1) - 1 = L /\ \A k \in (i + 1)..L : k \in 1..L /\ t[k] = s[k]
      BY <1>1
    <3> QED BY <1>1, <3>1 DEF Blank, L
  <2>4. (i + 1)..(L + 1) = ((i + 1)..L) \cup {L + 1}
    BY <1>1
  <2> DEFINE P(x, j) == x[j] \in Closers /\ \A k \in (i + 1)..(j - 1) : x[k] \in Blanks
  <2>5. Trailing(t, i) <=> t[i] = "," /\ \E j \in (i + 1)..(L + 1) : P(t, j)
    BY <1>1 DEF Trailing
  <2>6. Trailing(s, i) <=> s[i] = "," /\ \E j \in (i + 1)..L : P(s, j)
    BY DEF Trailing, L
  <2>7. /\ \A j \in (i + 1)..L : P(t, j) <=> P(s, j)
        /\ P(t, L + 1) <=> (c \in Closers /\ Blank(s, i))
    BY <2>2, <2>3
  <2> HIDE DEF P
  <2> QED BY <2>1, <2>4, <2>5, <2>6, <2>7
<1>4. ~Trailing(t, L + 1)
  <2>1. ((L + 1) + 1)..(L + 1) = {}
    BY <1>1
  <2> QED BY <1>1, <2>1 DEF Trailing
<1>5. \A i \in 1..L :
        /\ Blank(t, i) <=> Blank(s, i) /\ c \in Blanks
        /\ Trailing(t, i) <=>
             \/ Trailing(s, i)
             \/ s[i] = "," /\ Blank(s, i) /\ c \in Closers
  BY <1>2, <1>3
<1> QED BY <1>4, <1>5 DEF t, L

(* A comma of the document that is taken for a trailing one.               *)
Lost(d) == \E i \in InStrings(d) : Trailing(d, i)

LEMMA PositionsOn ==
  ASSUME NEW s \in Text, NEW c \in Letter, NEW where
  PROVE  LET t == s \o <<c>>
         IN  /\ \A i \in 1..Len(s) : i \in Positions(t, where) <=> i \in Positions(s, where)
             /\ \A here : Run(Lexes, Reader(Atoms), s, Start, here) =>
                  (Len(s) + 1 \in Positions(t, where) <=> here.at \in where)
             /\ Positions(s, where) \subseteq 1..Len(s)
<1> DEFINE t == s \o <<c>>
           L == Len(s)
<1>1. /\ t \in Text /\ Len(t) = L + 1 /\ L \in Nat /\ t[L + 1] = c
      /\ \A i \in 1..L : t[i] = s[i]
  BY OneMore
<1>2. PICK f : ReadScan(t, Atoms, f)
  BY <1>1, ReadByScan
<1>3. PICK g : ReadScan(s, Atoms, g)
  BY ReadByScan
<1>4. DOMAIN s = 1..L /\ DOMAIN t = 1..(L + 1)
  <2>1. DOMAIN s = 1..Len(s) /\ DOMAIN t = 1..Len(t)
    BY <1>1 DEF Text
  <2> QED BY <1>1, <2>1
<1> HIDE DEF t
<1> DEFINE J == {n \in 0..L : f[n] = g[n]}
<1>5. 0 \in J
  BY <1>1, <1>2, <1>3 DEF ReadScan
<1>6. ASSUME NEW n \in 0..(L - 1), n \in J PROVE n + 1 \in J
  <2>1. n + 1 \in 1..L /\ n + 1 \in 0..L /\ n + 1 \in 1..(L + 1) /\ (n + 1) - 1 = n
    BY <1>1
  <2>2. f[n + 1] = After(f[n], t[n + 1], Atoms)
    BY <1>1, <1>2, <2>1 DEF ReadScan
  <2>3. g[n + 1] = After(g[n], s[n + 1], Atoms)
    BY <1>3, <2>1 DEF ReadScan
  <2> QED BY <1>1, <1>6, <2>1, <2>2, <2>3
<1>7. \A n \in 0..L : n \in J
  <2> HIDE DEF J, L
  <2> QED BY <1>1, <1>5, <1>6, BoundedInduction
<1>8. \A n \in 0..L : f[n] = g[n]
  BY <1>7
<1>9. Read(t, Atoms) = f /\ Read(s, Atoms) = g
  BY <1>2, <1>3 DEF ReadScan
<1> HIDE DEF L, J
<1>10. \A i \in 1..L : i \in Positions(t, where) <=> i \in Positions(s, where)
  <2> TAKE i \in 1..L
  <2>1. i \in 1..(L + 1) /\ i - 1 \in 0..L
    BY <1>1
  <2> QED BY <1>4, <1>8, <1>9, <2>1 DEF Positions
<1>11. ASSUME NEW here, Run(Lexes, Reader(Atoms), s, Start, here)
       PROVE  L + 1 \in Positions(t, where) <=> here.at \in where
  <2>1. here = g[L]
    BY <1>9, <1>11, ReadIsRun DEF L
  <2>2. L + 1 \in 1..(L + 1) /\ (L + 1) - 1 = L /\ L \in 0..L
    BY <1>1
  <2> QED BY <1>4, <1>8, <1>9, <2>1, <2>2 DEF Positions
<1>12. Positions(s, where) \subseteq 1..L
  BY <1>4 DEF Positions
<1> QED BY <1>10, <1>11, <1>12 DEF t, L

LEMMA InStringsOn ==
  ASSUME NEW s \in Text, NEW c \in Letter
  PROVE  LET t == s \o <<c>>
         IN  /\ \A i \in 1..Len(s) : i \in InStrings(t) <=> i \in InStrings(s)
             /\ \A here : Run(Lexes, Reader(Atoms), s, Start, here) =>
                  (Len(s) + 1 \in InStrings(t) <=> here.at \in InQuotes)
             /\ InStrings(s) \subseteq 1..Len(s)
BY PositionsOn DEF InStrings

-----------------------------------------------------------------------------
(* Which commas are dropped.                                               *)

(* s is the document with its trailing commas, those of K, and d without:  *)
(* a comma of K is followed by a closer, or nothing but blanks follows it  *)
(* so far; any other comma is in a string if a closer follows it.          *)
Commas(s, d, K, here, extra) ==
  /\ Drops(s, K, d)
  /\ \A i \in K : Trailing(s, i) \/ (extra /\ s[i] = "," /\ Blank(s, i))
  /\ \A i \in (1..Len(s)) \ K :
       s[i] = "," /\ Blank(s, i) =>
         \/ here.at = "comma"
         \/ here.at \in {"string", "single"} /\ Len(d) \in InStrings(d) /\ d[Len(d)] = ","
  /\ \A i \in (1..Len(s)) \ K : Trailing(s, i) => Lost(d)

LEMMA Ends ==
  /\ \A n \in Nat : /\ \A i \in 1..(n + 1) : i = n + 1 \/ i \in 1..n
                    /\ (n + 1)..n = {}
  /\ \A x \in Text : Len(x) \in Nat
BY DEF Text

LEMMA CommasNothing ==
  ASSUME NEW here, NEW extra
  PROVE  Commas(<<>>, <<>>, {}, here, extra)
<1>1. (1..Len(<<>>)) \ {} = {}
  OBVIOUS
<1> QED BY <1>1, DropsNothing DEF Commas

CommaStep(here, c, next) ==
  /\ c = "," => next.at = "comma" \/ (next.at = here.at /\ here.at \in {"string", "single"})
  /\ c = Newline => next = here /\ here.at \notin InQuotes
  /\ here.at = "comma" => c \notin Closers

LEMMA CommaNext ==
  ASSUME NEW here \in Lexes, NEW c, NEW next, next = After(here, c, Atoms), next.at # "bad"
  PROVE  CommaStep(here, c, next)
<1>1. /\ "," \notin Openers /\ "," \notin Closers /\ "," \notin Blanks /\ "," \notin Atoms
      /\ "," # Quote /\ "," # Backslash /\ Newline \in Blanks
      /\ Newline # Quote /\ Newline # Backslash /\ Newline \notin Closers
      /\ Closers \cap Blanks = {} /\ Closers \cap Openers = {} /\ Closers \cap Atoms = {}
      /\ Quote \notin Closers /\ "," \notin {Quote, Backslash, "/", "x"}
      /\ Newline \notin {Quote, Backslash, "/", "x"}
      /\ Blanks \cap Openers = {} /\ Blanks \cap Atoms = {} /\ Quote \notin Blanks
  BY DEF Openers, Closers, Blanks, Atoms, JsonAtoms, PythonAtoms, Quote, Backslash, Newline,
         Apostrophe
<1>2. \A w : [here EXCEPT !.at = w].at = w
  BY DEF Lexes
<1>2a. /\ "," # Apostrophe /\ Newline # Apostrophe /\ Apostrophe \notin Closers
       /\ "," \notin {Quote, Apostrophe, Backslash, "x"}
       /\ Newline \notin {Quote, Apostrophe, Backslash, "x"}
       /\ "," \notin Sought
  BY DEF Apostrophe, Newline, Closers, Openers, Quote, Backslash, Sought
<1>3. ASSUME c = ","
      PROVE  next.at = "comma" \/ (next.at = here.at /\ here.at \in {"string", "single"})
  <2>1. c \notin Openers /\ c \notin Closers /\ c \notin Blanks /\ c \notin Atoms
        /\ c # Quote /\ c # Backslash /\ c \notin {Quote, Backslash, "/", "x"}
        /\ c \notin {Quote, Backslash, Newline} /\ c # Apostrophe
        /\ c \notin {Apostrophe, Backslash, Newline}
        /\ c \notin {Quote, Apostrophe, Backslash, "x"}
    BY <1>1, <1>2a, <1>3
  <2>2. CASE here.at \in {"string", "single"}
    <3>1. next = here
      BY <2>1, <2>2 DEF After
    <3> QED BY <2>2, <3>1
  <2>3. CASE here.at \in {"escape", "singleEscape"}
    BY <1>2, <2>1, <2>3 DEF After, InQuotes
  <2>4. CASE here.at \notin InQuotes
    <3>1. next = Loose(here, c)
      BY <1>2a, <1>3, StrictIsLoose
    <3>2. next.at = "comma"
      BY <1>3, <2>4, <3>1, StepOutside DEF InQuotes, Singles
    <3> QED BY <3>2
  <2> QED BY <2>2, <2>3, <2>4 DEF InQuotes
<1>4. ASSUME c = Newline PROVE next = here /\ here.at \notin InQuotes
  <2>1. c \in Blanks /\ c \notin Openers /\ c \notin Closers /\ c \notin Atoms
        /\ c # Quote /\ c # Backslash /\ c \notin {Quote, Backslash, "/", "x"}
        /\ c # "," /\ ~(c \notin {Quote, Backslash, Newline}) /\ c # Apostrophe
        /\ ~(c \notin {Apostrophe, Backslash, Newline})
        /\ c \notin {Quote, Apostrophe, Backslash, "x"}
    BY <1>1, <1>2a, <1>4
  <2>2. here.at # "bad"
    BY <1>2, <2>1 DEF After
  <2>3. here.at \notin InQuotes
    BY <1>2, <2>1 DEF After, InQuotes
  <2> QED BY <2>1, <2>2, <2>3 DEF After
<1>5. here.at = "comma" => c \notin Closers
  BY <1>1, <1>2, <1>2a DEF After, InQuotes
<1> QED BY <1>3, <1>4, <1>5 DEF CommaStep

LEMMA LostOn ==
  ASSUME NEW d \in Text, NEW c \in Letter, Lost(d)
  PROVE  Lost(d \o <<c>>)
<1>1. PICK i \in InStrings(d) : Trailing(d, i)
  BY DEF Lost
<1>2. i \in 1..Len(d)
  BY InStringsOn
<1> QED BY <1>1, <1>2, InStringsOn, TrailingOn DEF Lost

LEMMA CommasOn ==
  ASSUME NEW s, NEW d, NEW K, NEW here \in Lexes, NEW extra \in BOOLEAN,
         Commas(s, d, K, here, extra),
         Run(Lexes, Reader(Atoms), d, Start, here),
         NEW c \in Letter, c \in Blanks => c = Newline, extra => c \in Closers \cup {Newline},
         NEW next, next = After(here, c, Atoms), next.at # "bad"
  PROVE  Commas(s \o <<c>>, d \o <<c>>, K, next, extra /\ c = Newline)
<1> DEFINE L == Len(s)
           t == s \o <<c>>
           e == d \o <<c>>
<1>1. s \in Text /\ d \in Text /\ K \subseteq 1..L /\ L \in Nat
  <2>1. Drops(s, K, d)
    BY DEF Commas
  <2>2. s \in Text /\ d \in Text /\ K \subseteq 1..L
    BY <2>1 DEF Drops
  <2> QED BY <2>2, Ends
<1>2. /\ t \in Text /\ Len(t) = L + 1 /\ t[L + 1] = c
      /\ \A i \in 1..L : t[i] = s[i]
      /\ e \in Text /\ Len(e) = Len(d) + 1 /\ Len(d) \in Nat /\ e[Len(d) + 1] = c
      /\ \A i \in 1..Len(d) : e[i] = d[i]
  BY <1>1, OneMore
<1>3. /\ \A i \in 1..L :
           /\ Blank(t, i) <=> Blank(s, i) /\ c \in Blanks
           /\ Trailing(t, i) <=>
                \/ Trailing(s, i)
                \/ s[i] = "," /\ Blank(s, i) /\ c \in Closers
      /\ ~Trailing(t, L + 1)
  BY <1>1, TrailingOn
<1>4. Drops(t, K, e)
  BY DropsOn DEF Commas
<1>5. c \in Blanks => c = Newline
  BY DEF Blanks
<1>6. /\ c = "," => next.at = "comma" \/ (next.at = here.at /\ here.at \in {"string", "single"})
      /\ c = Newline => next = here /\ here.at \notin InQuotes
      /\ here.at = "comma" => c \notin Closers
  <2>1. CommaStep(here, c, next)
    BY CommaNext
  <2> QED BY <2>1 DEF CommaStep
<1>7. Lost(d) => Lost(e)
  BY <1>1, LostOn
<1>8. here.at \in InQuotes => Len(d) + 1 \in InStrings(e)
  BY <1>1, InStringsOn
<1>9. /\ \A i \in K : Trailing(s, i) \/ (extra /\ s[i] = "," /\ Blank(s, i))
      /\ \A i \in (1..L) \ K :
           s[i] = "," /\ Blank(s, i) =>
             \/ here.at = "comma"
             \/ here.at \in {"string", "single"} /\ Len(d) \in InStrings(d) /\ d[Len(d)] = ","
      /\ \A i \in (1..L) \ K : Trailing(s, i) => Lost(d)
  BY DEF Commas
<1>10. \A i \in 1..(L + 1) : i = L + 1 \/ i \in 1..L
  <2> HIDE DEF L
  <2> QED BY <1>1, Ends
<1>11. InStrings(d) \subseteq 1..Len(d)
  BY <1>1, InStringsOn
<1>12. \A i \in 1..Len(d) :
         Trailing(e, i) <=>
           \/ Trailing(d, i)
           \/ d[i] = "," /\ Blank(d, i) /\ c \in Closers
  BY <1>1, TrailingOn
<1>13. \A i \in 1..Len(d) : i \in InStrings(e) <=> i \in InStrings(d)
  BY <1>1, InStringsOn
<1>14. Blank(d, Len(d))
  <2>1. (Len(d) + 1)..Len(d) = {}
    BY <1>1, Ends
  <2> QED BY <2>1 DEF Blank
<1> HIDE DEF L, t, e
<1>15. ASSUME NEW i \in K
       PROVE  Trailing(t, i) \/ ((extra /\ c = Newline) /\ t[i] = "," /\ Blank(t, i))
  <2>1. i \in 1..L
    BY <1>1
  <2>2. CASE Trailing(s, i)
    BY <1>3, <2>1, <2>2
  <2>3. CASE extra /\ s[i] = "," /\ Blank(s, i)
    <3>1. c \in Closers => Trailing(t, i)
      BY <1>3, <2>1, <2>3
    <3>2. c = Newline => Blank(t, i) /\ t[i] = ","
      BY <1>2, <1>3, <2>1, <2>3 DEF Blanks
    <3> QED BY <2>3, <3>1, <3>2
  <2> QED BY <1>9, <2>2, <2>3
<1>16. ASSUME NEW i \in (1..(L + 1)) \ K, t[i] = "," /\ Blank(t, i)
       PROVE  \/ next.at = "comma"
              \/ next.at \in {"string", "single"} /\ Len(e) \in InStrings(e) /\ e[Len(e)] = ","
  <2>1. CASE i = L + 1
    BY <1>2, <1>6, <1>8, <1>16, <2>1 DEF InQuotes
  <2>2. CASE i \in 1..L
    <3>1. s[i] = "," /\ Blank(s, i) /\ c = Newline /\ i \in (1..L) \ K
      BY <1>2, <1>3, <1>5, <1>16, <2>2
    <3> QED BY <1>6, <1>9, <3>1 DEF InQuotes
  <2> QED BY <1>10, <2>1, <2>2
<1>17. ASSUME NEW i \in (1..(L + 1)) \ K, Trailing(t, i)
       PROVE  Lost(e)
  <2>1. i \in 1..L /\ i \in (1..L) \ K
    BY <1>3, <1>10, <1>17
  <2>2. CASE Trailing(s, i)
    BY <1>7, <1>9, <2>1, <2>2
  <2>3. CASE s[i] = "," /\ Blank(s, i) /\ c \in Closers
    <3>1. Len(d) \in InStrings(d) /\ d[Len(d)] = ","
      BY <1>6, <1>9, <2>1, <2>3
    <3>2. Len(d) \in 1..Len(d)
      BY <1>11, <3>1
    <3>3. Len(d) \in InStrings(e) /\ Trailing(e, Len(d))
      BY <1>12, <1>13, <1>14, <2>3, <3>1, <3>2
    <3> QED BY <3>3 DEF Lost
  <2> QED BY <1>3, <1>17, <2>1, <2>2, <2>3
<1>18. /\ \A i \in (1..Len(t)) \ K :
            t[i] = "," /\ Blank(t, i) =>
              \/ next.at = "comma"
              \/ next.at \in {"string", "single"} /\ Len(e) \in InStrings(e) /\ e[Len(e)] = ","
       /\ \A i \in (1..Len(t)) \ K : Trailing(t, i) => Lost(e)
  BY <1>2, <1>16, <1>17
<1> QED BY <1>4, <1>15, <1>18 DEF Commas, t, e

(* A trailing comma.                                                       *)
LEMMA CommasTrailing ==
  ASSUME NEW s, NEW d, NEW K, NEW here, Commas(s, d, K, here, FALSE)
  PROVE  Commas(s \o <<",">>, d, K \cup {Len(s) + 1}, here, TRUE)
<1> DEFINE L == Len(s)
           c == ","
           t == s \o <<c>>
           M == K \cup {L + 1}
<1>1. s \in Text /\ d \in Text /\ K \subseteq 1..L /\ L \in Nat /\ c \in Letter
  <2>1. Drops(s, K, d)
    BY DEF Commas
  <2>2. s \in Text /\ d \in Text /\ K \subseteq 1..L
    BY <2>1 DEF Drops
  <2>3. c \in Letter
    BY DEF Letter
  <2> QED BY <2>2, <2>3, Ends
<1> HIDE DEF c
<1>2. /\ t \in Text /\ Len(t) = L + 1 /\ t[L + 1] = c
      /\ \A i \in 1..L : t[i] = s[i]
  BY <1>1, OneMore
<1>3. /\ \A i \in 1..L :
           /\ Blank(t, i) <=> Blank(s, i) /\ c \in Blanks
           /\ Trailing(t, i) <=>
                \/ Trailing(s, i)
                \/ s[i] = "," /\ Blank(s, i) /\ c \in Closers
      /\ ~Trailing(t, L + 1)
  BY <1>1, TrailingOn
<1>4. Drops(t, M, d)
  BY <1>1, DropsOn DEF Commas
<1>5. c \notin Blanks /\ c \notin Closers
  BY DEF Blanks, Closers, Newline, c
<1>6. /\ \A i \in K : Trailing(s, i)
      /\ \A i \in (1..L) \ K : Trailing(s, i) => Lost(d)
  BY DEF Commas
<1>7. Blank(t, L + 1)
  <2>1. ((L + 1) + 1)..(L + 1) = {}
    BY <1>1
  <2> QED BY <1>2, <2>1 DEF Blank
<1> HIDE DEF L, t
<1>8. ASSUME NEW i \in M PROVE Trailing(t, i) \/ (TRUE /\ t[i] = "," /\ Blank(t, i))
  <2>1. CASE i \in K
    BY <1>1, <1>3, <1>6, <2>1
  <2>2. CASE i = L + 1
    BY <1>2, <1>7, <2>2 DEF c
  <2> QED BY <2>1, <2>2
<1>9. \A i \in (1..(L + 1)) \ M : i \in 1..L /\ i \notin K
  BY <1>1
<1>10. \A i \in (1..(L + 1)) \ M : ~Blank(t, i)
  BY <1>3, <1>5, <1>9
<1>11. \A i \in (1..(L + 1)) \ M : Trailing(t, i) => Lost(d)
  BY <1>3, <1>5, <1>6, <1>9
<1> HIDE DEF M
<1>12. Commas(t, d, M, here, TRUE)
  BY <1>2, <1>4, <1>8, <1>10, <1>11 DEF Commas
<1> QED BY <1>12 DEF t, M, L, c

(* At the end exactly the trailing commas are dropped.                     *)
LEMMA CommasDone ==
  ASSUME NEW s, NEW d, NEW K, NEW here, Commas(s, d, K, here, FALSE), ~Lost(d)
  PROVE  WithoutTrailingCommas(s) = d
<1>1. Drops(s, K, d) /\ K \subseteq 1..Len(s)
  BY DEF Commas, Drops
<1>2. \A i \in 1..Len(s) : i \in K <=> Trailing(s, i)
  BY DEF Commas
<1> QED BY <1>1, <1>2, DropsTrailing

-----------------------------------------------------------------------------
(* What parses before any cleanup.                                         *)

Empty(b) == b \in Text /\ \A i \in 1..Len(b) : b[i] \in Blanks

(* Something in t that is not JSON.                                        *)
Spoiled(t) ==
  \E y : Run(Lexes, Reader(JsonAtoms), t, Start, y) /\ y.at = "bad"

(* A bracket that nothing but blanks is before.                            *)
Bracketed(l) ==
  \E m \in 1..Len(l) : l[m] \in Openers /\ \A k \in 1..(m - 1) : l[k] \in Blanks

(* JSON so far, nothing but blanks around the document; a trailing comma   *)
(* is one that something should follow.  Prose that begins with a bracket  *)
(* may be JSON itself.                                                     *)
Plain(t, l, d, here, pl, extra) ==
  /\ t \in Text /\ l \in Text /\ d \in Text
  /\ \/ Spoiled(t)
     \/ Bracketed(l)
     \/ /\ extra
        /\ \E y \in Lexes : y.at = "comma" /\ Run(Lexes, Reader(JsonAtoms), t, Start, y)
     \/ /\ ~extra
        /\ Run(Lexes, Reader(JsonAtoms), t, Start, here)
        /\ Empty(l)
        /\ \E e : Empty(e) /\ t = l \o (d \o e) /\ (pl # "after" => e = <<>>)

LEMMA StartType ==
  Start \in Lexes /\ Start.at = "start"
BY DEF Start, Lexes, Within, Singles

LEMMA ReaderStep ==
  ASSUME NEW y \in Lexes, NEW c \in Letter, NEW atoms
  PROVE  /\ Reader(atoms)[<<y, c>>] = After(y, c, atoms)
         /\ After(y, c, atoms) \in Lexes
BY AfterType DEF Reader

LEMMA BlankStays ==
  ASSUME NEW st \in Lexes, st.at \notin InQuotes \cup {"bad"}, NEW c \in Blanks
  PROVE  After(st, c, JsonAtoms) = st
<1>1. c \notin Openers /\ c \notin Closers /\ c # Quote /\ c # "," /\ c \notin JsonAtoms
  BY DEF Blanks, Openers, Closers, Newline, Quote, JsonAtoms
<1>2. /\ st.at # "string" /\ st.at # "escape" /\ st.at # "bad"
      /\ st.at # "single" /\ st.at # "singleEscape"
  BY DEF InQuotes
<1> QED BY <1>1, <1>2 DEF After

LEMMA PlainNothing ==
  Plain(<<>>, <<>>, <<>>, Start, "before", FALSE)
<1>1. <<>> \in Text /\ <<>> \o <<>> = <<>> /\ Empty(<<>>)
  BY ConcatText DEF Empty, Text
<1>2. Run(Lexes, Reader(JsonAtoms), <<>>, Start, Start)
  BY StartType, RunNothing
<1> QED BY <1>1, <1>2 DEF Plain

LEMMA SpoiledOn ==
  ASSUME NEW t \in Text, Spoiled(t), NEW s \in Text
  PROVE  Spoiled(t \o s)
<1> DEFINE J == {x \in Lexes : x.at = "bad"}
<1>1. PICK y : Run(Lexes, Reader(JsonAtoms), t, Start, y) /\ y.at = "bad"
  BY DEF Spoiled
<1>2. y \in Lexes
  <2>1. Len(t) \in Nat
    BY DEF Text
  <2> QED BY <1>1, <2>1 DEF Run
<1>3. ASSUME NEW x \in J, NEW c \in Letter PROVE Reader(JsonAtoms)[<<x, c>>] \in J
  <2>1. x \in Lexes /\ x.at = "bad"
    OBVIOUS
  <2>2. After(x, c, JsonAtoms).at = "bad"
    <3>1. After(x, c, JsonAtoms) = [x EXCEPT !.at = "bad"]
      BY <2>1 DEF After
    <3> QED BY <2>1, <3>1 DEF Lexes
  <2> QED BY <2>1, <2>2, ReaderStep
<1>4. PICK z \in J : Run(Lexes, Reader(JsonAtoms), s, y, z)
  <2>1. \A i \in 1..Len(s) : s[i] \in Letter
    BY ElementOfSeq DEF Text
  <2>2. J \in SUBSET Lexes /\ y \in J
    BY <1>1, <1>2
  <2> HIDE DEF J
  <2> QED BY <1>3, <2>1, <2>2, RunWithin
<1>5. Run(Lexes, Reader(JsonAtoms), t \o s, Start, z) /\ z.at = "bad"
  BY <1>1, <1>4, RunBoth
<1> QED BY <1>5 DEF Spoiled

(* A character that cannot stand there.                                    *)
Spoils(c, here, extra) ==
  \A y \in Lexes : y = here \/ (extra /\ y.at = "comma") =>
    After(y, c, JsonAtoms).at = "bad"

LEMMA SpoiledBy ==
  ASSUME NEW t, NEW l, NEW d, NEW here \in Lexes, NEW pl, NEW extra,
         Plain(t, l, d, here, pl, extra), ~Bracketed(l),
         NEW c \in Letter,
         Spoils(c, here, extra),
         NEW r \in Text, NEW s, s = <<c>> \o r
  PROVE  Spoiled(t \o s)
<1>1. t \in Text /\ <<c>> \in Text
  BY OneMark DEF Plain
<1>2. <<c>> \o r \in Text /\ t \o <<c>> \in Text
  BY <1>1, OneAfterAnother
<1>3. CASE Spoiled(t)
  BY <1>1, <1>2, <1>3, SpoiledOn
<1>4. ASSUME NEW y \in Lexes, Run(Lexes, Reader(JsonAtoms), t, Start, y),
             After(y, c, JsonAtoms).at = "bad"
      PROVE  Spoiled(t \o s)
  <2> DEFINE z == After(y, c, JsonAtoms)
  <2>1. z \in Lexes /\ Reader(JsonAtoms)[<<y, c>>] = z
    BY ReaderStep
  <2> HIDE DEF z
  <2>2. Run(Lexes, Reader(JsonAtoms), <<c>>, y, z)
    BY <2>1, RunCharacter
  <2>3. Run(Lexes, Reader(JsonAtoms), t \o <<c>>, Start, z)
    BY <1>1, <1>4, <2>2, RunBoth
  <2>4. Spoiled(t \o <<c>>)
    BY <1>4, <2>3 DEF Spoiled, z
  <2>5. (t \o <<c>>) \o r = t \o (<<c>> \o r)
    BY <1>1, Associate
  <2> QED BY <1>2, <2>4, <2>5, SpoiledOn
<1> QED BY <1>3, <1>4 DEF Plain, Spoils

(* JSON's reader and a reader that knows Python's names as well.           *)
LEMMA StricterReader ==
  ASSUME NEW here \in Lexes, NEW c
  PROVE  After(here, c, JsonAtoms) = After(here, c, Atoms)
         \/ After(here, c, JsonAtoms).at = "bad"
<1>1. \A w : [here EXCEPT !.at = w].at = w
  BY DEF Lexes
<1>2. JsonAtoms \subseteq Atoms
  BY DEF Atoms
<1>3. CASE c \in JsonAtoms \/ c \notin Atoms
  <2>1. c \in JsonAtoms <=> c \in Atoms
    BY <1>2, <1>3
  <2> QED BY <2>1 DEF After
<1>4. CASE c \in Atoms \ JsonAtoms
  <2>1. c \notin Openers \cup Closers \cup Blanks \cup {Quote, Backslash, ","}
    BY <1>4 DEF Atoms, JsonAtoms, PythonAtoms, Openers, Closers, Blanks, Quote, Backslash, Newline,
                Apostrophe
  <2>2. CASE here.at \in {"open", "comma"}
    BY <1>1, <1>4, <2>1, <2>2 DEF After, InQuotes
  <2>3. CASE here.at \notin {"open", "comma"}
    BY <2>3 DEF After
  <2> QED BY <2>2, <2>3
<1> QED BY <1>3, <1>4

LEMMA EmptyText ==
  <<>> \in Text /\ Len(<<>>) = 0
BY DEF Text

LEMMA EmptyOn ==
  ASSUME NEW b, Empty(b), NEW c \in Blanks, c \in Letter
  PROVE  Empty(b \o <<c>>)
<1>1. b \in Text /\ \A i \in 1..Len(b) : b[i] \in Blanks
  BY DEF Empty
<1>2. /\ b \o <<c>> \in Text /\ Len(b \o <<c>>) = Len(b) + 1 /\ Len(b) \in Nat
      /\ (b \o <<c>>)[Len(b) + 1] = c
      /\ \A i \in 1..Len(b) : (b \o <<c>>)[i] = b[i]
  BY <1>1, OneMore
<1>3. \A i \in 1..(Len(b) + 1) : i = Len(b) + 1 \/ i \in 1..Len(b)
  BY <1>2, Ends
<1> QED BY <1>1, <1>2, <1>3 DEF Empty

LEMMA BracketedOn ==
  ASSUME NEW l \in Text, NEW c \in Letter, Bracketed(l) \/ (Empty(l) /\ c \in Openers)
  PROVE  Bracketed(l \o <<c>>)
<1>1. /\ l \o <<c>> \in Text /\ Len(l \o <<c>>) = Len(l) + 1 /\ Len(l) \in Nat
      /\ (l \o <<c>>)[Len(l) + 1] = c
      /\ \A i \in 1..Len(l) : (l \o <<c>>)[i] = l[i]
  BY OneMore
<1> DEFINE t == l \o <<c>>
<1> HIDE DEF t
<1>2. CASE Bracketed(l)
  <2>1. PICK m \in 1..Len(l) : l[m] \in Openers /\ \A k \in 1..(m - 1) : l[k] \in Blanks
    BY <1>2 DEF Bracketed
  <2>2. m \in 1..Len(t) /\ \A k \in 1..(m - 1) : k \in 1..Len(l)
    BY <1>1 DEF t
  <2> QED BY <1>1, <2>1, <2>2 DEF Bracketed, t
<1>3. CASE Empty(l) /\ c \in Openers
  <2>1. Len(t) \in 1..Len(t) /\ t[Len(t)] = c /\ Len(t) - 1 = Len(l)
    BY <1>1 DEF t
  <2>2. \A k \in 1..Len(l) : t[k] \in Blanks
    BY <1>1, <1>3 DEF Empty, t
  <2> QED BY <1>3, <2>1, <2>2 DEF Bracketed, t
<1> QED BY <1>2, <1>3

(* What a character does to what reads as JSON.                            *)
LEMMA PlainStep ==
  ASSUME NEW t \in Text, NEW c \in Letter, NEW y \in Lexes,
         Run(Lexes, Reader(JsonAtoms), t, Start, y)
  PROVE  /\ After(y, c, JsonAtoms) \in Lexes
         /\ Run(Lexes, Reader(JsonAtoms), t \o <<c>>, Start, After(y, c, JsonAtoms))
         /\ After(y, c, JsonAtoms).at = "bad" => Spoiled(t \o <<c>>)
<1> DEFINE z == After(y, c, JsonAtoms)
<1>1. z \in Lexes /\ Reader(JsonAtoms)[<<y, c>>] = z
  BY ReaderStep
<1> HIDE DEF z
<1>2. Run(Lexes, Reader(JsonAtoms), <<c>>, y, z) /\ <<c>> \in Text
  BY <1>1, RunCharacter, OneMark
<1>3. Run(Lexes, Reader(JsonAtoms), t \o <<c>>, Start, z)
  BY <1>2, RunBoth
<1> QED BY <1>1, <1>3 DEF z, Spoiled

(* Outside the document nothing but blanks and brackets can stand.         *)
LEMMA OutsideSpoils ==
  ASSUME NEW c \in Letter, c \notin Blanks
  PROVE  /\ \A st \in Lexes : st.at = "end" => After(st, c, JsonAtoms).at = "bad"
         /\ c \notin Openers => After(Start, c, JsonAtoms).at = "bad"
<1>1. ASSUME NEW st \in Lexes, st.at = "end" \/ (st.at = "start" /\ c \notin Openers)
      PROVE  After(st, c, JsonAtoms).at = "bad"
  <2>1. After(st, c, JsonAtoms) = [st EXCEPT !.at = "bad"]
    BY <1>1 DEF After, InQuotes
  <2> QED BY <2>1 DEF Lexes
<1> QED BY <1>1, StartType

LEMMA PlainBefore ==
  ASSUME NEW t, NEW l, Plain(t, l, <<>>, Start, "before", FALSE), NEW c \in Letter
  PROVE  Plain(t \o <<c>>, l \o <<c>>, <<>>, Start, "before", FALSE)
<1> DEFINE e == <<c>>
<1>1. t \in Text /\ l \in Text /\ e \in Text /\ t \o e \in Text /\ l \o e \in Text /\ <<>> \in Text
  <2>1. t \in Text /\ l \in Text /\ e \in Text /\ <<>> \in Text
    BY OneMark DEF Plain
  <2> QED BY <2>1, OneAfterAnother
<1>2. CASE Spoiled(t)
  BY <1>1, <1>2, SpoiledOn DEF Plain
<1>3. CASE Bracketed(l)
  BY <1>1, <1>3, BracketedOn DEF Plain
<1>4. CASE /\ Run(Lexes, Reader(JsonAtoms), t, Start, Start) /\ Empty(l)
           /\ \E x : Empty(x) /\ t = l \o (<<>> \o x) /\ x = <<>>
  <2>1. t = l
    BY <1>1, <1>4, ConcatText
  <2>2. CASE c \in Blanks
    <3>1. After(Start, c, JsonAtoms) = Start
      BY <2>2, StartType, BlankStays DEF InQuotes
    <3>2. Run(Lexes, Reader(JsonAtoms), t \o e, Start, Start)
      BY <1>1, <1>4, <3>1, StartType, PlainStep
    <3>3. Empty(l \o e) /\ Empty(<<>>)
      BY <1>4, <2>2, EmptyOn
    <3>4. t \o e = (l \o e) \o (<<>> \o <<>>)
      BY <1>1, <2>1, ConcatText
    <3> QED BY <1>1, <3>2, <3>3, <3>4 DEF Plain
  <2>3. CASE c \in Openers
    BY <1>1, <1>4, <2>3, BracketedOn DEF Plain
  <2>4. CASE c \notin Blanks /\ c \notin Openers
    <3>1. Spoiled(t \o e)
      BY <1>1, <1>4, <2>4, StartType, PlainStep, OutsideSpoils
    <3> QED BY <1>1, <3>1 DEF Plain
  <2> QED BY <2>2, <2>3, <2>4
<1> QED BY <1>2, <1>3, <1>4 DEF Plain

LEMMA PlainAfter ==
  ASSUME NEW t, NEW l, NEW d, NEW here \in Lexes, here.at = "end",
         Plain(t, l, d, here, "after", FALSE), NEW c \in Letter
  PROVE  Plain(t \o <<c>>, l, d, here, "after", FALSE)
<1> DEFINE e == <<c>>
<1>1. t \in Text /\ l \in Text /\ d \in Text /\ e \in Text /\ t \o e \in Text
  <2>1. t \in Text /\ l \in Text /\ d \in Text /\ e \in Text
    BY OneMark DEF Plain
  <2> QED BY <2>1, OneAfterAnother
<1>2. CASE Spoiled(t)
  BY <1>1, <1>2, SpoiledOn DEF Plain
<1>3. CASE Bracketed(l)
  BY <1>1, <1>3 DEF Plain
<1>4. CASE /\ Run(Lexes, Reader(JsonAtoms), t, Start, here) /\ Empty(l)
           /\ \E x : Empty(x) /\ t = l \o (d \o x)
  <2>1. PICK x : Empty(x) /\ t = l \o (d \o x)
    BY <1>4
  <2>2. CASE c \in Blanks
    <3>1. After(here, c, JsonAtoms) = here
      BY <2>2, BlankStays DEF InQuotes
    <3>2. Run(Lexes, Reader(JsonAtoms), t \o e, Start, here)
      BY <1>1, <1>4, <3>1, PlainStep
    <3>3. Empty(x \o e) /\ x \in Text
      BY <2>1, <2>2, EmptyOn DEF Empty
    <3>4. t \o e = l \o (d \o (x \o e))
      <4>1. Regroups(l, d, x, e)
        BY <1>1, <3>3, RegroupFour
      <4>2. (d \o x) \o e = d \o (x \o e)
        BY <1>1, <3>3, Associate
      <4> QED BY <2>1, <4>1, <4>2 DEF Regroups
    <3> QED BY <1>1, <1>4, <3>2, <3>3, <3>4 DEF Plain
  <2>3. CASE c \notin Blanks
    <3>1. Spoiled(t \o e)
      BY <1>1, <1>4, <2>3, PlainStep, OutsideSpoils
    <3> QED BY <1>1, <3>1 DEF Plain
  <2> QED BY <2>2, <2>3
<1> QED BY <1>2, <1>3, <1>4 DEF Plain

LEMMA PlainOn ==
  ASSUME NEW t, NEW l, NEW d, NEW here \in Lexes, NEW pl, pl # "after", NEW extra \in BOOLEAN,
         Plain(t, l, d, here, pl, extra),
         NEW c \in Letter, extra => c \in Closers \cup {Newline},
         NEW next, next = After(here, c, Atoms), next.at # "bad", NEW to
  PROVE  Plain(t \o <<c>>, l, d \o <<c>>, next, to, extra /\ c = Newline)
<1> DEFINE e == <<c>>
<1>1. t \in Text /\ l \in Text /\ d \in Text /\ e \in Text /\ t \o e \in Text /\ d \o e \in Text
      /\ <<>> \in Text
  <2>1. t \in Text /\ l \in Text /\ d \in Text /\ e \in Text /\ <<>> \in Text
    BY OneMark, EmptyText DEF Plain
  <2> QED BY <2>1, OneAfterAnother
<1>2. CASE Spoiled(t)
  BY <1>1, <1>2, SpoiledOn DEF Plain
<1>3. CASE Bracketed(l)
  BY <1>1, <1>3 DEF Plain
<1>4. CASE extra /\ \E y \in Lexes : y.at = "comma" /\ Run(Lexes, Reader(JsonAtoms), t, Start, y)
  <2>1. PICK y \in Lexes : y.at = "comma" /\ Run(Lexes, Reader(JsonAtoms), t, Start, y)
    BY <1>4
  <2>2. JsonAtoms \in SUBSET Atoms
    BY DEF Atoms
  <2>3. CASE After(y, c, JsonAtoms).at = "bad"
    BY <1>1, <2>1, <2>3, PlainStep DEF Plain
  <2>4. CASE After(y, c, JsonAtoms).at # "bad"
    <3>1. c \notin Closers
      BY <2>1, <2>2, <2>4, StrictIsLoose DEF Singles
    <3>2. c = Newline
      BY <1>4, <3>1
    <3>3. y.at \notin InQuotes \cup {"bad"} /\ c \in Blanks
      BY <2>1, <3>2 DEF Blanks, InQuotes
    <3>4. After(y, c, JsonAtoms) = y
      BY <2>1, <3>3, BlankStays
    <3> QED BY <1>1, <1>4, <2>1, <3>2, <3>4, PlainStep DEF Plain
  <2> QED BY <2>3, <2>4
<1>5. CASE /\ ~extra
           /\ Run(Lexes, Reader(JsonAtoms), t, Start, here) /\ Empty(l)
           /\ \E x : Empty(x) /\ t = l \o (d \o x) /\ x = <<>>
  <2>1. CASE After(here, c, JsonAtoms).at = "bad"
    BY <1>1, <1>5, <2>1, PlainStep DEF Plain
  <2>2. CASE After(here, c, JsonAtoms) = next
    <3>1. t = l \o d /\ Empty(<<>>)
      BY <1>1, <1>5, ConcatText
    <3>2. (l \o d) \o e = l \o (d \o e)
      <4>1. l \in Text /\ d \in Text /\ e \in Text
        BY <1>1
      <4> HIDE DEF e
      <4> QED BY <4>1, Associate
    <3>3. t \o e = l \o ((d \o e) \o <<>>)
      BY <1>1, <3>1, <3>2, ConcatText
    <3>4. Run(Lexes, Reader(JsonAtoms), t \o e, Start, next)
      BY <1>1, <1>5, <2>2, PlainStep
    <3> QED BY <1>1, <1>5, <3>1, <3>3, <3>4 DEF Plain
  <2> QED BY <2>1, <2>2, StricterReader
<1> QED BY <1>2, <1>3, <1>4, <1>5 DEF Plain

LEMMA PlainTrailing ==
  ASSUME NEW t, NEW l, NEW d, NEW here \in Lexes, here.at = "value", NEW pl,
         Plain(t, l, d, here, pl, FALSE)
  PROVE  Plain(t \o <<",">>, l, d, here, pl, TRUE)
<1> DEFINE e == <<",">>
<1>1. t \in Text /\ l \in Text /\ d \in Text /\ e \in Text /\ t \o e \in Text /\ "," \in Letter
  <2>1. t \in Text /\ l \in Text /\ d \in Text /\ e \in Text /\ "," \in Letter
    BY AComma DEF Plain, Rewrites, Letter
  <2> QED BY <2>1, OneAfterAnother
<1>2. CASE Spoiled(t)
  BY <1>1, <1>2, SpoiledOn DEF Plain
<1>3. CASE Bracketed(l)
  BY <1>1, <1>3 DEF Plain
<1>4. CASE Run(Lexes, Reader(JsonAtoms), t, Start, here)
  <2> DEFINE z == After(here, ",", JsonAtoms)
  <2>1. z = [here EXCEPT !.at = "comma"]
    BY DEF After, Blanks, Openers, Closers, JsonAtoms, Newline, Quote, Backslash, InQuotes
  <2>2. z.at = "comma"
    BY <2>1 DEF Lexes
  <2>3. z \in Lexes /\ Run(Lexes, Reader(JsonAtoms), t \o e, Start, z)
    BY <1>1, <1>4, PlainStep
  <2> HIDE DEF z
  <2> QED BY <1>1, <2>2, <2>3 DEF Plain
<1> QED BY <1>2, <1>3, <1>4 DEF Plain

(* What parses before any cleanup is the document, blanks taken off.       *)
LEMMA BlanksStay ==
  ASSUME NEW st \in Lexes, st.at \notin InQuotes \cup {"bad"}, NEW b, Empty(b)
  PROVE  Run(Lexes, Reader(JsonAtoms), b, st, st)
<1> DEFINE J == {st}
<1>1. b \in Text /\ \A i \in 1..Len(b) : b[i] \in Blanks \cap Letter
  BY ElementOfSeq DEF Empty, Text
<1>2. ASSUME NEW x \in J, NEW c \in Blanks \cap Letter PROVE Reader(JsonAtoms)[<<x, c>>] \in J
  BY ReaderStep, BlankStays
<1>3. J \in SUBSET Lexes /\ st \in J
  OBVIOUS
<1>4. PICK z \in J : Run(Lexes, Reader(JsonAtoms), b, st, z)
  <2> HIDE DEF J
  <2> QED BY <1>1, <1>2, <1>3, RunWithin
<1> QED BY <1>4

LEMMA TrimmedParts ==
  ASSUME NEW s \in Text, NEW m, NEW M, Trimmed(s, m, M)
  PROVE  \E a, b : Empty(a) /\ Empty(b) /\ s = a \o (Trim(s) \o b)
<1> DEFINE L == Len(s)
           a == [k \in 1..(m - 1) |-> s[k]]
           b == [k \in 1..(L - M) |-> s[M + k]]
           x == Trim(s)
<1>1. /\ L \in Nat /\ \A k \in 1..L : s[k] \in Letter
      /\ m \in 1..L /\ M \in m..L
      /\ \A k \in 1..L : s[k] \notin Blanks => m <= k /\ k <= M
      /\ x \in Text /\ Len(x) = (M - m) + 1
      /\ \A k \in 1..((M - m) + 1) : x[k] = s[(m + k) - 1]
  BY ElementOfSeq DEF Trimmed, Text
<1> HIDE DEF L, x
<1>2. a \in Text /\ Len(a) = m - 1
  <2>1. m - 1 \in Nat /\ \A k \in 1..(m - 1) : k \in 1..L
    BY <1>1
  <2>2. a \in [1..(m - 1) -> Letter]
    BY <1>1, <2>1
  <2> HIDE DEF a
  <2> QED BY <2>1, <2>2, SeqDef, LenProperties DEF Text
<1>3. b \in Text /\ Len(b) = L - M
  <2>1. L - M \in Nat /\ \A k \in 1..(L - M) : M + k \in 1..L
    BY <1>1
  <2>2. b \in [1..(L - M) -> Letter]
    BY <1>1, <2>1
  <2> HIDE DEF b
  <2> QED BY <2>1, <2>2, SeqDef, LenProperties DEF Text
<1>4. Empty(a)
  <2>1. \A k \in 1..(m - 1) : a[k] = s[k] /\ k \in 1..L /\ ~(m <= k)
    BY <1>1
  <2> HIDE DEF a
  <2> QED BY <1>1, <1>2, <2>1 DEF Empty
<1>5. Empty(b)
  <2>1. \A k \in 1..(L - M) : b[k] = s[M + k] /\ M + k \in 1..L /\ ~(M + k <= M)
    BY <1>1
  <2> HIDE DEF b
  <2> QED BY <1>1, <1>3, <2>1 DEF Empty
<1>6. \A k \in 1..(m - 1) : a[k] = s[k]
  OBVIOUS
<1>7. \A k \in 1..(L - M) : b[k] = s[M + k]
  OBVIOUS
<1> HIDE DEF a, b
<1> DEFINE y == x \o b
<1>8. /\ y \in Text /\ Len(y) = ((M - m) + 1) + (L - M)
      /\ \A k \in 1..((M - m) + 1) : y[k] = x[k]
      /\ \A k \in 1..(L - M) : y[((M - m) + 1) + k] = b[k]
  <2>1. /\ x \o b \in Text /\ Len(x \o b) = Len(x) + Len(b)
        /\ \A k \in 1..Len(x) : (x \o b)[k] = x[k]
        /\ \A k \in 1..Len(b) : (x \o b)[Len(x) + k] = b[k]
    BY <1>1, <1>3, OneAfterAnother
  <2> QED BY <1>1, <1>3, <2>1
<1> HIDE DEF y
<1> DEFINE z == a \o y
<1>9. /\ z \in Text /\ Len(z) = (m - 1) + Len(y)
      /\ \A k \in 1..(m - 1) : z[k] = a[k]
      /\ \A k \in 1..Len(y) : z[(m - 1) + k] = y[k]
  <2>1. /\ a \o y \in Text /\ Len(a \o y) = Len(a) + Len(y)
        /\ \A k \in 1..Len(a) : (a \o y)[k] = a[k]
        /\ \A k \in 1..Len(y) : (a \o y)[Len(a) + k] = y[k]
    BY <1>2, <1>8, OneAfterAnother
  <2> QED BY <1>2, <2>1
<1> HIDE DEF z
<1>10. Len(z) = L
  BY <1>1, <1>8, <1>9
<1>11. ASSUME NEW k \in 1..L PROVE z[k] = s[k]
  <2>1. CASE k < m
    <3>1. k \in 1..(m - 1)
      BY <1>1, <2>1
    <3> QED BY <1>6, <1>9, <3>1
  <2>2. CASE m <= k /\ k <= M
    <3> DEFINE j == (k - m) + 1
    <3>1. j \in 1..((M - m) + 1) /\ j \in 1..Len(y) /\ (m - 1) + j = k /\ (m + j) - 1 = k
      BY <1>1, <1>8, <2>2
    <3> HIDE DEF j
    <3>2. z[(m - 1) + j] = y[j] /\ y[j] = x[j] /\ x[j] = s[(m + j) - 1]
      BY <1>1, <1>8, <1>9, <3>1
    <3> QED BY <3>1, <3>2
  <2>3. CASE M < k
    <3> DEFINE j == k - M
               i == ((M - m) + 1) + j
    <3>1. j \in 1..(L - M) /\ M + j = k
      BY <1>1, <2>3
    <3>2. i \in 1..Len(y) /\ (m - 1) + i = k
      <4>1. /\ m \in Int /\ M \in Int /\ L \in Int /\ k \in Int /\ m >= 1 /\ m <= M
            /\ M < k /\ k <= L /\ Len(y) = ((M - m) + 1) + (L - M)
        BY <1>1, <1>8, <2>3
      <4> QED BY ONLY <4>1 DEF i, j
    <3> HIDE DEF j
    <3>3. y[i] = b[j] /\ b[j] = s[M + j]
      BY <1>7, <1>8, <3>1
    <3> HIDE DEF i
    <3>4. z[(m - 1) + i] = y[i]
      BY <1>9, <3>2
    <3> QED BY <3>1, <3>2, <3>3, <3>4
  <2> QED BY <1>1, <2>1, <2>2, <2>3
<1>12. s = z
  BY <1>9, <1>10, <1>11, Alike DEF L
<1> QED BY <1>4, <1>5, <1>12 DEF z, y, x

LEMMA AcceptedIsNotSpoiled ==
  ASSUME NEW t \in Text, Accepted(Trim(t), JsonAtoms)
  PROVE  ~Spoiled(t)
<1> DEFINE x == Trim(t)
<1>1. PICK k \in 1..Len(t) : t[k] \notin Blanks
  <2>1. Openers \cap Blanks = {}
    BY DEF Openers, Blanks, Newline
  <2> QED BY <2>1, FirstTaken
<1>2. PICK m, M : Trimmed(t, m, M)
  BY <1>1, TrimIs
<1>3. PICK a, b : Empty(a) /\ Empty(b) /\ t = a \o (x \o b)
  BY <1>2, TrimmedParts
<1>4. x \in Text /\ a \in Text /\ b \in Text
  BY <1>2, <1>3 DEF Trimmed, Empty
<1>5. PICK f : ReadScan(x, JsonAtoms, f)
  BY <1>4, ReadByScan
<1> DEFINE z == f[Len(x)]
<1>6. z.at = "end" /\ z \in Lexes
  <2>1. Len(x) \in 0..Len(x)
    BY <1>4 DEF Text
  <2> HIDE DEF x
  <2> QED BY <1>5, <2>1 DEF ReadScan, Accepted, x
<1>7. Run(Lexes, Reader(JsonAtoms), x, Start, z)
  BY <1>4, <1>5, ReadRuns
<1> HIDE DEF x, z
<1>8. Run(Lexes, Reader(JsonAtoms), a, Start, Start)
  BY <1>3, StartType, BlanksStay DEF InQuotes
<1>9. Run(Lexes, Reader(JsonAtoms), b, z, z)
  BY <1>3, <1>6, BlanksStay DEF InQuotes
<1>10. Run(Lexes, Reader(JsonAtoms), x \o b, Start, z) /\ x \o b \in Text
  BY <1>4, <1>7, <1>9, RunBoth, OneAfterAnother
<1>11. Run(Lexes, Reader(JsonAtoms), t, Start, z)
  <2> DEFINE w == x \o b
  <2> HIDE DEF w
  <2> QED BY <1>3, <1>4, <1>8, <1>10, RunBoth DEF w
<1>12. SUFFICES ASSUME Spoiled(t) PROVE FALSE
  OBVIOUS
<1>13. PICK y : Run(Lexes, Reader(JsonAtoms), t, Start, y) /\ y.at = "bad"
  BY <1>12 DEF Spoiled
<1>14. y = z
  BY <1>11, <1>13, OneRun
<1> QED BY <1>6, <1>13, <1>14

(* Nothing but blanks around it.                                           *)
LEMMA TrimBetween ==
  ASSUME NEW b, Empty(b), NEW d \in Text, Len(d) # 0, d[1] \notin Blanks, d[Len(d)] \notin Blanks,
         NEW e, Empty(e)
  PROVE  Trim(b \o (d \o e)) = d
<1> DEFINE de == d \o e
           s == b \o de
           n == Len(b)
           k == Len(d)
           x == Len(e)
<1>1. /\ s \in Text /\ Len(s) = n + (k + x) /\ n \in Nat /\ k \in Nat /\ x \in Nat
      /\ \A i \in 1..n : s[i] = b[i]
      /\ \A i \in 1..k : s[n + i] = d[i]
      /\ \A i \in 1..x : s[n + (k + i)] = e[i]
  <2>1. b \in Text /\ e \in Text
    BY DEF Empty
  <2>2. /\ de \in Text /\ Len(de) = k + x /\ k \in Nat /\ x \in Nat
        /\ \A i \in 1..k : de[i] = d[i]
        /\ \A i \in 1..x : de[k + i] = e[i]
    BY <2>1, OneAfterAnother
  <2> HIDE DEF de
  <2>3. /\ s \in Text /\ Len(s) = n + Len(de) /\ n \in Nat
        /\ \A i \in 1..n : s[i] = b[i]
        /\ \A i \in 1..Len(de) : s[n + i] = de[i]
    BY <2>1, <2>2, OneAfterAnother
  <2>4. (\A i \in 1..k : i \in 1..Len(de)) /\ \A i \in 1..x : k + i \in 1..Len(de)
    BY <2>2
  <2> HIDE DEF s, n, k, x
  <2> QED BY <2>2, <2>3, <2>4
<1>2. (\A i \in 1..n : b[i] \in Blanks) /\ \A i \in 1..x : e[i] \in Blanks
  BY DEF Empty
<1>3. k # 0 /\ d[1] \notin Blanks /\ d[k] \notin Blanks
  OBVIOUS
<1> HIDE DEF s, n, k, x
<1>4. n + 1 \in 1..Len(s) /\ s[n + 1] \notin Blanks /\ n + k \in 1..Len(s)
      /\ s[n + k] \notin Blanks
  BY <1>1, <1>3
<1>5. PICK m, M : Trimmed(s, m, M)
  BY <1>1, <1>4, TrimIs
<1>6. /\ m \in 1..Len(s) /\ M \in m..Len(s) /\ s[m] \notin Blanks /\ s[M] \notin Blanks
      /\ m <= n + 1 /\ n + k <= M
      /\ Trim(s) \in Text /\ Len(Trim(s)) = (M - m) + 1
      /\ \A i \in 1..((M - m) + 1) : Trim(s)[i] = s[(m + i) - 1]
  BY <1>4, <1>5 DEF Trimmed
<1>7. m = n + 1 /\ M = n + k
  <2>1. ~(m \in 1..n)
    BY <1>1, <1>2, <1>6
  <2>2. M <= n + k
    <3> SUFFICES ASSUME M > n + k PROVE FALSE
      BY <1>1, <1>6
    <3>1. M - (n + k) \in 1..x /\ n + (k + (M - (n + k))) = M
      BY <1>1, <1>6
    <3> QED BY <1>1, <1>2, <1>6, <3>1
  <2> QED BY <1>1, <1>6, <2>1, <2>2
<1>8. Len(Trim(s)) = k
  BY <1>1, <1>6, <1>7
<1>9. ASSUME NEW i \in 1..k PROVE Trim(s)[i] = d[i]
  <2>1. i \in 1..((M - m) + 1) /\ (m + i) - 1 = n + i
    BY <1>1, <1>7
  <2> QED BY <1>1, <1>6, <2>1
<1> QED BY <1>6, <1>8, <1>9, Alike DEF s, k

LEMMA PlainDone ==
  ASSUME NEW t, NEW l, NEW d, NEW here, NEW pl, Plain(t, l, d, here, pl, FALSE), ~Bracketed(l),
         LooseDocument(d), Accepted(Trim(t), JsonAtoms)
  PROVE  Trim(t) = d
<1>1. t \in Text /\ ~Spoiled(t)
  BY AcceptedIsNotSpoiled DEF Plain
<1>2. PICK e : Empty(l) /\ Empty(e) /\ t = l \o (d \o e)
  BY <1>1 DEF Plain
<1>3. PICK f : LooseScan(d, f)
  BY DEF LooseDocument
<1>4. d \in Text /\ Len(d) # 0 /\ d[1] \notin Blanks /\ d[Len(d)] \notin Blanks
  <2>1. Len(d) \in Nat \ {0}
    BY <1>3, ReadOf
  <2> QED BY <2>1 DEF LooseDocument
<1> QED BY <1>2, <1>4, TrimBetween

-----------------------------------------------------------------------------
(* Python's names.                                                         *)

LEMMA AfterNames ==
  ASSUME NEW st \in Lexes, NEW c, c \notin {"True", Apostrophe} \/ st.at \in InQuotes
  PROVE  After(st, c, JsonAtoms) = After(st, c, Atoms)
<1>1. CASE c \notin {"True", Apostrophe}
  <2>1. c \in JsonAtoms <=> c \in Atoms
    BY <1>1 DEF Atoms, JsonAtoms, PythonAtoms
  <2> QED BY <2>1 DEF After
<1>2. CASE st.at \in InQuotes
  BY <1>2 DEF After, InQuotes
<1> QED BY <1>1, <1>2

LEMMA AfterPythonNames ==
  ASSUME NEW st \in Lexes, NEW c, c = "true" => st.at \notin InQuotes,
         NEW x, x = IF c = "true" THEN "True" ELSE c
  PROVE  /\ After(st, x, PythonAtoms) = After(st, c, Atoms)
         /\ After(st, x, Atoms) = After(st, c, Atoms)
<1>1. CASE c # "true"
  <2>1. c \in PythonAtoms <=> c \in Atoms
    BY <1>1 DEF Atoms, JsonAtoms, PythonAtoms
  <2>2. x = c
    BY <1>1
  <2> QED BY <2>1, <2>2 DEF After
<1>2. CASE c = "true"
  <2>1. /\ x \in PythonAtoms /\ x \in Atoms /\ c \in Atoms
        /\ st.at \notin InQuotes
    BY <1>2 DEF Atoms, JsonAtoms, PythonAtoms
  <2>2. /\ x \notin Blanks /\ x \notin Openers /\ x \notin Closers /\ x # Quote /\ x # ","
        /\ c \notin Blanks /\ c \notin Openers /\ c \notin Closers /\ c # Quote /\ c # ","
        /\ x # Apostrophe /\ c # Apostrophe
    BY <1>2 DEF Blanks, Openers, Closers, Newline, Quote, Apostrophe
  <2>3. CASE st.at \in {"open", "comma"}
    BY <2>1, <2>2, <2>3 DEF After, InQuotes
  <2>4. CASE st.at \notin {"open", "comma"}
    BY <2>1, <2>2, <2>4 DEF After, InQuotes
  <2> QED BY <2>3, <2>4
<1> QED BY <1>1, <1>2

(* Whether the text is in a string before each of its characters.          *)
LEMMA InStringsIs ==
  ASSUME NEW s \in Text, NEW f, ReadScan(s, Atoms, f)
  PROVE  /\ DOMAIN s = 1..Len(s) /\ Len(s) \in Nat
         /\ \A i \in 1..Len(s) : i \in InStrings(s) <=> f[i - 1].at \in InQuotes
<1>1. DOMAIN s = 1..Len(s) /\ Len(s) \in Nat
  BY DEF Text
<1>2. Read(s, Atoms) = f
  BY DEF ReadScan
<1> QED BY <1>1, <1>2 DEF InStrings, Positions

(* What uses none of Python's names or strings is JSON.                    *)
LEMMA JsonNames ==
  ASSUME NEW d \in Text, NEW here, Run(Lexes, Reader(Atoms), d, Start, here), here.at = "end",
         \A i \in 1..Len(d) : d[i] \in {"True", Apostrophe} => i \in InStrings(d)
  PROVE  Accepted(d, JsonAtoms)
<1> DEFINE L == Len(d)
<1>1. L \in Nat
  BY DEF Text
<1>2. PICK f : ReadScan(d, Atoms, f)
  BY ReadByScan
<1>3. PICK g : ReadScan(d, JsonAtoms, g)
  BY ReadByScan
<1>4. \A i \in 1..L : d[i] \in {"True", Apostrophe} => f[i - 1].at \in InQuotes
  BY <1>2, InStringsIs
<1> DEFINE J == {n \in 0..L : f[n] = g[n]}
<1>5. 0 \in J
  BY <1>1, <1>2, <1>3 DEF ReadScan
<1>6. ASSUME NEW n \in 0..(L - 1), n \in J PROVE n + 1 \in J
  <2>1. n + 1 \in 1..L /\ n + 1 \in 0..L /\ n \in 0..L /\ (n + 1) - 1 = n
    BY <1>1
  <2>2. f[n + 1] = After(f[n], d[n + 1], Atoms) /\ f[n] \in Lexes
    BY <1>2, <2>1 DEF ReadScan
  <2>3. g[n + 1] = After(g[n], d[n + 1], JsonAtoms)
    BY <1>3, <2>1 DEF ReadScan
  <2>4. d[n + 1] \notin {"True", Apostrophe} \/ f[n].at \in InQuotes
    BY <1>4, <2>1
  <2>5. After(f[n], d[n + 1], JsonAtoms) = After(f[n], d[n + 1], Atoms)
    BY <2>2, <2>4, AfterNames
  <2> QED BY <1>6, <2>1, <2>2, <2>3, <2>5
<1>7. \A n \in 0..L : n \in J
  <2> HIDE DEF J, L
  <2> QED BY <1>1, <1>5, <1>6, BoundedInduction
<1>8. f[L] = g[L]
  BY <1>1, <1>7
<1>9. Read(d, JsonAtoms) = g /\ Read(d, Atoms) = f
  BY <1>2, <1>3 DEF ReadScan
<1>10. Read(d, Atoms)[Len(d)] = here
  BY ReadIsRun
<1> QED BY <1>8, <1>9, <1>10 DEF Accepted

(* With Python's names instead, it is read and means the same, unless a    *)
(* string has one.                                                         *)
LEMMA PythonNames ==
  ASSUME NEW d \in Text, NEW here, Run(Lexes, Reader(Atoms), d, Start, here), here.at = "end",
         \A i \in InStrings(d) : d[i] # "true"
  PROVE  /\ Accepted(Pythonish(d), PythonAtoms)
         /\ Meaning(Pythonish(d)) = Meaning(d)
<1> DEFINE L == Len(d)
           p == Pythonish(d)
<1>1. L \in Nat /\ DOMAIN d = 1..L /\ \A i \in 1..L : d[i] \in Letter
  BY ElementOfSeq DEF Text
<1>2. /\ p \in Text /\ Len(p) = L /\ DOMAIN p = 1..L
      /\ \A i \in 1..L : p[i] = IF d[i] = "true" THEN "True" ELSE d[i]
  <2>1. p = [i \in 1..L |-> IF d[i] = "true" THEN "True" ELSE d[i]]
    BY <1>1 DEF Pythonish
  <2>2. "True" \in Letter
    BY DEF Letter, PythonAtoms
  <2> HIDE DEF p, L
  <2>3. p \in [1..L -> Letter]
    BY <1>1, <2>1, <2>2
  <2>4. p \in Seq(Letter)
    BY <1>1, <2>3, SeqDef
  <2>5. Len(p) = L
    BY <1>1, <2>3, <2>4, LenProperties
  <2> QED BY <2>1, <2>3, <2>4, <2>5 DEF Text
<1>3. PICK f : ReadScan(d, Atoms, f)
  BY ReadByScan
<1>4. PICK g : ReadScan(p, PythonAtoms, g)
  BY <1>2, ReadByScan
<1>5. PICK h : ReadScan(p, Atoms, h)
  BY <1>2, ReadByScan
<1>6. /\ \A i \in 1..L : i \in InStrings(d) <=> f[i - 1].at \in InQuotes
      /\ \A i \in 1..Len(p) : i \in InStrings(p) <=> h[i - 1].at \in InQuotes
  <2> HIDE DEF p
  <2> QED BY <1>2, <1>3, <1>5, InStringsIs
<1> HIDE DEF p
<1> DEFINE J == {n \in 0..L : f[n] = g[n] /\ f[n] = h[n]}
<1>7. 0 \in J
  BY <1>1, <1>2, <1>3, <1>4, <1>5 DEF ReadScan
<1>8. ASSUME NEW n \in 0..(L - 1), n \in J PROVE n + 1 \in J
  <2>1. n + 1 \in 1..L /\ n + 1 \in 0..L /\ n \in 0..L /\ (n + 1) - 1 = n
    BY <1>1
  <2>2. f[n + 1] = After(f[n], d[n + 1], Atoms) /\ f[n] \in Lexes
    BY <1>3, <2>1 DEF ReadScan
  <2>3. g[n + 1] = After(g[n], p[n + 1], PythonAtoms)
    BY <1>2, <1>4, <2>1 DEF ReadScan
  <2>4. h[n + 1] = After(h[n], p[n + 1], Atoms)
    BY <1>2, <1>5, <2>1 DEF ReadScan
  <2>5. d[n + 1] = "true" => f[n].at \notin InQuotes
    BY <1>6, <2>1
  <2>6. p[n + 1] = IF d[n + 1] = "true" THEN "True" ELSE d[n + 1]
    BY <1>2, <2>1
  <2>7. /\ After(f[n], p[n + 1], PythonAtoms) = After(f[n], d[n + 1], Atoms)
        /\ After(f[n], p[n + 1], Atoms) = After(f[n], d[n + 1], Atoms)
    <3> DEFINE st == f[n]
               c == d[n + 1]
               x == p[n + 1]
    <3>1. st \in Lexes /\ (c = "true" => st.at \notin InQuotes)
          /\ x = IF c = "true" THEN "True" ELSE c
      BY <2>2, <2>5, <2>6
    <3> HIDE DEF st, c, x
    <3>2. After(st, x, PythonAtoms) = After(st, c, Atoms) /\ After(st, x, Atoms) = After(st, c, Atoms)
      BY <3>1, AfterPythonNames
    <3> QED BY <3>2 DEF st, c, x
  <2> QED BY <1>8, <2>1, <2>2, <2>3, <2>4, <2>7
<1>9. \A n \in 0..L : n \in J
  <2> HIDE DEF J, L
  <2> QED BY <1>1, <1>7, <1>8, BoundedInduction
<1>10. \A n \in 0..L : f[n] = g[n] /\ f[n] = h[n]
  BY <1>9
<1>11. Accepted(p, PythonAtoms)
  <2>1. Read(p, PythonAtoms) = g /\ Read(d, Atoms) = f
    BY <1>3, <1>4 DEF ReadScan
  <2>2. Read(d, Atoms)[Len(d)] = here
    BY ReadIsRun
  <2>3. L \in 0..L
    BY <1>1
  <2> QED BY <1>2, <1>10, <2>1, <2>2, <2>3 DEF Accepted
<1>12. ASSUME NEW i \in 1..L
       PROVE  (IF p[i] = "True" /\ i \notin InStrings(p) THEN "true" ELSE p[i])
            = (IF d[i] = "True" /\ i \notin InStrings(d) THEN "true" ELSE d[i])
  <2>1. i \in InStrings(p) <=> i \in InStrings(d)
    <3>1. i - 1 \in 0..L
      BY <1>1
    <3> QED BY <1>2, <1>6, <1>10, <3>1
  <2>2. p[i] = IF d[i] = "true" THEN "True" ELSE d[i]
    BY <1>2
  <2>3. d[i] = "true" => i \notin InStrings(d)
    OBVIOUS
  <2> QED BY <2>1, <2>2, <2>3
<1>13. Meaning(p) = Meaning(d)
  <2>1. Meaning(p) = [i \in 1..L |->
                        IF p[i] = "True" /\ i \notin InStrings(p) THEN "true" ELSE p[i]]
    BY <1>2 DEF Meaning
  <2>2. Meaning(d) = [i \in 1..L |->
                        IF d[i] = "True" /\ i \notin InStrings(d) THEN "true" ELSE d[i]]
    BY <1>1 DEF Meaning
  <2> HIDE DEF L
  <2> QED BY <1>12, <2>1, <2>2
<1> QED BY <1>11, <1>13 DEF p

(* A reply that the steps before the commas make s of, d with its trailing *)
(* commas.                                                                 *)
LEMMA LoadsMeansTheDocument ==
  ASSUME NEW t, NEW s, NEW l, NEW d, NEW K, NEW here, NEW pl,
         Plain(t, l, d, here, pl, FALSE), ~Bracketed(l), LooseDocument(d), ~Fragile(d),
         Balanced(Trim(WithoutComments(Unfenced(WithoutThoughts(t))))) = s,
         Commas(s, d, K, here, FALSE),
         Run(Lexes, Reader(Atoms), d, Start, here), here.at = "end"
  PROVE  Meaning(Loads(t)) = Meaning(d)
<1>1. d \in Text /\ DOMAIN d = 1..Len(d)
  <2>1. d \in Text
    BY DEF LooseDocument
  <2> QED BY <2>1 DEF Text
<1>2. CASE Accepted(Trim(t), JsonAtoms)
  <2>1. Trim(t) = d
    BY <1>2, PlainDone
  <2> QED BY <1>2, <2>1 DEF Loads
<1>3. CASE ~Accepted(Trim(t), JsonAtoms)
  <2>1. ~Lost(d)
    BY DEF Fragile, Lost
  <2>2. WithoutTrailingCommas(s) = d
    BY <2>1, CommasDone
  <2>3. Normalized(t) = d
    BY <2>2, TrimDocument DEF Normalized
  <2>4. CASE Accepted(d, JsonAtoms)
    BY <1>3, <2>3, <2>4 DEF Loads
  <2>5. CASE ~Accepted(d, JsonAtoms)
    <3>1. PICK i \in 1..Len(d) : d[i] \in {"True", Apostrophe} /\ i \notin InStrings(d)
      BY <1>1, <2>5, JsonNames
    <3>2. \A j \in InStrings(d) : d[j] # "true"
      BY <1>1, <3>1 DEF Fragile
    <3>3. /\ Accepted(Pythonish(d), PythonAtoms)
          /\ Meaning(Pythonish(d)) = Meaning(d)
      BY <1>1, <3>2, PythonNames
    <3> QED BY <1>3, <2>3, <2>5, <3>3 DEF Loads
  <2> QED BY <2>4, <2>5
<1> QED BY <1>2, <1>3

-----------------------------------------------------------------------------
(* Where the document is.                                                  *)

(* A mark of thoughts or fences in a string, or what the scanners look for *)
(* in one of Python's: nothing is said of such a document.                 *)
Risky(d) ==
  \/ \E i \in Positions(d, InQuotes) : d[i] \in {"fence", "<think>"}
  \/ \E i \in Positions(d, Singles) : d[i] \in Sought

(* What a reader that does not mind trailing commas makes of one.          *)
Now(here, extra) == IF extra THEN [here EXCEPT !.at = "comma"] ELSE here

Lexical(s, d, here, pl, extra) ==
  /\ s \in Text /\ d \in Text /\ here \in Lexes /\ extra \in BOOLEAN
  /\ pl \in {"before", "doc", "after"}
  /\ pl = "before" => here = Start /\ s = <<>> /\ d = <<>>
  /\ pl = "doc" => here.at \in Within
  /\ pl = "after" => here.at = "end"
  /\ extra => here.at = "value"
  /\ Run(Lexes, Reader(Atoms), d, Start, here)
  /\ Run(Lexes, LooseReader, s, Start, Now(here, extra))
  /\ pl # "before" => Len(s) # 0 /\ s[1] \notin Blanks /\ Len(d) # 0 /\ d[1] \notin Blanks
  /\ pl = "after" => s[Len(s)] \notin Blanks /\ d[Len(d)] \notin Blanks

LEMMA FirstAndLast ==
  ASSUME NEW s \in Text, NEW c \in Letter
  PROVE  /\ Len(s \o <<c>>) # 0 /\ (s \o <<c>>)[Len(s \o <<c>>)] = c
         /\ s = <<>> => (s \o <<c>>)[1] = c
         /\ Len(s) # 0 => (s \o <<c>>)[1] = s[1]
<1> DEFINE t == s \o <<c>>
<1>1. /\ t \in Text /\ Len(t) = Len(s) + 1 /\ Len(s) \in Nat /\ t[Len(s) + 1] = c
      /\ \A i \in 1..Len(s) : t[i] = s[i]
  BY OneMore
<1>2. Len(s) # 0 => 1 \in 1..Len(s)
  BY <1>1
<1>3. s = <<>> => Len(s) = 0
  BY EmptyText
<1> DEFINE n == Len(s)
<1> HIDE DEF n, t
<1>4. Len(t) # 0 /\ t[Len(t)] = c
  BY <1>1 DEF n
<1>5. s = <<>> => t[1] = c
  BY <1>1, <1>3
<1>6. Len(s) # 0 => t[1] = s[1]
  BY <1>1, <1>2
<1> QED BY <1>4, <1>5, <1>6 DEF t

(* Where the parser is after a character of the document.                  *)
LEMMA NextAt ==
  ASSUME NEW st \in Lexes, NEW c, NEW n, n = Loose(st, c), n.at # "bad"
  PROVE  /\ st.at = "start" /\ c \notin Blanks => n.at = "open"
         /\ st.at \in Within => /\ n.at \in Within \cup {"end"}
                                /\ n.at = "end" => c \notin Blanks
<1>1. ASSUME st.at = "start", c \notin Blanks PROVE n.at = "open"
  <2>1. Pushes(st, c, n)
    BY <1>1, StepOutside DEF Pops
  <2> QED BY <2>1 DEF Pushes
<1>2. ASSUME st.at \in Within
      PROVE  /\ n.at \in Within \cup {"end"}
             /\ n.at = "end" => c \notin Blanks
  <2>1. CASE st.at \in {"string", "escape"}
    <3>1. n.at \in {"value", "string", "escape"}
      BY <2>1, InString
    <3> QED BY <3>1 DEF Within
  <2>2. CASE st.at \notin {"string", "escape"}
    <3>1. CASE Pushes(st, c, n)
      <4>1. n.at = "open"
        BY <3>1 DEF Pushes
      <4> QED BY <4>1 DEF Within
    <3>2. CASE Pops(st, c, n)
      <4>1. c \in Closers /\ n.at \in {"end", "value"}
        BY <3>2 DEF Pops
      <4>2. Closers \cap Blanks = {}
        BY DEF Closers, Blanks, Newline
      <4> QED BY <4>1, <4>2 DEF Within
    <3>3. CASE Passes(st, c, n)
      <4>1. n.at \in {st.at, "string", "comma", "value"} \cup Singles
        BY <3>3 DEF Passes, Singles
      <4> QED BY <1>2, <4>1 DEF Within, Singles
    <3> QED BY <2>2, <3>1, <3>2, <3>3, StepOutside
  <2> QED BY <2>1, <2>2
<1> QED BY <1>1, <1>2

LEMMA LexicalNothing ==
  Lexical(<<>>, <<>>, Start, "before", FALSE)
<1>1. <<>> \in Text
  BY EmptyText
<1>2. /\ Run(Lexes, Reader(Atoms), <<>>, Start, Start)
      /\ Run(Lexes, LooseReader, <<>>, Start, Start)
  BY StartType, RunNothing
<1> QED BY <1>1, <1>2, StartType DEF Lexical, Now

LEMMA NowType ==
  ASSUME NEW here \in Lexes, NEW extra \in BOOLEAN, extra => here.at = "value"
  PROVE  /\ Now(here, extra) \in Lexes
         /\ extra => Now(here, extra).at = "comma"
<1>1. CASE extra
  BY <1>1 DEF Now, Lexes, Within
<1>2. CASE ~extra
  BY <1>2 DEF Now
<1> QED BY <1>1, <1>2

LEMMA NewlineStays ==
  ASSUME NEW here \in Lexes, here.at \notin InQuotes \cup {"bad"}
  PROVE  After(here, Newline, Atoms) = here
<1>1. Newline \in Blanks
  BY DEF Blanks
<1>2. After(here, Newline, JsonAtoms) = here
  BY <1>1, BlankStays
<1> QED BY <1>2, StricterReader

LEMMA NowNext ==
  ASSUME NEW here \in Lexes, NEW extra \in BOOLEAN, extra => here.at = "value",
         NEW c \in Letter, extra => c \in Closers \cup {Newline},
         NEW next, next = After(here, c, Atoms), next.at # "bad",
         here.at \in Singles => c \notin Sought
  PROVE  /\ Loose(Now(here, extra), c) = Now(next, extra /\ c = Newline)
         /\ Loose(Now(here, extra), c).at # "bad"
         /\ (extra /\ c = Newline) => next = here
<1>1. CASE ~extra
  <2>1. next = Loose(here, c)
    BY StrictIsLoose
  <2> QED BY <1>1, <2>1 DEF Now
<1>2. CASE extra /\ c = Newline
  <2> DEFINE q == Now(here, TRUE)
  <2>1. q \in Lexes /\ q.at = "comma"
    BY <1>2, NowType
  <2>2. next = here
    BY <1>2, CommaNext DEF CommaStep
  <2>3. Newline \notin Closers
    BY DEF Newline, Closers
  <2> HIDE DEF q
  <2>4. Loose(q, c) = After(q, Newline, Atoms)
    BY <1>2, <2>1, <2>3 DEF Loose, Singles
  <2>5. Loose(q, c) = q
    BY <2>1, <2>4, NewlineStays DEF InQuotes
  <2> QED BY <1>2, <2>1, <2>2, <2>5 DEF q
<1>3. CASE extra /\ c # Newline
  <2> DEFINE q == Now(here, TRUE)
  <2>1. q.at = "comma" /\ c \in Closers
    BY <1>3, NowType
  <2>2. [q EXCEPT !.at = "value"] = here
    <3>1. here.at = "value" /\ q = [here EXCEPT !.at = "comma"]
      BY <1>3 DEF Now
    <3>2. here = [owed |-> here.owed, at |-> here.at]
      BY DEF Lexes
    <3>3. q = [owed |-> here.owed, at |-> "comma"]
      BY <3>1, <3>2
    <3> QED BY <3>1, <3>2, <3>3
  <2> HIDE DEF q
  <2>3. Loose(q, c) = next
    BY <2>1, <2>2 DEF Loose, Singles
  <2> QED BY <1>3, <2>3 DEF q, Now
<1> QED BY <1>1, <1>2, <1>3

(* Where the next character is.                                            *)
Place(next) == IF next.at = "end" THEN "after" ELSE "doc"

LEMMA LexicalOn ==
  ASSUME NEW s, NEW d, NEW here, NEW pl, NEW extra, Lexical(s, d, here, pl, extra),
         pl # "after", NEW c \in Letter, c \in Blanks => c = Newline,
         ~(pl = "before" /\ c = Newline), extra => c \in Closers \cup {Newline},
         NEW next, next = After(here, c, Atoms), next.at # "bad",
         here.at \in Singles => c \notin Sought
  PROVE  Lexical(s \o <<c>>, d \o <<c>>, next, Place(next), extra /\ c = Newline)
<1> DEFINE t == s \o <<c>>
           e == d \o <<c>>
           more == extra /\ c = Newline
           q == Now(here, extra)
<1>1. /\ s \in Text /\ d \in Text /\ here \in Lexes /\ extra \in BOOLEAN
      /\ pl \in {"before", "doc", "after"} /\ more \in BOOLEAN
      /\ extra => here.at = "value"
  BY DEF Lexical
<1>2. /\ t \in Text /\ Len(t) = Len(s) + 1 /\ Len(s) \in Nat /\ t[Len(s) + 1] = c
      /\ \A i \in 1..Len(s) : t[i] = s[i]
      /\ e \in Text /\ Len(e) = Len(d) + 1 /\ Len(d) \in Nat /\ e[Len(d) + 1] = c
      /\ \A i \in 1..Len(d) : e[i] = d[i]
  BY <1>1, OneMore
<1>3. <<c>> \in Text
  BY OneMark
<1>20. /\ Len(t) # 0 /\ t[Len(t)] = c
       /\ s = <<>> => t[1] = c
       /\ Len(s) # 0 => t[1] = s[1]
       /\ Len(e) # 0 /\ e[Len(e)] = c
       /\ d = <<>> => e[1] = c
       /\ Len(d) # 0 => e[1] = d[1]
  BY <1>1, FirstAndLast
<1>4. next \in Lexes /\ Run(Lexes, Reader(Atoms), e, Start, next)
  <2>1. next \in Lexes /\ Reader(Atoms)[<<here, c>>] = next
    BY <1>1, ReaderStep
  <2>2. Run(Lexes, Reader(Atoms), <<c>>, here, next)
    BY <1>1, <2>1, RunCharacter
  <2>3. Run(Lexes, Reader(Atoms), d, Start, here)
    BY DEF Lexical
  <2> QED BY <1>1, <1>3, <2>1, <2>2, <2>3, RunBoth
<1>5. /\ Loose(q, c) = Now(next, more) /\ q \in Lexes /\ (more => next = here)
  <2>1. Loose(Now(here, extra), c) = Now(next, extra /\ c = Newline)
    <3>1. /\ here \in Lexes /\ extra \in BOOLEAN /\ (extra => here.at = "value")
          /\ c \in Letter /\ (extra => c \in Closers \cup {Newline})
          /\ next = After(here, c, Atoms) /\ next.at # "bad"
          /\ (here.at \in Singles => c \notin Sought)
      BY <1>1
    <3> QED BY ONLY <3>1, NowNext
  <2>3. (extra /\ c = Newline) => next = here
    BY <1>1, NowNext
  <2>2. q \in Lexes
    BY <1>1, NowType
  <2> QED BY <2>1, <2>2, <2>3
<1>6. more => next.at = "value"
  BY <1>1, <1>5
<1>7. Now(next, more) \in Lexes
  <2> HIDE DEF more
  <2> QED BY <1>1, <1>4, <1>6, NowType
<1>8. Run(Lexes, LooseReader, t, Start, Now(next, more))
  <2>1. LooseReader[<<q, c>>] = Now(next, more)
    <3> HIDE DEF q, more
    <3> QED BY <1>5 DEF LooseReader
  <2>2. Run(Lexes, LooseReader, <<c>>, q, Now(next, more))
    <3> HIDE DEF q, more
    <3> QED BY <1>5, <1>7, <2>1, RunCharacter
  <2>3. Run(Lexes, LooseReader, s, Start, q)
    BY DEF Lexical
  <2> QED BY <1>1, <1>3, <2>2, <2>3, RunBoth
<1>9. /\ next = Loose(here, c)
      /\ Atoms \in SUBSET Atoms /\ here.at # "bad"
  BY <1>1, StrictIsLoose
(* What the first character is, and the last.                              *)
<1>11. ASSUME pl = "before" PROVE next.at = "open" /\ c \notin Blanks /\ s = <<>> /\ d = <<>>
  <2>1. here = Start /\ here.at = "start" /\ s = <<>> /\ d = <<>>
    BY <1>11, StartType DEF Lexical
  <2>2. c \notin Blanks
    BY <1>11
  <2>4. next.at = "open"
    BY <1>1, <1>9, <2>1, <2>2, NextAt
  <2> QED BY <2>1, <2>2, <2>4
<1>12. ASSUME pl = "doc" PROVE /\ next.at \in Within \cup {"end"}
                               /\ next.at = "end" => c \notin Blanks
  <2>1. here.at \in Within
    BY <1>12 DEF Lexical
  <2> QED BY <1>1, <1>9, <2>1, NextAt
<1>13. next.at \in Within \cup {"end"} /\ (next.at = "end" => c \notin Blanks)
  <2>1. pl \in {"before", "doc"}
    BY <1>1
  <2> QED BY <1>11, <1>12, <2>1 DEF Within
<1>14. /\ Place(next) \in {"doc", "after"}
       /\ Place(next) = "doc" => next.at \in Within
       /\ Place(next) = "after" => next.at = "end" /\ c \notin Blanks
  <2>1. CASE next.at = "end"
    BY <1>13, <2>1 DEF Place
  <2>2. CASE next.at \in Within
    <3>1. next.at # "start" /\ next.at # "end"
      BY <2>2 DEF Within, Singles
    <3> QED BY <2>2, <3>1 DEF Place
  <2> QED BY <1>13, <2>1, <2>2
<1>15. Len(t) # 0 /\ t[1] \notin Blanks /\ Len(e) # 0 /\ e[1] \notin Blanks
  <2>1. CASE pl = "before"
    <3>1. t[1] = c /\ e[1] = c /\ Len(t) # 0 /\ Len(e) # 0
      BY <1>11, <1>20, <2>1
    <3> QED BY <1>11, <2>1, <3>1
  <2>2. CASE pl = "doc"
    <3>1. Len(s) # 0 /\ s[1] \notin Blanks /\ Len(d) # 0 /\ d[1] \notin Blanks
      BY <2>2 DEF Lexical
    <3>2. t[1] = s[1] /\ e[1] = d[1] /\ Len(t) # 0 /\ Len(e) # 0
      BY <1>20, <3>1
    <3> QED BY <3>1, <3>2
  <2> QED BY <1>1, <2>1, <2>2
<1>16. t[Len(t)] = c /\ e[Len(e)] = c
  BY <1>20
<1> HIDE DEF t, e, more
<1>17. Lexical(t, e, next, Place(next), more)
  <2>1. Place(next) # "before"
    BY <1>14
  <2> QED BY <1>1, <1>2, <1>4, <1>6, <1>8, <1>14, <1>15, <1>16, <2>1 DEF Lexical
<1> QED BY <1>17 DEF t, e, more

LEMMA LexicalDone ==
  ASSUME NEW s, NEW d, NEW here, NEW extra, Lexical(s, d, here, "after", extra), ~Risky(d)
  PROVE  /\ LooseDocument(s) /\ LooseDocument(d) /\ ~extra /\ here.at = "end"
         /\ Run(Lexes, Reader(Atoms), d, Start, here)
<1>1. /\ s \in Text /\ d \in Text /\ here.at = "end" /\ ~extra
      /\ Run(Lexes, Reader(Atoms), d, Start, here)
      /\ s[1] \notin Blanks /\ d[1] \notin Blanks
      /\ s[Len(s)] \notin Blanks /\ d[Len(d)] \notin Blanks
  BY DEF Lexical
<1>2. Run(Lexes, LooseReader, s, Start, here)
  BY <1>1 DEF Lexical, Now
<1>3. PICK f : LooseScan(s, f) /\ f[Len(s)] = here
  BY <1>1, <1>2, LooseIsRun
<1>4. LooseDocument(s)
  BY <1>1, <1>3 DEF LooseDocument
<1>5. PICK g : ReadScan(d, Atoms, g)
  BY <1>1, ReadByScan
<1>6. g[Len(d)] = here
  BY <1>1, <1>5, ReadIsRun DEF ReadScan
<1>7. LooseScan(d, g)
  <2>1. ASSUME NEW i \in 1..Len(d), g[i - 1].at \in Singles PROVE d[i] \notin Sought
    <3>1. Read(d, Atoms) = g /\ DOMAIN d = 1..Len(d)
      BY <1>1, <1>5 DEF ReadScan, Text
    <3>2. i \in Positions(d, Singles)
      BY <2>1, <3>1 DEF Positions
    <3> QED BY <3>2 DEF Risky
  <2> QED BY <1>1, <1>5, <1>6, <2>1, ReadIsLoose
<1>8. LooseDocument(d)
  BY <1>1, <1>6, <1>7 DEF LooseDocument
<1> QED BY <1>1, <1>4, <1>8

LEMMA CommaAfterValue ==
  ASSUME NEW here \in Lexes, here.at = "value"
  PROVE  Loose(here, ",") = Now(here, TRUE) /\ Now(here, TRUE).at = "comma"
         /\ Now(here, TRUE) \in Lexes
<1>1. Loose(here, ",") = After(here, ",", Atoms)
  BY DEF Loose, Singles
<1>2. After(here, ",", Atoms) = [here EXCEPT !.at = "comma"]
  BY DEF After, InQuotes, Apostrophe, Blanks, Openers, Closers, Atoms, JsonAtoms, PythonAtoms, Newline, Quote, Backslash
<1>3. [here EXCEPT !.at = "comma"].at = "comma"
  BY DEF Lexes
<1> QED BY <1>1, <1>2, <1>3, LooseType DEF Now

LEMMA LexicalTrailing ==
  ASSUME NEW s, NEW d, NEW here, here.at = "value", Lexical(s, d, here, "doc", FALSE)
  PROVE  Lexical(s \o <<",">>, d, here, "doc", TRUE)
<1> DEFINE c == ","
           t == s \o <<c>>
<1>1. s \in Text /\ d \in Text /\ here \in Lexes /\ here.at \in Within
      /\ Run(Lexes, Reader(Atoms), d, Start, here)
      /\ Len(s) # 0 /\ s[1] \notin Blanks /\ Len(d) # 0 /\ d[1] \notin Blanks
  BY DEF Lexical
<1>2. Run(Lexes, LooseReader, s, Start, here)
  BY DEF Lexical, Now
<1>3. c \in Letter /\ <<c>> \in Text
  <2>1. c \in Letter
    BY DEF Letter
  <2> QED BY <2>1, OneMark
<1>4. Loose(here, c) = Now(here, TRUE) /\ Now(here, TRUE) \in Lexes
  BY <1>1, CommaAfterValue
<1> HIDE DEF c
<1>5. LooseReader[<<here, c>>] = Now(here, TRUE)
  BY <1>1, <1>3, <1>4 DEF LooseReader
<1>6. Run(Lexes, LooseReader, <<c>>, here, Now(here, TRUE))
  BY <1>1, <1>4, <1>5, RunCharacter
<1>7. Run(Lexes, LooseReader, t, Start, Now(here, TRUE)) /\ t \in Text
  BY <1>1, <1>2, <1>3, <1>6, RunBoth, OneAfterAnother
<1>8. Len(t) # 0 /\ t[1] \notin Blanks
  BY <1>1, <1>3, FirstAndLast
<1> HIDE DEF t
<1>9. Lexical(t, d, here, "doc", TRUE)
  BY <1>1, <1>7, <1>8 DEF Lexical
<1> QED BY <1>9 DEF t, c

-----------------------------------------------------------------------------
(* What holds of a reply while it is written.                              *)

ToldBy(t, told) ==
  /\ t \in Text /\ told \in Text
  /\ Run(Thinking, Unthinker, t, Unthought, Told(told))

LEMMA ToldNothing ==
  ToldBy(<<>>, <<>>)
<1>1. Unthought \in Thinking /\ Unthought = Told(<<>>)
  BY EmptyText DEF Unthought, Thinking, Told
<1> QED BY <1>1, EmptyText, RunNothing DEF ToldBy

LEMMA ToldByOn ==
  ASSUME NEW t, NEW told, ToldBy(t, told), NEW s, Lacks(s, {"<think>"})
  PROVE  ToldBy(t \o s, told \o s)
<1>1. t \in Text /\ told \in Text /\ s \in Text
  BY DEF ToldBy, Lacks
<1>2. Run(Thinking, Unthinker, s, Told(told), Told(told \o s))
  BY <1>1, SaidIsTold
<1>3. Run(Thinking, Unthinker, t \o s, Unthought, Told(told \o s))
  BY <1>1, <1>2, RunBoth DEF ToldBy
<1> QED BY <1>1, <1>3, OneAfterAnother DEF ToldBy

LEMMA ToldByThought ==
  ASSUME NEW t, NEW told, ToldBy(t, told), NEW s, Lacks(s, {"</think>"})
  PROVE  ToldBy(t \o (<<"<think>">> \o s \o <<"</think>">>), told)
<1> DEFINE b == <<"<think>">> \o s \o <<"</think>">>
<1>1. t \in Text /\ told \in Text
  BY DEF ToldBy
<1>2. b \in Text /\ Run(Thinking, Unthinker, b, Told(told), Told(told))
  BY <1>1, ThoughtIsNotTold
<1> HIDE DEF b
<1>3. Run(Thinking, Unthinker, t \o b, Unthought, Told(told))
  BY <1>1, <1>2, RunBoth DEF ToldBy
<1>4. ToldBy(t \o b, told)
  BY <1>1, <1>2, <1>3, OneAfterAnother DEF ToldBy
<1> QED BY <1>4 DEF b

(* Harmless prose does not begin with a bracket.                           *)
LEMMA CleanBracket ==
  ASSUME NEW l \in Text, Bracketed(l)
  PROVE  ~Clean(l)
<1> SUFFICES ASSUME Clean(l) PROVE FALSE
  OBVIOUS
<1>1. PICK m \in 1..Len(l) : l[m] \in Openers /\ \A k \in 1..(m - 1) : l[k] \in Blanks
  BY DEF Bracketed
<1>2. PICK c : c = l[m]
  OBVIOUS
<1>3. PICK p, q : /\ p \in Text /\ q \in Text /\ l = p \o (<<c>> \o q)
                  /\ \A k \in 1..Len(p) : p[k] \in Blanks
  <2> DEFINE p == SubSeq(l, 1, m - 1)
             q == SubSeq(l, m + 1, Len(l))
  <2>1. /\ p \in Text /\ q \in Text /\ l = p \o (<<l[m]>> \o q)
        /\ \A k \in 1..Len(p) : k < m /\ k \in 1..Len(l) /\ p[k] = l[k]
    BY Split
  <2> HIDE DEF p, q
  <2>2. ASSUME NEW k \in 1..Len(p) PROVE p[k] \in Blanks
    <3>1. k < m /\ k \in 1..Len(l) /\ p[k] = l[k]
      BY <2>1
    <3>2. k \in 1..(m - 1)
      BY <3>1
    <3> QED BY <1>1, <3>1, <3>2
  <2> QED BY <1>2, <2>1, <2>2
<1>4. /\ c \in Letter /\ c \in Openers /\ c \notin {Quote, "/"}
      /\ \A x \in Blanks : x \notin {Quote, "/"}
  <2>1. c \in Openers
    BY <1>1, <1>2
  <2> QED BY <2>1 DEF Openers, Letter, Quote, Blanks, Newline
<1> DEFINE J == {y \in Uncommented : y.at = "code"}
           C == Blanks \cap Letter
<1>5. ASSUME NEW y \in J, NEW x \in Letter, x \notin {Quote, "/"}
      PROVE  /\ Uncommenter[<<y, x>>] = [out |-> Append(y.out, x), at |-> "code"]
             /\ Uncommenter[<<y, x>>] \in J
             /\ y.out \in Text
  <2>1. y.out \in Text /\ y.at = "code" /\ y \in Uncommented
    BY DEF Uncommented
  <2>2. Uncommenter[<<y, x>>] = Uncomment(y, x)
    BY <2>1 DEF Uncommenter
  <2>3. Uncomment(y, x) = [out |-> Append(y.out, x), at |-> "code"]
    BY <1>5, <2>1 DEF Uncomment, AtQuote
  <2>4. Append(y.out, x) \in Text
    BY <2>1 DEF Text
  <2> QED BY <2>1, <2>2, <2>3, <2>4 DEF Uncommented
<1>6. Unread \in J /\ J \in SUBSET Uncommented
  BY EmptyText DEF Unread, Uncommented
<1>7. PICK y \in J : Run(Uncommented, Uncommenter, p, Unread, y)
  <2>1. \A k \in 1..Len(p) : p[k] \in C
    BY <1>3, ElementOfSeq DEF Text
  <2>2. \A z \in J, x \in C : Uncommenter[<<z, x>>] \in J
    BY <1>4, <1>5
  <2> HIDE DEF J, C
  <2> QED BY <1>3, <1>6, <2>1, <2>2, RunWithin
<1>8. PICK w : /\ w = [out |-> Append(y.out, c), at |-> "code"] /\ w \in Uncommented
               /\ Run(Uncommented, Uncommenter, <<c>>, y, w) /\ y.out \in Text
  <2>1. /\ Uncommenter[<<y, c>>] = [out |-> Append(y.out, c), at |-> "code"]
        /\ Uncommenter[<<y, c>>] \in Uncommented /\ y.out \in Text /\ y \in Uncommented
    BY <1>4, <1>5
  <2> QED BY <2>1, RunCharacter
<1>9. PICK z \in Uncommented : /\ Run(Uncommented, Uncommenter, q, w, z)
                               /\ Extends(w.out, z.out)
  BY <1>3, <1>8, Extending
<1>10. Run(Uncommented, Uncommenter, l, Unread, z)
  <2>1. <<c>> \in Text /\ <<c>> \o q \in Text
    BY <1>3, <1>4, OneMark, OneAfterAnother
  <2>2. Run(Uncommented, Uncommenter, <<c>> \o q, y, z)
    BY <1>3, <1>8, <1>9, <2>1, RunBoth
  <2> HIDE DEF J
  <2> QED BY <1>3, <1>7, <2>1, <2>2, RunBoth
<1>11. Opened(z)
  <2>1. Opened(Scanned(l)) /\ Run(Uncommented, Uncommenter, l, Unread, Scanned(l))
    BY CleanOpens
  <2> QED BY <1>10, <2>1, OneRun
<1>12. /\ Len(y.out) + 1 \in 1..Len(w.out) /\ w.out[Len(y.out) + 1] = c
       /\ Len(y.out) + 1 \in 1..Len(z.out)
  <2> DEFINE o == y.out
  <2>1. /\ w.out = Append(o, c) /\ o \in Text
    BY <1>8
  <2> HIDE DEF o
  <2>2. Len(w.out) = Len(o) + 1 /\ Len(o) \in Nat /\ w.out[Len(o) + 1] = c
    BY <1>4, <2>1, AppendProperties DEF Text
  <2>3. Len(w.out) <= Len(z.out) /\ Len(z.out) \in Nat
    BY <1>9 DEF Extends
  <2> QED BY <2>2, <2>3 DEF o
<1> QED BY <1>4, <1>9, <1>11, <1>12 DEF Opened, Lacks, Extends

LEMMA HarmlessStart ==
  ASSUME lead \in Text, Harmless
  PROVE  ~Bracketed(lead)
<1>1. CASE Clean(lead)
  BY <1>1, CleanBracket
<1>2. CASE Trim(lead)[1] \notin Openers
  <2> SUFFICES ASSUME Bracketed(lead) PROVE FALSE
    OBVIOUS
  <2>1. PICK i \in 1..Len(lead) : lead[i] \in Openers /\ \A k \in 1..(i - 1) : lead[k] \in Blanks
    BY DEF Bracketed
  <2>2. lead[i] \notin Blanks
    BY <2>1 DEF Openers, Blanks, Newline
  <2>3. PICK m, M : Trimmed(lead, m, M)
    BY <2>2, TrimIs
  <2>4. /\ m \in 1..Len(lead) /\ M \in m..Len(lead) /\ lead[m] \notin Blanks /\ m <= i
        /\ \A k \in 1..((M - m) + 1) : Trim(lead)[k] = lead[(m + k) - 1]
    BY <2>2, <2>3 DEF Trimmed
  <2>5. m = i
    <3>1. ~(m \in 1..(i - 1))
      BY <2>1, <2>4
    <3> QED BY <2>4, <3>1
  <2>6. 1 \in 1..((M - m) + 1) /\ (m + 1) - 1 = m
    BY <2>4
  <2>7. Trim(lead)[1] = lead[i]
    BY <2>4, <2>5, <2>6
  <2> QED BY <1>2, <2>1, <2>7
<1> QED BY <1>1, <1>2 DEF Harmless

(* What makes a document risky stays.                                      *)
LEMMA RiskyOn ==
  ASSUME NEW d \in Text, NEW c \in Letter, Risky(d)
  PROVE  Risky(d \o <<c>>)
<1>1. \A i \in 1..Len(d) : (d \o <<c>>)[i] = d[i]
  BY OneMore
<1>2. ASSUME NEW where, NEW i \in Positions(d, where)
      PROVE  i \in Positions(d \o <<c>>, where) /\ (d \o <<c>>)[i] = d[i]
  BY <1>1, PositionsOn
<1> QED BY <1>2 DEF Risky

LEMMA RiskyHere ==
  ASSUME NEW d \in Text, NEW c \in Letter, ~Risky(d \o <<c>>),
         NEW here \in Lexes, Run(Lexes, Reader(Atoms), d, Start, here),
         After(here, c, Atoms).at # "bad"
  PROVE  /\ c \notin {"fence", "<think>"}
         /\ here.at \in Singles => c \notin Sought
<1> DEFINE e == d \o <<c>>
           n == Len(d) + 1
<1>1. e[n] = c
  BY OneMore
<1>2. \A where : n \in Positions(e, where) <=> here.at \in where
  BY PositionsOn
<1> HIDE DEF e, n
<1>3. /\ here.at \in InQuotes => c \notin {"fence", "<think>"}
      /\ here.at \in Singles => c \notin Sought
  BY <1>1, <1>2 DEF Risky, e
<1>4. ASSUME here.at \notin InQuotes, c \in {"fence", "<think>"} PROVE FALSE
  <2>1. /\ c \notin Blanks /\ c \notin Openers /\ c \notin Closers /\ c \notin Atoms
        /\ c # Quote /\ c # ","
    BY <1>4 DEF Blanks, Openers, Closers, Atoms, JsonAtoms, PythonAtoms, Quote, Newline, Apostrophe
  <2>2. After(here, c, Atoms) = [here EXCEPT !.at = "bad"]
    BY <1>4, <2>1 DEF After, InQuotes
  <2> QED BY <2>2 DEF Lexes
<1> QED BY <1>3, <1>4


(* told is t without its thoughts, b of it between the prose l and u; s is *)
(* what the scanner leaves of b: the document with its trailing commas,    *)
(* those at K.                                                             *)
Parts(t, l, u, d, here, pl, extra, b, s, K) ==
  /\ ToldBy(t, l \o (b \o u))
  /\ l \in Text /\ u \in Text /\ Lacks(b, {"fence"})
  /\ pl = "before" => b = <<>>
  /\ pl # "after" => u = <<>>
  /\ pl # "before" => Reads(b, s, Now(here, extra).at)
  /\ Lexical(s, d, here, pl, extra)
  /\ Commas(s, d, K, here, extra)
  /\ Plain(t, l, d, here, pl, extra)

Recoverable(t, l, u, d, here, pl, extra) ==
  /\ l \in Text /\ u \in Text /\ d \in Text
  /\ Risky(d) \/ \E b, s, K : Parts(t, l, u, d, here, pl, extra, b, s, K)

LEMMA RecoverableNothing ==
  Recoverable(<<>>, <<>>, <<>>, <<>>, Start, "before", FALSE)
<1>1. <<>> \in Text /\ Lacks(<<>>, {"fence"})
  BY EmptyText DEF Lacks
<1>2. ToldBy(<<>>, <<>> \o (<<>> \o <<>>))
  <2>1. <<>> \o (<<>> \o <<>>) = <<>>
    BY <1>1, ConcatText
  <2> QED BY <2>1, ToldNothing
<1>3. Parts(<<>>, <<>>, <<>>, <<>>, Start, "before", FALSE, <<>>, <<>>, {})
  BY <1>1, <1>2, LexicalNothing, CommasNothing, PlainNothing DEF Parts
<1> QED BY <1>1, <1>3 DEF Recoverable

LEMMA RecoverableDone ==
  ASSUME NEW t, NEW d, NEW here, NEW extra,
         Recoverable(t, lead, tail, d, here, "after", extra), ~Fragile(d), Harmless
  PROVE  Meaning(Loads(t)) = Meaning(d)
<1>1. ~Risky(d)
  BY DEF Fragile, Risky, InStrings, Singles
<1>2. PICK b, s, K : Parts(t, lead, tail, d, here, "after", extra, b, s, K)
  BY <1>1 DEF Recoverable
<1>3. /\ LooseDocument(s) /\ LooseDocument(d) /\ ~extra /\ here.at = "end"
      /\ Run(Lexes, Reader(Atoms), d, Start, here)
  BY <1>1, <1>2, LexicalDone DEF Parts
<1>4. extra = FALSE
  BY <1>2, <1>3 DEF Parts, Lexical
<1>5. PICK told : told = lead \o (b \o tail)
  OBVIOUS
<1>6. WithoutThoughts(t) = told
  <2>1. t \in Text /\ told \in Text /\ Run(Thinking, Unthinker, t, Unthought, Told(told))
    BY <1>2, <1>5 DEF Parts, ToldBy
  <2>2. WithoutThoughts(t) = Told(told).out \o Told(told).held
    BY <2>1, ThoughtsAreRun
  <2>3. told \o <<>> = told
    BY <2>1, ConcatText
  <2> QED BY <2>2, <2>3 DEF Told
<1>7. lead \in Text /\ tail \in Text /\ Lacks(b, {"fence"})
      /\ Reads(b, s, Now(here, extra).at)
  BY <1>2 DEF Parts
<1>8. PICK p \in Text, v \in Text : Clean(p) /\ Unfenced(told) = p \o (b \o v)
  BY <1>5, <1>7, HarmlessProse
<1>9. Balanced(Trim(WithoutComments(Unfenced(told)))) = s
  BY <1>3, <1>7, <1>8, ReadsTheDocument
<1>10. /\ Plain(t, lead, d, here, "after", FALSE) /\ Commas(s, d, K, here, FALSE)
       /\ ~Bracketed(lead)
  BY <1>2, <1>4, <1>7, HarmlessStart DEF Parts
<1> QED BY <1>3, <1>6, <1>9, <1>10, LoadsMeansTheDocument

-----------------------------------------------------------------------------
(* It holds after each step of the writer.                                 *)

LEMMA LexicalBefore ==
  ASSUME NEW s, NEW d, NEW here, NEW extra, Lexical(s, d, here, "before", extra)
  PROVE  /\ here = Start /\ s = <<>> /\ d = <<>> /\ extra = FALSE
         /\ Now(here, extra).at = "start"
<1>1. here = Start /\ s = <<>> /\ d = <<>> /\ (extra => here.at = "value") /\ extra \in BOOLEAN
  BY DEF Lexical
<1>2. extra = FALSE
  BY <1>1, StartType
<1>3. Now(here, extra).at = "start"
  BY <1>1, <1>2, StartType DEF Now
<1> QED BY <1>1, <1>2, <1>3

(* What is not JSON where it is, of more than one character.               *)
LEMMA PlainSpoiled ==
  ASSUME NEW t, NEW l, NEW d, NEW here \in Lexes, NEW pl, NEW extra,
         Plain(t, l, d, here, pl, extra),
         NEW c \in Letter, Spoils(c, here, extra),
         NEW r \in Text, NEW s, s = <<c>> \o r, NEW e \in Text
  PROVE  Plain(t \o s, l, e, here, pl, extra)
<1>1. t \in Text /\ l \in Text /\ <<c>> \in Text /\ s \in Text
  BY OneMark, OneAfterAnother DEF Plain
<1>2. t \o s \in Text
  BY <1>1, OneAfterAnother
<1>3. CASE Bracketed(l)
  BY <1>1, <1>2, <1>3 DEF Plain
<1>4. CASE ~Bracketed(l)
  <2>1. Spoiled(t \o s)
    BY <1>4, SpoiledBy
  <2> QED BY <1>1, <1>2, <2>1 DEF Plain
<1> QED BY <1>3, <1>4

(* A character of the prose.                                               *)
LEMMA RecoverableLead ==
  ASSUME NEW t, NEW l, NEW u, NEW d, NEW here, NEW extra,
         Recoverable(t, l, u, d, here, "before", extra),
         NEW c \in Letter, c # "<think>"
  PROVE  Recoverable(t \o <<c>>, l \o <<c>>, u, d, here, "before", extra)
<1>0. l \o <<c>> \in Text /\ u \in Text /\ d \in Text
  BY OneMore DEF Recoverable
<1>1. CASE Risky(d)
  BY <1>0, <1>1 DEF Recoverable
<1>2. CASE ~Risky(d)
  <2>1. PICK b, s, K : Parts(t, l, u, d, here, "before", extra, b, s, K)
    BY <1>2 DEF Recoverable
  <2>2. here = Start /\ s = <<>> /\ d = <<>> /\ extra = FALSE /\ Now(here, extra).at = "start"
    <3>1. Lexical(s, d, here, "before", extra)
      BY <2>1 DEF Parts
    <3> QED BY ONLY <3>1, LexicalBefore
  <2>3. b = <<>> /\ u = <<>> /\ l \in Text /\ <<>> \in Text
    BY <2>1, EmptyText DEF Parts
  <2>4. Lacks(<<c>>, {"<think>"}) /\ l \o <<c>> \in Text
    BY <2>3, OneMark, OneAfterAnother
  <2>5. l \o (b \o u) = l /\ (l \o <<c>>) \o (b \o u) = l \o <<c>>
    <3>1. <<>> \o <<>> = <<>>
      BY <2>3, ConcatText
    <3> QED BY <2>3, <2>4, <3>1, ConcatText
  <2>6. ToldBy(t \o <<c>>, (l \o <<c>>) \o (b \o u))
    <3>1. ToldBy(t, l)
      BY <2>1, <2>5 DEF Parts
    <3> QED BY <2>4, <2>5, <3>1, ToldByOn
  <2>7. Plain(t \o <<c>>, l \o <<c>>, d, here, "before", extra)
    <3>1. Plain(t, l, <<>>, Start, "before", FALSE)
      BY <2>1, <2>2 DEF Parts
    <3> QED BY <2>2, <3>1, PlainBefore
  <2>8. Parts(t \o <<c>>, l \o <<c>>, u, d, here, "before", extra, b, s, K)
    BY <2>1, <2>4, <2>6, <2>7 DEF Parts
  <2> QED BY <1>0, <2>8 DEF Recoverable
<1> QED BY <1>1, <1>2

LEMMA RecoverableTail ==
  ASSUME NEW t, NEW l, NEW u, NEW d, NEW here, NEW extra,
         Recoverable(t, l, u, d, here, "after", extra),
         NEW c \in Letter, c # "<think>"
  PROVE  Recoverable(t \o <<c>>, l, u \o <<c>>, d, here, "after", extra)
<1>0. l \in Text /\ u \o <<c>> \in Text /\ d \in Text
  BY OneMore DEF Recoverable
<1>1. CASE Risky(d)
  BY <1>0, <1>1 DEF Recoverable
<1>2. CASE ~Risky(d)
  <2>1. PICK b, s, K : Parts(t, l, u, d, here, "after", extra, b, s, K)
    BY <1>2 DEF Recoverable
  <2>2. here \in Lexes /\ here.at = "end" /\ extra = FALSE
    <3>1. here \in Lexes /\ here.at = "end" /\ (extra => here.at = "value") /\ extra \in BOOLEAN
      BY <2>1 DEF Parts, Lexical
    <3> QED BY <3>1
  <2>3. b \in Text /\ u \in Text /\ l \in Text
    BY <2>1 DEF Parts, Lacks
  <2>4. Lacks(<<c>>, {"<think>"}) /\ <<c>> \in Text
    BY OneMark
  <2>5. u \o <<c>> \in Text
    BY <2>3, <2>4, OneAfterAnother
  <2>6. (l \o (b \o u)) \o <<c>> = l \o (b \o (u \o <<c>>))
    <3>1. Regroups(l, b, u, <<c>>)
      BY <2>3, <2>4, RegroupFour
    <3> QED BY <3>1 DEF Regroups
  <2>7. ToldBy(t \o <<c>>, l \o (b \o (u \o <<c>>)))
    <3>1. ToldBy(t, l \o (b \o u))
      BY <2>1 DEF Parts
    <3> QED BY <2>4, <2>6, <3>1, ToldByOn
  <2>8. Plain(t \o <<c>>, l, d, here, "after", extra)
    <3>1. Plain(t, l, d, here, "after", FALSE)
      BY <2>1, <2>2 DEF Parts
    <3> QED BY <2>2, <3>1, PlainAfter
  <2>9. Parts(t \o <<c>>, l, u \o <<c>>, d, here, "after", extra, b, s, K)
    BY <2>1, <2>5, <2>7, <2>8 DEF Parts
  <2> QED BY <1>0, <2>9 DEF Recoverable
<1> QED BY <1>1, <1>2

(* A thought, before the document or after it.                             *)
LEMMA RecoverableThought ==
  ASSUME NEW t, NEW l, NEW u, NEW d, NEW here, NEW pl, pl # "doc", NEW extra,
         Recoverable(t, l, u, d, here, pl, extra), NEW s, Lacks(s, {"</think>"})
  PROVE  Recoverable(t \o (<<"<think>">> \o s \o <<"</think>">>), l, u, d, here, pl, extra)
<1> DEFINE z == <<"<think>">> \o s \o <<"</think>">>
<1>1. CASE Risky(d)
  BY <1>1 DEF Recoverable
<1>2. CASE ~Risky(d)
  <2>1. PICK b, w, K : Parts(t, l, u, d, here, pl, extra, b, w, K)
    BY <1>2 DEF Recoverable
  <2>2. ToldBy(t \o z, l \o (b \o u))
    BY <2>1, ToldByThought DEF Parts
  <2>3. /\ "<think>" \in Letter /\ "</think>" \in Letter /\ "<think>" \notin Openers \cup Blanks
    BY DEF Letter, Openers, Blanks, Newline
  <2>4. here \in Lexes /\ extra = FALSE /\ d \in Text /\ (here = Start \/ here.at = "end")
    <3>1. CASE pl = "before"
      <4>1. Lexical(w, d, here, "before", extra)
        BY <2>1, <3>1 DEF Parts
      <4>2. here = Start /\ w = <<>> /\ d = <<>> /\ extra = FALSE /\ Now(here, extra).at = "start"
        BY ONLY <4>1, LexicalBefore
      <4> QED BY <4>1, <4>2 DEF Lexical
    <3>2. CASE pl = "after"
      <4>1. here \in Lexes /\ here.at = "end" /\ (extra => here.at = "value") /\ extra \in BOOLEAN
            /\ d \in Text
        BY <2>1, <3>2 DEF Parts, Lexical
      <4> QED BY <4>1
    <3>3. pl \in {"before", "doc", "after"}
      BY <2>1 DEF Parts, Lexical
    <3> QED BY <3>1, <3>2, <3>3
  <2>5. Spoils("<think>", here, extra)
    <3>1. After(here, "<think>", JsonAtoms).at = "bad"
      BY <2>3, <2>4, OutsideSpoils
    <3> QED BY <2>4, <3>1 DEF Spoils
  <2> DEFINE r == s \o <<"</think>">>
  <2>6. r \in Text /\ z = <<"<think>">> \o r
    <3>1. s \in Text /\ <<"<think>">> \in Text /\ <<"</think>">> \in Text
      BY <2>3, OneMark DEF Lacks
    <3>2. z = <<"<think>">> \o r
      BY <3>1, Associate
    <3> QED BY <3>1, <3>2, OneAfterAnother
  <2> HIDE DEF z, r
  <2>7. Plain(t \o z, l, d, here, pl, extra)
    <3>1. Plain(t, l, d, here, pl, extra)
      BY <2>1 DEF Parts
    <3> QED BY <2>3, <2>4, <2>5, <2>6, <3>1, PlainSpoiled
  <2>8. Parts(t \o z, l, u, d, here, pl, extra, b, w, K)
    BY <2>1, <2>2, <2>7 DEF Parts
  <2>9. Recoverable(t \o z, l, u, d, here, pl, extra)
    BY <2>4, <2>8 DEF Recoverable
  <2> QED BY <2>9 DEF z
<1> QED BY <1>1, <1>2


(* What is appended inside the document is between the prose.              *)
LEMMA ToldInside ==
  ASSUME NEW t, NEW l \in Text, NEW b \in Text, NEW u, u = <<>>, ToldBy(t, l \o (b \o u)),
         NEW s, Lacks(s, {"<think>"})
  PROVE  ToldBy(t \o s, l \o ((b \o s) \o u))
<1>1. s \in Text /\ b \o s \in Text
  BY OneAfterAnother DEF Lacks
<1>2. b \o u = b /\ (b \o s) \o u = b \o s
  BY <1>1, ConcatText
<1>3. (l \o b) \o s = l \o (b \o s)
  BY <1>1, Associate
<1> QED BY <1>2, <1>3, ToldByOn

(* A character of the document.                                            *)
LEMMA RecoverableCharacter ==
  ASSUME NEW t, NEW l, NEW u, NEW d, NEW here, NEW pl, NEW extra,
         Recoverable(t, l, u, d, here, pl, extra), pl # "after",
         NEW c \in Letter, c \in Blanks => c = Newline, extra => c \in Closers \cup {Newline},
         NEW next, next = After(here, c, Atoms), next.at \notin {"start", "bad"}
  PROVE  Recoverable(t \o <<c>>, l, u, d \o <<c>>, next, Place(next), extra /\ c = Newline)
<1> DEFINE more == extra /\ c = Newline
           q == Now(here, extra)
           e == d \o <<c>>
<1>1. d \in Text /\ e \in Text /\ l \in Text /\ u \in Text
  BY OneMore DEF Recoverable
<1>2. CASE Risky(e)
  BY <1>1, <1>2 DEF Recoverable
<1>3. CASE ~Risky(e)
  <2>1. ~Risky(d)
    BY <1>1, <1>3, RiskyOn
  <2>2. PICK b, s, K : Parts(t, l, u, d, here, pl, extra, b, s, K)
    BY <2>1 DEF Recoverable
  <2>3. /\ here \in Lexes /\ extra \in BOOLEAN /\ (extra => here.at = "value")
        /\ Run(Lexes, Reader(Atoms), d, Start, here)
        /\ Lexical(s, d, here, pl, extra)
    <3>1. Lexical(s, d, here, pl, extra)
      BY <2>2 DEF Parts
    <3> QED BY <3>1 DEF Lexical
  <2>4. c \notin {"fence", "<think>"} /\ (here.at \in Singles => c \notin Sought)
    BY <1>1, <1>3, <2>3, RiskyHere
  <2>5. ~(pl = "before" /\ c = Newline)
    <3> SUFFICES ASSUME pl = "before", c = Newline PROVE FALSE
      OBVIOUS
    <3>1. here = Start
      BY <2>3 DEF Lexical
    <3>2. Start.at \notin InQuotes \cup {"bad"} /\ Start.at = "start"
      BY StartType DEF InQuotes
    <3>3. next = Start
      BY <3>1, <3>2, StartType, NewlineStays
    <3> QED BY <3>2, <3>3
  <2>6. /\ u = <<>> /\ b \in Text /\ l \in Text /\ Lacks(b, {"fence"})
        /\ ToldBy(t, l \o (b \o u))
    BY <2>2 DEF Parts, Lacks
  <2>7. Lacks(<<c>>, {"fence"}) /\ Lacks(<<c>>, {"<think>"})
    BY <2>4, OneMark
  <2>8. ToldBy(t \o <<c>>, l \o ((b \o <<c>>) \o u)) /\ Lacks(b \o <<c>>, {"fence"})
    BY <2>6, <2>7, ToldInside, LacksBoth
  <2>9. Lexical(s \o <<c>>, e, next, Place(next), more)
    <3>1. /\ Lexical(s, d, here, pl, extra) /\ pl # "after" /\ c \in Letter
          /\ (c \in Blanks => c = Newline)
          /\ ~(pl = "before" /\ c = Newline) /\ (extra => c \in Closers \cup {Newline})
          /\ next = After(here, c, Atoms) /\ next.at # "bad"
          /\ (here.at \in Singles => c \notin Sought)
      BY <2>3, <2>4, <2>5
    <3> QED BY ONLY <3>1, LexicalOn
  <2>10. Commas(s \o <<c>>, e, K, next, more)
    <3>1. /\ here \in Lexes /\ extra \in BOOLEAN /\ Commas(s, d, K, here, extra)
          /\ Run(Lexes, Reader(Atoms), d, Start, here)
          /\ c \in Letter /\ (c \in Blanks => c = Newline)
          /\ (extra => c \in Closers \cup {Newline})
          /\ next = After(here, c, Atoms) /\ next.at # "bad"
      BY <2>2, <2>3 DEF Parts
    <3> QED BY ONLY <3>1, CommasOn
  <2>11. Plain(t \o <<c>>, l, e, next, Place(next), more)
    <3>1. /\ here \in Lexes /\ pl # "after" /\ extra \in BOOLEAN
          /\ Plain(t, l, d, here, pl, extra)
          /\ c \in Letter /\ (extra => c \in Closers \cup {Newline})
          /\ next = After(here, c, Atoms) /\ next.at # "bad"
      BY <2>2, <2>3 DEF Parts
    <3> QED BY ONLY <3>1, PlainOn
  <2>12. /\ Loose(q, c) = Now(next, more) /\ Loose(q, c).at # "bad" /\ q \in Lexes
    <3>1. /\ Loose(Now(here, extra), c) = Now(next, extra /\ c = Newline)
          /\ Loose(Now(here, extra), c).at # "bad"
          /\ (extra /\ c = Newline) => next = here
      <4>1. /\ here \in Lexes /\ extra \in BOOLEAN /\ (extra => here.at = "value")
            /\ c \in Letter /\ (extra => c \in Closers \cup {Newline})
            /\ next = After(here, c, Atoms) /\ next.at # "bad"
            /\ (here.at \in Singles => c \notin Sought)
        BY <2>3, <2>4
      <4> QED BY ONLY <4>1, NowNext
    <3>2. q \in Lexes
      BY <2>3, NowType
    <3> QED BY <3>1, <3>2
  <2>13. Reads(b \o <<c>>, s \o <<c>>, Now(next, more).at)
    <3>1. CASE pl = "before"
      <4>1. b = <<>> /\ Lexical(s, d, here, "before", extra)
        BY <2>2, <3>1 DEF Parts
      <4>2. here = Start /\ s = <<>> /\ d = <<>> /\ extra = FALSE /\ Now(here, extra).at = "start"
        BY ONLY <4>1, LexicalBefore
      <4>3. next = Loose(Start, c)
        <5>1. Loose(q, c) = next
          BY <2>12, <4>2 DEF Now
        <5>2. q = Start
          BY <4>2 DEF Now
        <5> QED BY <5>1, <5>2
      <4>4. next.at = "open" /\ c \in Openers
        <5>1. c \notin Blanks
          BY <2>5, <3>1
        <5>2. Pushes(Start, c, next)
          BY <4>3, <5>1, StartType, StepOutside DEF Pops
        <5> QED BY <5>2 DEF Pushes
      <4>5. Now(next, more).at = "open" /\ <<>> \o <<c>> = <<c>>
        <5>1. <<c>> \in Text
          BY OneMark
        <5> QED BY <4>2, <4>4, <5>1, ConcatText DEF Now
      <4> QED BY <4>1, <4>2, <4>4, <4>5, ReadsFirst
    <3>2. CASE pl = "doc"
      <4>1. Reads(b, s, q.at)
        BY <2>2, <3>2 DEF Parts
      <4> HIDE DEF q, more
      <4> QED BY <2>12, <4>1, ReadsCharacter
    <3> QED BY <2>3, <3>1, <3>2 DEF Lexical
  <2>14. Place(next) # "before"
    BY DEF Place
  <2> HIDE DEF more, e
  <2>15. Parts(t \o <<c>>, l, u, e, next, Place(next), more, b \o <<c>>, s \o <<c>>, K)
    BY <2>6, <2>8, <2>9, <2>10, <2>11, <2>13, <2>14, EmptyText DEF Parts
  <2>16. Recoverable(t \o <<c>>, l, u, e, next, Place(next), more)
    BY <1>1, <2>15 DEF Recoverable
  <2> QED BY <2>16 DEF more, e
<1> HIDE DEF more, e
<1> QED BY <1>2, <1>3 DEF more, e

(* A comment: its line's end is the document's.                            *)
LEMMA RecoverableComment ==
  ASSUME NEW t, NEW l, NEW u, NEW d, NEW here, NEW extra,
         Recoverable(t, l, u, d, here, "doc", extra), here.at \in {"open", "value", "comma"},
         NEW r \in Text, NEW z, z = <<"/">> \o r, Lacks(z, {"fence"}), Lacks(z, {"<think>"}),
         NEW w \in {<<>>, <<Newline>>}, Rewrites(z, w)
  PROVE  Recoverable(t \o z, l, u, d \o w, here, "doc", extra)
<1> DEFINE q == Now(here, extra)
<1>1. d \in Text /\ Newline \in Letter /\ l \in Text /\ u \in Text
  BY DEF Recoverable, Letter
<1>2. d \o w \in Text /\ (Risky(d) => Risky(d \o w))
  <2>1. d \o <<>> = d
    BY <1>1, ConcatText
  <2> QED BY <1>1, <2>1, OneMore, RiskyOn
<1>3. CASE Risky(d)
  BY <1>1, <1>2, <1>3 DEF Recoverable
<1>4. CASE ~Risky(d)
  <2>1. PICK b, s, K : Parts(t, l, u, d, here, "doc", extra, b, s, K)
    BY <1>4 DEF Recoverable
  <2>2. /\ here \in Lexes /\ extra \in BOOLEAN /\ (extra => here.at = "value")
        /\ Run(Lexes, Reader(Atoms), d, Start, here) /\ s \in Text
        /\ Lexical(s, d, here, "doc", extra) /\ Commas(s, d, K, here, extra)
    <3>1. Lexical(s, d, here, "doc", extra) /\ Commas(s, d, K, here, extra)
      BY <2>1 DEF Parts
    <3> QED BY <3>1 DEF Lexical
  <2>3. /\ u = <<>> /\ b \in Text /\ l \in Text /\ Lacks(b, {"fence"})
        /\ ToldBy(t, l \o (b \o u))
    BY <2>1 DEF Parts, Lacks
  <2>4. ToldBy(t \o z, l \o ((b \o z) \o u)) /\ Lacks(b \o z, {"fence"})
    BY <2>3, ToldInside, LacksBoth
  <2>5. Reads(b \o z, s \o w, q.at)
    <3>1. Reads(b, s, q.at)
      BY <2>1 DEF Parts
    <3>2. q.at \notin {"string", "escape"}
      BY <2>2, NowType DEF Now
    <3> HIDE DEF q
    <3> QED BY <3>1, <3>2, ReadsComment
  <2>6. Lexical(s \o w, d \o w, here, "doc", extra) /\ Commas(s \o w, d \o w, K, here, extra)
    <3>1. CASE w = <<>>
      <4>1. s \o w = s /\ d \o w = d
        BY <1>1, <2>2, <3>1, ConcatText
      <4> QED BY <2>2, <4>1
    <3>2. CASE w = <<Newline>>
      <4>1. After(here, Newline, Atoms) = here /\ here.at # "bad" /\ Place(here) = "doc"
            /\ here.at \notin Singles
        BY <2>2, NewlineStays DEF Place, InQuotes, Singles
      <4>2. PICK c : c = Newline
        OBVIOUS
      <4>3. "doc" # "after" /\ "doc" # "before" /\ (extra /\ c = Newline) = extra
        BY <2>2, <4>2
      <4>4. Lexical(s \o <<c>>, d \o <<c>>, here, Place(here), extra /\ c = Newline)
        <5>1. /\ Lexical(s, d, here, "doc", extra) /\ "doc" # "after" /\ c \in Letter
              /\ (c \in Blanks => c = Newline) /\ ~("doc" = "before" /\ c = Newline)
              /\ (extra => c \in Closers \cup {Newline})
              /\ here = After(here, c, Atoms) /\ here.at # "bad"
              /\ (here.at \in Singles => c \notin Sought)
          BY <1>1, <2>2, <4>1, <4>2, <4>3
        <5> QED BY ONLY <5>1, LexicalOn
      <4>5. Commas(s \o <<c>>, d \o <<c>>, K, here, extra /\ c = Newline)
        <5>1. /\ here \in Lexes /\ extra \in BOOLEAN /\ Commas(s, d, K, here, extra)
              /\ Run(Lexes, Reader(Atoms), d, Start, here)
              /\ c \in Letter /\ (c \in Blanks => c = Newline)
              /\ (extra => c \in Closers \cup {Newline})
              /\ here = After(here, c, Atoms) /\ here.at # "bad"
          BY <1>1, <2>2, <4>1, <4>2
        <5> QED BY ONLY <5>1, CommasOn
      <4> QED BY <3>2, <4>1, <4>2, <4>3, <4>4, <4>5
    <3> QED BY <3>1, <3>2
  <2>7. Plain(t \o z, l, d \o w, here, "doc", extra)
    <3>1. Spoils("/", here, extra)
      <4>1. ASSUME NEW y \in Lexes, y = here \/ (extra /\ y.at = "comma")
            PROVE  After(y, "/", JsonAtoms).at = "bad"
        <5>1. y.at \in {"open", "value", "comma"}
          BY <4>1
        <5>2. "/" \notin Openers \cup Closers \cup Blanks \cup JsonAtoms \cup {Quote, ","}
          BY DEF Openers, Closers, Blanks, JsonAtoms, Newline, Quote
        <5>3. After(y, "/", JsonAtoms) = [y EXCEPT !.at = "bad"]
          BY <5>1, <5>2 DEF After, InQuotes
        <5> QED BY <5>3 DEF Lexes
      <4> QED BY <4>1 DEF Spoils
    <3>2. "/" \in Letter /\ Plain(t, l, d, here, "doc", extra)
      BY <2>1 DEF Parts, Letter
    <3> QED BY <1>2, <2>2, <3>1, <3>2, PlainSpoiled
  <2>8. Parts(t \o z, l, u, d \o w, here, "doc", extra, b \o z, s \o w, K)
    BY <2>3, <2>4, <2>5, <2>6, <2>7, EmptyText DEF Parts
  <2> QED BY <1>1, <1>2, <2>8 DEF Recoverable
<1> QED BY <1>3, <1>4

(* A comma too many.                                                       *)
LEMMA RecoverableTrailing ==
  ASSUME NEW t, NEW l, NEW u, NEW d, NEW here, here.at = "value",
         Recoverable(t, l, u, d, here, "doc", FALSE)
  PROVE  Recoverable(t \o <<",">>, l, u, d, here, "doc", TRUE)
<1> DEFINE c == ","
           n == Now(here, TRUE)
<1>1. CASE Risky(d)
  BY <1>1 DEF Recoverable
<1>2. CASE ~Risky(d)
  <2>1. PICK b, s, K : Parts(t, l, u, d, here, "doc", FALSE, b, s, K)
    BY <1>2 DEF Recoverable
  <2>2. Lexical(s, d, here, "doc", FALSE) /\ here \in Lexes
    <3>1. Lexical(s, d, here, "doc", FALSE)
      BY <2>1 DEF Parts
    <3> QED BY <3>1 DEF Lexical
  <2>3. Lacks(<<c>>, {"fence"}) /\ Lacks(<<c>>, {"<think>"}) /\ c \in Letter
    <3>1. c \in Letter /\ c \notin {"fence", "<think>"}
      BY DEF Letter
    <3> QED BY <3>1, OneMark
  <2>4. /\ u = <<>> /\ b \in Text /\ l \in Text /\ Lacks(b, {"fence"})
        /\ ToldBy(t, l \o (b \o u))
    BY <2>1 DEF Parts, Lacks
  <2>5. ToldBy(t \o <<c>>, l \o ((b \o <<c>>) \o u)) /\ Lacks(b \o <<c>>, {"fence"})
    BY <2>3, <2>4, ToldInside, LacksBoth
  <2>6. n = Loose(here, c) /\ n.at # "bad"
    BY <2>2, CommaAfterValue
  <2>7. Reads(b \o <<c>>, s \o <<c>>, n.at)
    <3>1. Reads(b, s, here.at)
      BY <2>1 DEF Parts, Now
    <3> HIDE DEF n, c
    <3> QED BY <2>2, <2>3, <2>6, <3>1, ReadsCharacter
  <2>8. Lexical(s \o <<c>>, d, here, "doc", TRUE)
    BY <2>2, LexicalTrailing
  <2>9. Commas(s \o <<c>>, d, K \cup {Len(s) + 1}, here, TRUE)
    BY <2>1, CommasTrailing DEF Parts
  <2>10. Plain(t \o <<c>>, l, d, here, "doc", TRUE)
    BY <2>1, <2>2, PlainTrailing DEF Parts
  <2>11. Parts(t \o <<c>>, l, u, d, here, "doc", TRUE, b \o <<c>>, s \o <<c>>, K \cup {Len(s) + 1})
    <3> HIDE DEF c
    <3> QED BY <2>4, <2>5, <2>7, <2>8, <2>9, <2>10, EmptyText DEF Parts, n
  <2> QED BY <2>2, <2>11 DEF Recoverable, Lexical
<1> QED BY <1>1, <1>2


(* The writer.                                                             *)
LEMMA ThoughtType ==
  ASSUME NEW s \in Thoughts
  PROVE  /\ s \in Text /\ Lacks(s, {"</think>"}) /\ Lacks(s, {"<think>"})
         /\ Lacks(s, {"fence"}) /\ Lacks(s, {Newline})
         /\ \A i \in 1..Len(s) : s[i] = "*" => ~(i + 1 \in 1..Len(s) /\ s[i + 1] = "/")
<1>1. s \in Seq(STRING) /\ DOMAIN s = 1..Len(s)
  BY ThoughtsAssumption
<1>2. s \in Text
  <2>1. STRING \subseteq Letter
    BY DEF Letter
  <2>2. \A i \in 1..Len(s) : s[i] \in Letter
    BY <1>1, <2>1, ElementOfSeq
  <2> QED BY <1>1, <2>2, SeqDef, LenProperties DEF Text
<1>3. \A i \in 1..Len(s) : s[i] \notin {"<think>", "</think>", "fence", Newline}
  BY <1>1, ThoughtsAssumption
<1>4. \A i \in 1..Len(s) : s[i] = "*" => ~(i + 1 \in 1..Len(s) /\ s[i + 1] = "/")
  BY <1>1, ThoughtsAssumption
<1> QED BY <1>2, <1>3, <1>4 DEF Lacks

LEMMA TwoMarks ==
  ASSUME NEW x \in Letter, NEW y \in Letter
  PROVE  <<x>> \o <<y>> = <<x, y>>
<1> DEFINE a == <<x>>
           b == <<y>>
<1>1. /\ a \in Text /\ Len(a) = 1 /\ a[1] = x
      /\ b \in Text /\ Len(b) = 1 /\ b[1] = y
  BY OneMark
<1>2. <<x, y>> \in Text /\ Len(<<x, y>>) = 2 /\ <<x, y>>[1] = x /\ <<x, y>>[2] = y
  BY DEF Text
<1> HIDE DEF a, b
<1>3. a \o b \in Text /\ Len(a \o b) = 2 /\ (a \o b)[1] = x /\ (a \o b)[2] = y
  <2>1. /\ a \o b \in Text /\ Len(a \o b) = Len(a) + Len(b)
        /\ \A i \in 1..Len(a) : (a \o b)[i] = a[i]
        /\ \A i \in 1..Len(b) : (a \o b)[Len(a) + i] = b[i]
    BY <1>1, OneAfterAnother
  <2>2. 1 \in 1..1 /\ 1 + 1 = 2
    OBVIOUS
  <2> QED BY <1>1, <2>1, <2>2
<1> DEFINE l == a \o b
           w == <<x, y>>
<1>4. \A i \in 1..2 : i = 1 \/ i = 2
  OBVIOUS
<1> HIDE DEF l, w
<1>5. l = w
  <2>1. /\ l \in Text /\ Len(l) = 2 /\ l[1] = x /\ l[2] = y
        /\ w \in Text /\ Len(w) = 2 /\ w[1] = x /\ w[2] = y
    BY <1>2, <1>3 DEF l, w
  <2>2. \A i \in 1..Len(l) : l[i] = w[i]
    BY <1>4, <2>1
  <2> QED BY <2>1, <2>2, Alike
<1> QED BY <1>5 DEF a, b, l, w

LEMMA CommentStarts ==
  ASSUME NEW s \in Text, NEW c \in Letter, NEW e \in Text
  PROVE  /\ <<c>> \o (s \o e) \in Text
         /\ <<"/", c>> \o s \o e = <<"/">> \o (<<c>> \o (s \o e))
<1> DEFINE a == <<"/">>
           b == <<c>>
           u == s \o e
<1>1. a \in Text /\ b \in Text /\ u \in Text /\ a \o b = <<"/", c>>
  <2>1. "/" \in Letter
    BY DEF Letter
  <2>2. a \in Text /\ b \in Text
    BY <2>1, OneMark
  <2>3. u \in Text
    BY OneAfterAnother
  <2> QED BY <2>1, <2>2, <2>3, TwoMarks
<1>2. b \o u \in Text /\ a \o b \in Text
  BY <1>1, OneAfterAnother
<1>3. ((a \o b) \o s) \o e = (a \o b) \o u
  <2> DEFINE h == a \o b
  <2>1. h \in Text
    BY <1>2
  <2> HIDE DEF h
  <2> QED BY <2>1, Associate
<1>4. (a \o b) \o u = a \o (b \o u)
  <2> HIDE DEF a, b, u
  <2> QED BY <1>1, Associate
<1> QED BY <1>1, <1>2, <1>3, <1>4

(* As long as a document lasts it can be recovered.                        *)
Recovers == Recoverable(text, lead, tail, doc, lex, place, trailing)

LEMMA ProseOn ==
  Recovers /\ Prose => Recovers'
<1> SUFFICES ASSUME Recovers, Prose PROVE Recovers'
  OBVIOUS
<1>1. PICK c \in Around :
        /\ Write(<<c>>, lex)
        /\ \/ place = "before" /\ lead' = Append(lead, c) /\ UNCHANGED tail
           \/ place = "after" /\ tail' = Append(tail, c) /\ UNCHANGED lead
  BY DEF Prose
<1>2. c \in Letter /\ c # "<think>"
  BY AroundAssumption DEF Letter
<1>3. /\ text' = text \o <<c>> /\ lex' = lex /\ doc' = doc
      /\ place' = place /\ trailing' = trailing
  BY <1>1 DEF Prose, Write
<1>4. Append(lead, c) = lead \o <<c>> /\ Append(tail, c) = tail \o <<c>>
  <2>1. lead \in Text /\ tail \in Text
    BY DEF Recovers, Recoverable
  <2> QED BY <1>2, <2>1, ConcatAppend
<1>5. CASE place = "before" /\ lead' = Append(lead, c) /\ UNCHANGED tail
  <2>1. Recoverable(text, lead, tail, doc, lex, "before", trailing)
    BY <1>5 DEF Recovers
  <2>2. Recoverable(text \o <<c>>, lead \o <<c>>, tail, doc, lex, "before", trailing)
    BY <1>2, <2>1, RecoverableLead
  <2> QED BY <1>3, <1>4, <1>5, <2>2 DEF Recovers
<1>6. CASE place = "after" /\ tail' = Append(tail, c) /\ UNCHANGED lead
  <2>1. Recoverable(text, lead, tail, doc, lex, "after", trailing)
    BY <1>6 DEF Recovers
  <2>2. Recoverable(text \o <<c>>, lead, tail \o <<c>>, doc, lex, "after", trailing)
    BY <1>2, <2>1, RecoverableTail
  <2> QED BY <1>3, <1>4, <1>6, <2>2 DEF Recovers
<1> QED BY <1>1, <1>5, <1>6

LEMMA CommentOn ==
  Recovers /\ Comment => Recovers'
<1> SUFFICES ASSUME Recovers, Comment PROVE Recovers'
  OBVIOUS
<1>0. PICK s \in Thoughts :
        \/ Write(<<"/", "/">> \o s \o <<Newline>>, lex) /\ doc' = Append(doc, Newline)
        \/ Write(<<"/", "*">> \o s \o <<"*", "/">>, lex) /\ UNCHANGED doc
  BY DEF Comment
<1>1. /\ s \in Text /\ Lacks(s, {"<think>"}) /\ Lacks(s, {"fence"}) /\ Lacks(s, {Newline})
      /\ \A i \in 1..Len(s) : s[i] = "*" => ~(i + 1 \in 1..Len(s) /\ s[i + 1] = "/")
  BY ThoughtType
<1>2. /\ "/" \in Letter /\ "*" \in Letter /\ Newline \in Letter
      /\ \A c \in {"/", "*", Newline} : c \notin {"<think>", "fence"}
  BY DEF Letter, Newline
<1>3. ASSUME NEW x \in {"/", "*", Newline}, NEW y \in {"/", "*", Newline},
             NEW mark \in {"<think>", "fence"}
      PROVE  Lacks(<<x>>, {mark}) /\ Lacks(<<x, y>>, {mark})
  <2>1. Lacks(<<x>>, {mark}) /\ Lacks(<<y>>, {mark})
    BY <1>2, OneMark
  <2>2. <<x, y>> = <<x>> \o <<y>>
    BY <1>2, TwoMarks
  <2> QED BY <2>1, <2>2, LacksBoth
<1>4. ASSUME NEW a, NEW e, NEW mark, Lacks(a, {mark}), Lacks(e, {mark}), Lacks(s, {mark})
      PROVE  Lacks(a \o s \o e, {mark})
  BY <1>4, LacksBoth
<1>5. /\ Recoverable(text, lead, tail, doc, lex, "doc", trailing) /\ doc \in Text
      /\ lex.at \in {"open", "value", "comma"} /\ place = "doc"
  BY DEF Recovers, Recoverable, Comment, Between
<1>6. lead' = lead /\ tail' = tail /\ place' = "doc" /\ trailing' = trailing
  BY <1>5 DEF Comment
<1>7. CASE Write(<<"/", "/">> \o s \o <<Newline>>, lex) /\ doc' = Append(doc, Newline)
  <2> DEFINE z == <<"/", "/">> \o s \o <<Newline>>
             r == <<"/">> \o (s \o <<Newline>>)
  <2>1. <<Newline>> \in Text
    BY <1>2, OneMark
  <2>2. r \in Text /\ z = <<"/">> \o r
    BY <1>1, <1>2, <2>1, CommentStarts
  <2>3. Rewrites(z, <<Newline>>)
    BY <1>1, LineComment
  <2>4. Lacks(z, {"fence"}) /\ Lacks(z, {"<think>"})
    BY <1>1, <1>3, <1>4
  <2>5. text' = text \o z /\ lex' = lex /\ doc' = doc \o <<Newline>>
    BY <1>2, <1>5, <1>7, ConcatAppend DEF Write
  <2> HIDE DEF z, r
  <2>6. Recoverable(text \o z, lead, tail, doc \o <<Newline>>, lex, "doc", trailing)
    BY <1>5, <2>2, <2>3, <2>4, RecoverableComment
  <2> QED BY <1>6, <2>5, <2>6 DEF Recovers
<1>8. CASE Write(<<"/", "*">> \o s \o <<"*", "/">>, lex) /\ UNCHANGED doc
  <2> DEFINE z == <<"/", "*">> \o s \o <<"*", "/">>
             r == <<"*">> \o (s \o <<"*", "/">>)
  <2>1. <<"*", "/">> \in Text
    BY <1>3 DEF Lacks
  <2>2. r \in Text /\ z = <<"/">> \o r
    BY <1>1, <1>2, <2>1, CommentStarts
  <2>3. Rewrites(z, <<>>)
    BY <1>1, BlockComment
  <2>4. Lacks(z, {"fence"}) /\ Lacks(z, {"<think>"})
    BY <1>1, <1>3, <1>4
  <2>5. text' = text \o z /\ lex' = lex /\ doc' = doc \o <<>>
    <3>1. doc \o <<>> = doc
      BY <1>5, ConcatText
    <3> QED BY <1>8, <3>1 DEF Write
  <2> HIDE DEF z, r
  <2>6. Recoverable(text \o z, lead, tail, doc \o <<>>, lex, "doc", trailing)
    BY <1>5, <2>2, <2>3, <2>4, RecoverableComment
  <2> QED BY <1>6, <2>5, <2>6 DEF Recovers
<1> QED BY <1>0, <1>7, <1>8

(* Each step of the writer.                                                *)
LEMMA RecoversOn ==
  Recovers /\ WriteOn => Recovers'
<1> SUFFICES ASSUME Recovers, WriteOn PROVE Recovers'
  OBVIOUS
<1>1. CASE Thought
  <2>1. PICK s \in Thoughts : Write(<<"<think>">> \o s \o <<"</think>">>, lex)
    BY <1>1 DEF Thought
  <2>2. Lacks(s, {"</think>"})
    BY ThoughtType
  <2>3. /\ text' = text \o (<<"<think>">> \o s \o <<"</think>">>) /\ lex' = lex
        /\ lead' = lead /\ tail' = tail /\ doc' = doc
        /\ place' = place /\ trailing' = trailing /\ place # "doc"
    BY <1>1, <2>1 DEF Thought, Write
  <2>4. Recoverable(text \o (<<"<think>">> \o s \o <<"</think>">>), lead, tail, doc, lex, place,
                    trailing)
    BY <2>2, <2>3, RecoverableThought DEF Recovers
  <2> QED BY <2>3, <2>4 DEF Recovers
<1>2. CASE Character
  <2>1. PICK c, next :
          /\ c \in Openers \cup Closers \cup Atoms
               \cup {Quote, Backslash, Newline, ",", "/", "*", "fence", "<think>", "</think>"}
          /\ next = After(lex, c, Atoms)
          /\ next.at \notin {"start", "bad"}
          /\ trailing => c \in Closers \cup {Newline}
          /\ Write(<<c>>, next)
          /\ doc' = Append(doc, c)
          /\ place' = IF next.at = "end" THEN "after" ELSE "doc"
          /\ trailing' = (trailing /\ c = Newline)
    BY <1>2 DEF Character
  <2>2. c \in Letter /\ (c \in Blanks => c = Newline)
    BY <2>1 DEF Letter, Openers, Closers, Atoms, JsonAtoms, PythonAtoms, Quote, Apostrophe,
                Backslash, Newline, Blanks
  <2>3. doc \in Text
    BY DEF Recovers, Recoverable
  <2>4. /\ text' = text \o <<c>> /\ lex' = next /\ doc' = doc \o <<c>>
        /\ place' = Place(next) /\ lead' = lead /\ tail' = tail /\ place # "after"
    BY <1>2, <2>1, <2>2, <2>3, ConcatAppend DEF Character, Write, Place
  <2>5. Recoverable(text \o <<c>>, lead, tail, doc \o <<c>>, next, Place(next),
                    trailing /\ c = Newline)
    <3>1. /\ Recoverable(text, lead, tail, doc, lex, place, trailing) /\ place # "after"
          /\ c \in Letter /\ (c \in Blanks => c = Newline)
          /\ (trailing => c \in Closers \cup {Newline})
          /\ next = After(lex, c, Atoms) /\ next.at \notin {"start", "bad"}
      BY <2>1, <2>2, <2>4 DEF Recovers
    <3> QED BY ONLY <3>1, RecoverableCharacter
  <2>6. Recoverable(text \o <<c>>, lead, tail, doc \o <<c>>, next, Place(next), trailing')
    BY <2>1, <2>5
  <2> QED BY <2>4, <2>6 DEF Recovers
<1>3. CASE TrailingComma
  <2>1. /\ text' = text \o <<",">> /\ lex' = lex /\ lead' = lead /\ tail' = tail /\ doc' = doc
        /\ place = "doc" /\ place' = "doc" /\ lex.at = "value" /\ ~trailing /\ trailing' = TRUE
    BY <1>3 DEF TrailingComma, Between, Write
  <2>2. Recoverable(text, lead, tail, doc, lex, "doc", FALSE)
    <3>1. Recoverable(text, lead, tail, doc, lex, "doc", trailing)
      BY <2>1 DEF Recovers
    <3> QED BY <2>1, <3>1 DEF Recoverable, Parts, Lexical
  <2>3. Recoverable(text \o <<",">>, lead, tail, doc, lex, "doc", TRUE)
    BY <2>1, <2>2, RecoverableTrailing
  <2> QED BY <2>1, <2>3 DEF Recovers
<1> QED BY <1>1, <1>2, <1>3, ProseOn, CommentOn DEF WriteOn

(* json_fix.py:9-16: a document inside prose, thought blocks and a code    *)
(* fence, with comments, trailing commas and Python's literals, is read as *)
(* the document alone, for any prose that Harmless allows and any document *)
(* that is not Fragile.                                                    *)
THEOREM DocumentsAreRecovered == WriteSpec => []DocumentRecovered
<1>1. Unwritten => Recovers
  BY RecoverableNothing DEF Unwritten, Recovers
<1>2. Recovers /\ [WriteOn]_written => Recovers'
  <2>1. Recovers /\ UNCHANGED written => Recovers'
    BY DEF Recovers, written
  <2> QED BY <2>1, RecoversOn
<1>3. Recovers => DocumentRecovered
  <2>1. SUFFICES ASSUME Recovers, place = "after", ~Fragile(doc), Harmless
                 PROVE  Meaning(Loads(text)) = Meaning(doc)
    BY DEF DocumentRecovered
  <2>2. Recoverable(text, lead, tail, doc, lex, "after", trailing)
    BY <2>1 DEF Recovers
  <2> QED BY <2>1, <2>2, RecoverableDone
<1> QED BY <1>1, <1>2, <1>3, PTL DEF WriteSpec


============================================================================
