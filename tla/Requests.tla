------------------------------ MODULE Requests ------------------------------
(***************************************************************************)
(* How the arguments given to configure(), load_model(), batch() and       *)
(* call() become the request a server is sent: LLMProviderPool.configure   *)
(* and load_model, LocalLLM.call and the two merges (pool.py:208-379,      *)
(* 444-558), _build_payload (1294-1342) and, for Ollama, the body that     *)
(* _call sends in its place (1503-1543).                                   *)
(*                                                                         *)
(* A setting is a pair <<place, key>>: a keyword argument, or a key of the *)
(* dictionary passed as options= or load_params=.  A dictionary is a       *)
(* function from its keys to the layer that gave the value, which is all   *)
(* that merging can change.                                                *)
(***************************************************************************)
EXTENDS Naturals, Sequences, FiniteSets

CONSTANTS
  Kinds,       \* provider kinds
  Focuses      \* sets of settings; one program uses those of one of them

ASSUME KindsAssumption ==
  Kinds \subseteq {"ollama", "llama_cpp", "lm_studio", "unsloth"}
(* Arguments of load_model that say where the server is, see Providers.    *)
Connection ==
  {"provider", "host", "port", "api_key", "base_path", "health_path",
   "models_path", "timeout", "logger", "transport", "provider_transport"}

ASSUME FocusesAssumption ==
  \A F \in Focuses :
    /\ F \subseteq {"arg", "options", "load_params"} \X STRING
    /\ F \cap ({"arg"} \X Connection) = {}

VARIABLES
  kind,              \* config.name of the pool
  focus,             \* the settings this program uses
  given,             \* what each layer gave the handle or the present call
  server_defaults,   \* pool._server_defaults
  handle,            \* the LocalLLM
  request,           \* the arguments of the present _call
  sent,              \* what the server was sent for it
  stage              \* "pool", "loaded", "merged", "sent" or "refused"

vars == <<kind, focus, given, server_defaults, handle, request, sent, stage>>

(* The layers, nearest first.                                              *)
Layers == <<"item", "shared", "load", "configured">>
LayerSet == {"item", "shared", "load", "configured"}

ServerParams ==
  {"num_parallel", "kv_cache_type", "gpu_overhead", "max_loaded_models",
   "flash_attn"}

Fields ==
  ServerParams \cup
  {"context_length", "gpu_layers", "cmoe", "cpu_moe", "batch_size",
   "kv_offload", "num_experts", "threads", "main_gpu", "gpu_offload",
   "load_params", "load_timeout"}

(* What _call accepts; return_usage is passed to it by name.               *)
CallArgs ==
  Fields \cup
  {"model", "schema_dict", "think", "temperature", "effort", "tools",
   "tool_registry", "max_tool_rounds", "max_loop_retries",
   "max_json_fix_retries"}

-----------------------------------------------------------------------------
(* Dictionaries.                                                           *)

Nothing == [k \in {} |-> "load"]

(* g.update(f); equally f.setdefault(k, g[k]) for every k.                 *)
Over(f, g) ==
  [k \in DOMAIN f \cup DOMAIN g |-> IF k \in DOMAIN f THEN f[k] ELSE g[k]]

Only(f, K) == [k \in DOMAIN f \cap K |-> f[k]]
Without(f, K) == [k \in DOMAIN f \ K |-> f[k]]

(* f[k] under the name j, where f has k.                                   *)
Named(j, k, f) == [i \in {x \in {j} : k \in DOMAIN f} |-> f[k]]

(* The dictionary of one place that a layer giving the settings S passes.  *)
Dict(place, layer, S) ==
  [k \in {s[2] : s \in {t \in S : t[1] = place}} |-> layer]

(* Its keyword arguments; load_params= is one of them, options= is kept    *)
(* apart.                                                                  *)
Args(layer, S) ==
  [k \in {s[2] : s \in {t \in S : t[1] = "arg"}}
           \cup {t[1] : t \in {u \in S : u[1] = "load_params"}} |-> layer]

-----------------------------------------------------------------------------
Init ==
  /\ kind \in Kinds
  /\ focus \in Focuses
  /\ given = [l \in LayerSet |-> {}]
  /\ server_defaults = Nothing
  /\ handle = [fields |-> Nothing, defaults |-> Nothing, options |-> Nothing]
  /\ request = [args |-> Nothing, options |-> Nothing]
  /\ sent = [body |-> Nothing, options |-> Nothing]
  /\ stage = "pool"

(* configure(): before load_model() or after it.                           *)
Configure(S) ==
  /\ stage \in {"pool", "loaded"}
  /\ S # {}
  /\ server_defaults' = Over(Args("configured", S), server_defaults)
  /\ UNCHANGED <<kind, focus, given, handle, request, sent, stage>>

(* d.get(...) for each server parameter that was not given.                *)
Inherited(a) == Over(a, Only(server_defaults, ServerParams))

(* Named arguments become fields of the handle, ngl another name of one;   *)
(* all others are defaults of its calls, unchecked.  A context length is   *)
(* entered among the default options too.                                  *)
LoadModel(S) ==
  LET a == Args("load", S)
  IN  /\ stage = "pool"
      /\ handle' =
           [fields |-> Only(Over(Inherited(a), Named("gpu_layers", "ngl", a)), Fields),
            defaults |-> Without(a, Fields \cup {"ngl", "model"}),
            options |-> Over(Dict("options", "load", S),
                             Named("num_ctx", "context_length", a))]
      /\ given' = [given EXCEPT
                     !["load"] = S,
                     !["configured"] = {<<"arg", k>> : k \in DOMAIN server_defaults}]
      /\ stage' = "loaded"
      /\ UNCHANGED <<kind, focus, server_defaults, request, sent>>

-----------------------------------------------------------------------------
(* _merge_call_kwargs, _merge_defaults: keyword arguments replace, options *)
(* are merged key by key.                                                  *)
Merge(top, under) ==
  [args |-> Over(top.args, under.args),
   options |-> Over(top.options, under.options)]

(* Mutant of Kwargs: an item's options replace the shared ones.            *)
KwargsShallow(shared, item) ==
  [args |-> Over(Args("item", item), Args("shared", shared)),
   options |-> IF Dict("options", "item", item) # Nothing
               THEN Dict("options", "item", item)
               ELSE Dict("options", "shared", shared)]

(* _build_batch_call_kwargs; a plain call() has no shared arguments.       *)
Kwargs(shared, item) ==
  Merge([args |-> Args("item", item), options |-> Dict("options", "item", item)],
        [args |-> Args("shared", shared), options |-> Dict("options", "shared", shared)])

(* call(): over the handle's defaults, its fields where none is given, and *)
(* always its model.  return_usage is call()'s own parameter; one among    *)
(* the defaults meets it in _call and is a TypeError, as is every argument *)
(* that _call does not know.                                               *)
Merged(kwargs) ==
  Merge([kwargs EXCEPT !.args = Without(@, {"return_usage"})],
        [args |-> handle.defaults, options |-> handle.options])

CallWith(merged, shared, item) ==
  LET args == Over([model |-> "load"], Over(merged.args, handle.fields))
  IN  /\ stage = "loaded"
      /\ given' = [given EXCEPT !["shared"] = shared, !["item"] = item]
      /\ request' = [args |-> args, options |-> merged.options]
      /\ stage' = IF \/ ~(DOMAIN args \subseteq CallArgs)
                     \/ kind = "unsloth" /\ "tools" \in DOMAIN args
                  THEN "refused" ELSE "merged"
      /\ UNCHANGED <<kind, focus, server_defaults, sent>>

(* Mutant of Call: the handle's own dictionary is merged into.             *)
CallKeepsOptions(shared, item) ==
  LET merged == Merged(Kwargs(shared, item))
  IN  /\ CallWith(merged, shared, item)
      /\ handle' = [handle EXCEPT !.options = merged.options]

Call(shared, item) ==
  /\ CallWith(Merged(Kwargs(shared, item)), shared, item)
  /\ UNCHANGED handle

-----------------------------------------------------------------------------
(* _call, steps 2 and 5.                                                   *)

(* The names of the generation limit, the first one present counts.        *)
LimitNames == <<"max_tokens", "max_completion_tokens", "num_predict">>

(* Mutant of LimitUnder: one alias is not looked for.                      *)
LimitUnderTwo(name, opts) ==
  Over(Named(name, LimitNames[1], opts), Named(name, LimitNames[2], opts))

LimitUnder(name, opts) ==
  Over(Named(name, LimitNames[1], opts),
       Over(Named(name, LimitNames[2], opts), Named(name, LimitNames[3], opts)))

OllamaOnly ==
  {"num_ctx", "num_predict", "num_keep", "num_thread", "mirostat",
   "mirostat_eta", "mirostat_tau", "repeat_last_n", "repeat_penalty",
   "tfs_z", "typical_p"}

(* _build_payload for the providers of the OpenAI API: options are fields  *)
(* of the body and replace those made from arguments.                      *)
OpenAIBody(args, opts) ==
  Over(Without(opts, OllamaOnly),
       Over(LimitUnder("max_tokens", opts),
            Over(Only(args, {"model", "temperature", "tools"}),
                 Named("temperature", "temperature", opts))))

(* Options Ollama is sent; of the others none.                             *)
NativeKeys == (OllamaOnly \ {"num_ctx"}) \cup {"temperature"}

LoadParams(args) ==
  IF "load_params" \in DOMAIN args
  THEN Dict("load_params", args["load_params"], given[args["load_params"]])
  ELSE Nothing

(* load_params as they are, the context length over them, then what they   *)
(* do not set.                                                             *)
NativeOptions(args, opts) ==
  LET unified == Over(Named("num_thread", "threads", args),
                      Over(Named("main_gpu", "main_gpu", args),
                           Named("num_batch", "batch_size", args)))
  IN  Over(Named("num_ctx", "context_length", args),
           Over(LoadParams(args),
                Over(unified,
                     Over(LimitUnder("num_predict", opts), Only(opts, NativeKeys)))))

(* The body of the chat request; the preload before it has the same        *)
(* options.                                                                *)
Send ==
  /\ stage = "merged"
  /\ sent' = IF kind = "ollama"
             THEN [body |-> Only(request.args, {"model"}),
                   options |-> NativeOptions(request.args, request.options)]
             ELSE [body |-> OpenAIBody(request.args, request.options),
                   options |-> Nothing]
  /\ stage' = "sent"
  /\ UNCHANGED <<kind, focus, given, server_defaults, handle, request>>

(* The handle is free for the next call.                                   *)
Done ==
  /\ stage \in {"sent", "refused"}
  /\ given' = [given EXCEPT !["shared"] = {}, !["item"] = {}]
  /\ request' = [args |-> Nothing, options |-> Nothing]
  /\ sent' = [body |-> Nothing, options |-> Nothing]
  /\ stage' = "loaded"
  /\ UNCHANGED <<kind, focus, server_defaults, handle>>

Next ==
  \/ \E S \in SUBSET focus :
       \/ S \subseteq {"arg"} \X ServerParams /\ Configure(S)
       \/ LoadModel(S)
       \/ \E T \in SUBSET focus : Call(S, T)
  \/ Send
  \/ Done

Spec == Init /\ [][Next]_vars

-----------------------------------------------------------------------------
(* Properties.                                                             *)

IsDict(f) == f \in [DOMAIN f -> LayerSet]

(* Each dictionary's values come from one of the layers, and the place     *)
(* they are kept says which: a handle never holds a call's.                *)
TypeOK ==
  /\ kind \in Kinds
  /\ focus \in Focuses
  /\ given \in [LayerSet -> SUBSET focus]
  /\ server_defaults \in [DOMAIN server_defaults -> {"configured"}]
  /\ \A d \in {handle.fields, handle.defaults, handle.options} :
       d \in [DOMAIN d -> {"load", "configured"}]
  /\ IsDict(request.args) /\ IsDict(request.options)
  /\ IsDict(sent.body) /\ IsDict(sent.options)
  /\ stage \in {"pool", "loaded", "merged", "sent", "refused"}

(* The layers that gave a setting, and the nearest of them.                *)
Givers(s) == {i \in DOMAIN Layers : s \in given[Layers[i]]}
Nearest(s) == Layers[CHOOSE i \in Givers(s) : \A j \in Givers(s) : i <= j]

(* README.md:287, "Per-call values win; options dicts are shallow-merged   *)
(* (per-call keys override, others kept)", over all four layers: each      *)
(* argument and each option that is given anywhere reaches _call, from the *)
(* layer nearest to the call; what configure() is given after the handle   *)
(* was loaded never does, and nothing else does but the context length,    *)
(* which load_model() makes an option of too.                              *)
NearestLayerWins ==
  stage \in {"merged", "sent"} =>
    /\ \A s \in focus : s[1] = "options" /\ Givers(s) # {} =>
         s[2] \in DOMAIN request.options /\ request.options[s[2]] = Nearest(s)
    /\ \A k \in CallArgs \ {"model", "gpu_layers", "load_params"} :
         Givers(<<"arg", k>>) # {} =>
           k \in DOMAIN request.args /\ request.args[k] = Nearest(<<"arg", k>>)
    /\ \A k \in DOMAIN request.args \ {"model", "gpu_layers", "load_params"} :
         Givers(<<"arg", k>>) # {}
    /\ \A k \in DOMAIN request.options \ {"num_ctx"} :
         Givers(<<"options", k>>) # {}

(* The names under which a layer gives a limit as an option, and the first *)
(* of them.                                                                *)
LimitsGiven == {i \in DOMAIN LimitNames : Givers(<<"options", LimitNames[i]>>) # {}}
FirstLimit ==
  <<"options", LimitNames[CHOOSE i \in LimitsGiven : \A j \in LimitsGiven : i <= j]>>

Carries(f, k, layer) == k \in DOMAIN f /\ f[k] = layer

(* Which of the generation limits that layers give under three names is    *)
(* sent (pool.py:147-148): the name decides before the layer does.  The    *)
(* first name that any layer gives counts, with the value of the layer     *)
(* nearest to the call; only a num_predict of load_params goes before it,  *)
(* for Ollama.  An OpenAI server is sent max_completion_tokens as well if  *)
(* that is given, no server an option that belongs to the other API.       *)
LimitReachesServer ==
  stage = "sent" =>
    LET own == LoadParams(request.args)
        second == <<"options", "max_completion_tokens">>
    IN  /\ kind = "ollama" =>
             /\ "num_predict" \in DOMAIN own =>
                  Carries(sent.options, "num_predict", own["num_predict"])
             /\ "num_predict" \notin DOMAIN own /\ LimitsGiven # {} =>
                  Carries(sent.options, "num_predict", Nearest(FirstLimit))
             /\ \A k \in {"max_tokens", "max_completion_tokens"} :
                  k \in DOMAIN sent.options => Givers(<<"load_params", k>>) # {}
        /\ kind # "ollama" =>
             /\ LimitsGiven # {} => Carries(sent.body, "max_tokens", Nearest(FirstLimit))
             /\ IF Givers(second) # {}
                THEN Carries(sent.body, "max_completion_tokens", Nearest(second))
                ELSE "max_completion_tokens" \notin DOMAIN sent.body
             /\ DOMAIN sent.body \cap OllamaOnly = {}

(* README.md:287, "Per-call values win", of three names that are "aliases  *)
(* for the generation-token limit" (pool.py:147-148): the limit a call is  *)
(* given under any of them is the one it is sent.                          *)
CallLimitWins ==
  stage = "sent" /\ (\E i \in DOMAIN LimitNames : <<"options", LimitNames[i]>> \in given["item"]) =>
    IF kind = "ollama" THEN Carries(sent.options, "num_predict", "item")
                       ELSE Carries(sent.body, "max_tokens", "item")

(* pool.py:121-124 and README.md:321-326: the model, the temperature and   *)
(* the tools given to a call are those its request carries.                *)
CallArgumentsReachModel ==
  stage = "sent" =>
    \A k \in {"model", "temperature", "tools"} :
      <<"arg", k>> \in given["item"] =>
        k \in DOMAIN sent.body /\ sent.body[k] = "item"

=============================================================================
