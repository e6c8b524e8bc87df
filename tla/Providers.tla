----------------------------- MODULE Providers -----------------------------
(***************************************************************************)
(* The provider registry, the pools and handles made from it, and the      *)
(* operations on the servers behind them: ProviderRegistry                 *)
(* (provider_registry.py), resolve_provider_config (providers.py:107-154), *)
(* get_provider(s), load_model's choice of a server, and checking servers, *)
(* listing and unloading models (pool.py:498-523, 912-933, 1063-1272).     *)
(*                                                                         *)
(* An address stands for host, port and API key.  Servers are loaded by    *)
(* others, fail and recover between any two requests of an operation.      *)
(***************************************************************************)
EXTENDS Naturals, FiniteSets

CONSTANTS
  Registries,    \* what the configuration file may hold
  Names,         \* names the program uses
  Addresses,     \* where servers may listen
  DefaultPort,   \* _DEFAULTS: the default address of each built-in kind
  OtherDefault,  \* the default address of any other kind
  Models,        \* models others may load
  Loaded,        \* what each server has loaded at first
  MaxEvents      \* bound: loads by others, failures and recoveries

KnownKinds == DOMAIN DefaultPort

(* An entry names its provider kind and may leave its address to it.       *)
Entry == [provider : Names, address : Addresses \cup {"default"}]

(* Instances of a model; servers other than LM Studio keep one of each.    *)
Instance == Models \X {1, 2}

ASSUME NamesAssumption == "none" \notin Names
ASSUME RegistriesAssumption ==
  \A R \in Registries : DOMAIN R \subseteq Names /\ R \in [DOMAIN R -> Entry]
ASSUME DefaultsAssumption ==
  /\ KnownKinds = {"lm_studio", "ollama", "unsloth", "llama_cpp"}
  /\ KnownKinds \subseteq Names
  /\ DefaultPort \in [KnownKinds -> Addresses]
  /\ OtherDefault \in Addresses
ASSUME LoadedAssumption == Loaded \in [Addresses -> SUBSET Instance]
ASSUME MaxEventsAssumption == MaxEvents \in Nat

VARIABLES
  registry,   \* the entries, by name; never changes
  pool,       \* the pool the program uses at present
  handle,     \* where the LocalLLM it last loaded sends its calls
  condition,  \* of each server: "up", "down", or "error": HTTP errors only
  loaded,     \* the instances each server has loaded
  events,     \* loads, failures and recoveries so far
  op          \* the management operation under way, or the last one

vars == <<registry, pool, handle, condition, loaded, events, op>>
servers == <<condition, loaded, events>>

-----------------------------------------------------------------------------
(* Names and servers.                                                      *)

DefaultAddress(k) == IF k \in KnownKinds THEN DefaultPort[k] ELSE OtherDefault

(* resolve_provider_config                                                 *)
Config(k, a) ==
  [provider |-> k, address |-> IF a = "default" THEN DefaultAddress(k) ELSE a]

(* Mutant of Server: the host and port of an entry are not passed on.      *)
ServerByKind(n) ==
  IF n \in DOMAIN registry THEN Config(registry[n].provider, "default")
  ELSE Config(n, "default")

(* get_provider: the entry of that name; a name without one is a kind.     *)
Server(n) ==
  IF n \in DOMAIN registry
  THEN Config(registry[n].provider, registry[n].address)
  ELSE Config(n, "default")

(* canonical_names: an alias counts as its kind, under the kind's name.    *)
CanonicalNames ==
  {n \in DOMAIN registry : registry[n].provider = n}
    \cup {registry[n].provider : n \in DOMAIN registry}

GetProviders == KnownKinds \cup CanonicalNames \cup {pool.provider}

-----------------------------------------------------------------------------
(* named: the registry name the program asked for, if it did.              *)
Pool(n) == [named |-> n, provider |-> Server(n).provider, address |-> Server(n).address]

NoOp ==
  [call |-> "none", sweep |-> FALSE, todo |-> {}, target |-> "none",
   pending |-> {}, refused |-> {}, done |-> {}, results |-> [n \in {} |-> {}],
   fresh |-> {}, status |-> "idle"]

NoHandle == [named |-> "none", address |-> DefaultAddress("ollama")]

Init ==
  /\ registry \in Registries
  /\ pool = [named |-> "none", provider |-> "ollama",
             address |-> DefaultAddress("ollama")]
  /\ handle = NoHandle
  /\ condition = [a \in Addresses |-> "up"]
  /\ loaded = Loaded
  /\ events = 0
  /\ op = NoOp

(* One operation is followed to its end: another shares nothing with it    *)
(* but the servers, which may be in any state before it.                   *)
Idle == op.status = "idle"

GetProvider(n) ==
  /\ Idle
  /\ pool' = Pool(n)
  /\ UNCHANGED <<registry, handle, servers, op>>

(* load_model: this pool if the name is its own kind and no connection     *)
(* argument is given, timeouts included; with one, a new pool for the kind *)
(* of that name, its address given or the kind's default one; otherwise    *)
(* get_provider.                                                           *)
LoadModel(n, overrides, a) ==
  /\ Idle
  /\ "host" \in overrides \/ a = "default"
  /\ handle' =
       [named |-> IF "host" \in overrides THEN "none" ELSE n,
        address |-> IF overrides # {} THEN Config(n, a).address
                    ELSE IF n = pool.provider THEN pool.address
                    ELSE Server(n).address]
  /\ UNCHANGED <<registry, pool, servers, op>>

-----------------------------------------------------------------------------
(* Listing and unloading.                                                  *)

(* One provider: by default the pool's own, looked up by its kind; for     *)
(* None every provider in turn (in any order here).  Handles play no part, *)
(* so the program is taken to have none.                                   *)
Begin(call, todo, sweep) ==
  /\ Idle
  /\ op' = [NoOp EXCEPT !.call = call, !.sweep = sweep, !.todo = todo,
                        !.status = "running"]
  /\ handle' = NoHandle
  /\ UNCHANGED <<registry, pool, servers>>

At(n) == Server(n).address
Kind(n) == Server(n).provider

Result(how, unloaded) == [how |-> how, unloaded |-> unloaded, refused |-> op.refused]

(* check_provider: one request, whose failure is its answer; for the pool's *)
(* own provider it goes to the pool's server without a lookup.             *)
Check(k, a) ==
  /\ Idle
  /\ LET how == IF condition[a] = "up" THEN "ok" ELSE "not ok"
     IN  op' = [NoOp EXCEPT !.call = "check", !.status = "returned",
                            !.results = [m \in {k} |-> Result(how, {})]]
  /\ handle' = NoHandle
  /\ UNCHANGED <<registry, pool, servers>>

Operate ==
  \/ Check(pool.provider, pool.address)
  \/ \E n \in Names : Check(Kind(n), At(n))
  \/ \E call \in {"loaded", "downloaded", "unload"} :
       \/ Begin(call, {pool.provider}, FALSE)
       \/ \E n \in Names : Begin(call, {n}, FALSE)
       \/ Begin(call, GetProviders, TRUE)

(* The providers whose answer is used unread: without JSON in it, `None`   *)
(* has no get().                                                           *)
NeedsAnswer(call, k) ==
  \/ call = "loaded" /\ k \in {"ollama", "unsloth", "lm_studio"}
  \/ call = "downloaded" /\ k = "lm_studio"
  \/ call = "unload" /\ k \in {"ollama", "lm_studio"}

(* What is unloaded one by one: of LM Studio the first instance of each    *)
(* model, of Unsloth the active one.                                       *)
Asked(k, here) ==
  CASE k = "lm_studio" ->
         {{i \in here : \A j \in here : j[1] = i[1] => i[2] <= j[2]}}
    [] k = "unsloth" -> IF here = {} THEN {{}} ELSE {{i} : i \in here}
    [] OTHER -> {here}

(* Mutant of Conclude: the next turn begins with what this one left.       *)
ConcludeKeeps(n, result) ==
  op' = [op EXCEPT
           !.results = [m \in DOMAIN @ \cup {n} |-> IF m = n THEN result ELSE @[m]],
           !.todo = @ \ {n},
           !.status = IF op.todo = {n} THEN "returned" ELSE "running"]

(* A provider's turn ends; the operation ends with its last one.           *)
Conclude(n, result) ==
  op' = [op EXCEPT
           !.results = [m \in DOMAIN @ \cup {n} |-> IF m = n THEN result ELSE @[m]],
           !.todo = @ \ {n}, !.target = "none",
           !.pending = {}, !.refused = {}, !.done = {},
           !.status = IF op.todo = {n} THEN "returned" ELSE "running"]

(* Mutant of Unreachable: the sweep stops at the first such provider.      *)
UnreachableStops(n) == op' = [op EXCEPT !.status = "unreachable"]

(* TransportError: unload_all_models(None) notes it and goes on to the     *)
(* next provider; all else ends with it.                                   *)
Unreachable(n) ==
  IF op.sweep /\ op.call = "unload"
  THEN Conclude(n, Result("unreachable", {}))
  ELSE op' = [op EXCEPT !.status = "unreachable"]

(* The request that begins a provider's turn.                              *)
Fetch(n) ==
  LET k == Kind(n)
      here == loaded[At(n)]
  IN  /\ op.status = "running"
      /\ op.target = "none"
      /\ n \in op.todo
      /\ \/ /\ op.call = "unload" /\ k \notin KnownKinds
            /\ Conclude(n, Result("unsupported", {}))
            /\ UNCHANGED loaded
         \/ /\ op.call # "unload" \/ k \in KnownKinds
            /\ condition[At(n)] = "down"
            /\ Unreachable(n)
            /\ UNCHANGED loaded
         \/ /\ op.call # "unload" \/ k \in KnownKinds
            /\ condition[At(n)] = "error"
            /\ IF NeedsAnswer(op.call, k)
               THEN op' = [op EXCEPT !.status = "failed"]
               ELSE Conclude(n, Result("no answer", {}))
            /\ UNCHANGED loaded
         \/ /\ condition[At(n)] = "up"
            /\ op.call # "unload"
            /\ Conclude(n, Result("listed", {}))
            /\ UNCHANGED loaded
         \/ /\ condition[At(n)] = "up"
            /\ op.call = "unload" /\ k = "llama_cpp"
            /\ Conclude(n, Result("unloaded", here))
            /\ loaded' = [loaded EXCEPT ![At(n)] = {}]
         \/ /\ condition[At(n)] = "up"
            /\ op.call = "unload" /\ k \in KnownKinds \ {"llama_cpp"}
            /\ \E P \in Asked(k, here) :
                 IF P = {} THEN Conclude(n, Result("unloaded", {}))
                 ELSE op' = [op EXCEPT !.target = n, !.pending = P]
            /\ UNCHANGED loaded
      /\ UNCHANGED <<registry, pool, handle, condition, events>>

(* Mutant of Unload: the turn ends with the first model.                   *)
UnloadOne(i) ==
  /\ op.status = "running"
  /\ i \in op.pending
  /\ condition[At(op.target)] = "up"
  /\ loaded' = [loaded EXCEPT ![At(op.target)] = @ \ {i}]
  /\ Conclude(op.target, Result("unloaded", {i}))
  /\ UNCHANGED <<registry, pool, handle, condition, events>>

(* One request for each; its answer is not looked at, so a model the       *)
(* server refused to unload is reported all the same.                      *)
Unload(i) ==
  LET n == op.target
      up == condition[At(n)] = "up"
  IN  /\ op.status = "running"
      /\ i \in op.pending
      /\ condition[At(n)] # "down"
      /\ loaded' = IF up THEN [loaded EXCEPT ![At(n)] = @ \ {i}] ELSE loaded
      /\ LET refused == IF up THEN op.refused ELSE op.refused \cup {i}
         IN  IF op.pending = {i}
             THEN Conclude(n, [Result("unloaded", op.done \cup {i})
                                 EXCEPT !.refused = refused])
             ELSE op' = [op EXCEPT !.pending = @ \ {i}, !.done = @ \cup {i},
                                   !.refused = refused]
      /\ UNCHANGED <<registry, pool, handle, condition, events>>

UnloadUnreachable ==
  /\ op.status = "running"
  /\ op.target # "none"
  /\ condition[At(op.target)] = "down"
  /\ Unreachable(op.target)
  /\ UNCHANGED <<registry, pool, handle, servers>>

-----------------------------------------------------------------------------
(* The servers.                                                            *)

Change ==
  /\ events < MaxEvents
  /\ events' = events + 1
  /\ UNCHANGED <<registry, pool, handle>>

OthersLoad(a, i) ==
  /\ Change
  /\ condition[a] = "up"
  /\ i \notin loaded[a]
  /\ loaded' = [loaded EXCEPT ![a] = @ \cup {i}]
  /\ op' = [op EXCEPT !.fresh = @ \cup {<<a, i>>}]
  /\ UNCHANGED condition

Turn(a, c) ==
  /\ Change
  /\ condition[a] # c
  /\ condition' = [condition EXCEPT ![a] = c]
  /\ UNCHANGED <<loaded, op>>

Step ==
  \/ \E n \in op.todo : Fetch(n)
  \/ \E i \in op.pending : Unload(i)
  \/ UnloadUnreachable

Next ==
  \/ \E n \in Names : GetProvider(n)
  \/ \E n \in Names, O \in SUBSET {"host", "load_timeout"},
        a \in Addresses \cup {"default"} : LoadModel(n, O, a)
  \/ Operate
  \/ Step
  \/ \E a \in Addresses, i \in Models \X {1} : OthersLoad(a, i)
  \/ \E a \in Addresses, c \in {"up", "down", "error"} : Turn(a, c)

Spec == Init /\ [][Next]_vars

-----------------------------------------------------------------------------
(* Properties.                                                             *)

(* An operation at work has a provider left; what is pending belongs to    *)
(* the provider whose turn it is.                                          *)
TypeOK ==
  /\ registry \in Registries
  /\ pool.address \in Addresses /\ handle.address \in Addresses
  /\ condition \in [Addresses -> {"up", "down", "error"}]
  /\ loaded \in [Addresses -> SUBSET Instance]
  /\ events \in 0..MaxEvents
  /\ op.status \in {"idle", "running", "returned", "unreachable", "failed"}
  /\ op.status = "running" => op.todo # {}
  /\ op.target = "none" => op.pending = {}
  /\ op.target # "none" => op.target \in op.todo

(* README.md:256: "unreachable providers return {unloaded: [], error}":    *)
(* whatever fails while it runs, unload_all_models(None) is not stopped by *)
(* a provider that cannot be reached, and what it returns accounts for     *)
(* every provider kind there is, once.                                     *)
SweepReportsEveryProvider ==
  op.sweep /\ op.call = "unload" =>
    /\ op.status # "unreachable"
    /\ op.status = "returned" =>
         /\ KnownKinds \subseteq DOMAIN op.results
         /\ \A n \in DOMAIN registry : registry[n].provider \in DOMAIN op.results
         /\ pool.provider \in DOMAIN op.results

(* What unload_all_models leaves loaded on a server it reports as unloaded *)
(* was loaded by others meanwhile, refused by the server, or is one that   *)
(* is never listed: a further instance (LM Studio) or a model that is not  *)
(* the active one (Unsloth).                                               *)
OnlyNewcomersStay ==
  \A n \in DOMAIN op.results :
    op.results[n].how = "unloaded" =>
      \A i \in loaded[At(n)] :
        \/ <<At(n), i>> \in op.fresh
        \/ i \in op.results[n].refused
        \/ Kind(n) = "lm_studio" /\ i[2] > 1
        \/ Kind(n) = "unsloth"

EntryAddress(n) ==
  Config(registry[n].provider, registry[n].address).address

(* The pool of an entry that is named like its kind stays with the server  *)
(* of that entry: its operations, which look the server up again by the    *)
(* kind (pool.py:913-918, 1114-1125), find the same one.                   *)
CanonicalServerUsed ==
  \A n \in DOMAIN registry :
    registry[n].provider = n /\ pool.named = n =>
      /\ pool.address = EntryAddress(n)
      /\ At(pool.provider) = pool.address

(* README.md:119 and 167 (provider: "registry key"), 172 (load_timeout:    *)
(* "override server-level load_timeout for this handle"): a handle loaded  *)
(* by the name of an entry sends its calls to the server of that entry.    *)
NamedServerUsed ==
  handle.named \in DOMAIN registry => handle.address = EntryAddress(handle.named)

=============================================================================
