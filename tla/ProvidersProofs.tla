-------------------------- MODULE ProvidersProofs --------------------------
(***************************************************************************)
(* Theorems about pools and the operations on their servers, for any       *)
(* registries, names, addresses and models, and any number of failures,    *)
(* recoveries and loads by others.                                         *)
(***************************************************************************)
EXTENDS Providers, TLAPS

Statuses == {"idle", "running", "returned", "unreachable", "failed"}
Instances == SUBSET Instance

Operations == {"none", "check", "loaded", "downloaded", "unload"}
Hows == {"ok", "not ok", "unsupported", "unreachable", "no answer", "listed", "unloaded"}

Answer == [how : Hows, unloaded : Instances, refused : Instances]

Outcomes == UNION {[D -> Answer] : D \in SUBSET Names}

Operation ==
  [call : Operations, sweep : BOOLEAN, todo : SUBSET Names, target : Names \cup {"none"},
   pending : Instances, refused : Instances, done : Instances,
   results : Outcomes,
   fresh : SUBSET (Addresses \X Instance), status : Statuses]

TypeInv ==
  /\ TypeOK
  /\ pool \in [named : Names \cup {"none"}, provider : Names, address : Addresses]
  /\ op \in Operation

-----------------------------------------------------------------------------
(* Names and servers.                                                      *)

LEMMA ConfigType ==
  ASSUME NEW k \in Names, NEW a \in Addresses \cup {"default"}
  PROVE  Config(k, a).provider = k /\ Config(k, a).address \in Addresses
BY DefaultsAssumption DEF Config, DefaultAddress

LEMMA ServerType ==
  ASSUME registry \in Registries, NEW n \in Names
  PROVE  Server(n).provider \in Names /\ Server(n).address \in Addresses
<1>1. CASE n \in DOMAIN registry
  <2>1. registry[n].provider \in Names /\ registry[n].address \in Addresses \cup {"default"}
    BY <1>1, RegistriesAssumption DEF Entry
  <2> QED BY <1>1, <2>1, ConfigType DEF Server
<1>2. CASE n \notin DOMAIN registry
  BY <1>2, ConfigType DEF Server
<1> QED BY <1>1, <1>2

LEMMA AtType ==
  ASSUME registry \in Registries, NEW n \in Names
  PROVE  At(n) \in Addresses /\ Kind(n) \in Names
BY ServerType DEF At, Kind

LEMMA SameServers ==
  ASSUME UNCHANGED registry
  PROVE  \A n : At(n)' = At(n) /\ Kind(n)' = Kind(n)
BY DEF At, Kind, Server

LEMMA ProviderNames ==
  ASSUME registry \in Registries, pool.provider \in Names
  PROVE  GetProviders \subseteq Names /\ GetProviders # {}
BY RegistriesAssumption, DefaultsAssumption DEF GetProviders, CanonicalNames, KnownKinds, Entry

-----------------------------------------------------------------------------
(* The operation's record.                                                 *)

LEMMA NoOpType == NoOp \in Operation /\ NoOp.status = "idle" /\ NoOp.results = [n \in {} |-> {}]
<1> DEFINE none == [n \in {} |-> {}]
<1>1. none \in Outcomes
  <2>1. none \in [{} -> Answer]
    OBVIOUS
  <2> QED BY <2>1 DEF Outcomes
<1>2. {} \in Instances /\ {} \in SUBSET Names /\ {} \in SUBSET (Addresses \X Instance)
  BY DEF Instances
<1>3. "idle" \in Statuses /\ "none" \in Operations
  BY DEF Statuses, Operations
<1>4. NoOp = [call |-> "none", sweep |-> FALSE, todo |-> {}, target |-> "none",
              pending |-> {}, refused |-> {}, done |-> {}, results |-> none,
              fresh |-> {}, status |-> "idle"]
  BY DEF NoOp
<1> HIDE DEF none
<1>5. NoOp \in Operation
  BY <1>1, <1>2, <1>3, <1>4 DEF Operation
<1>6. NoOp.status = "idle" /\ NoOp.results = none
  BY <1>1, <1>2, <1>3, <1>4 DEF Operation
<1> QED BY <1>5, <1>6 DEF none

LEMMA ResultType ==
  ASSUME op \in Operation, NEW how \in Hows, NEW S \in Instances
  PROVE  Result(how, S) \in Answer /\ Result(how, S).how = how
         /\ Result(how, S).refused = op.refused
BY DEF Result, Answer, Operation

LEMMA ConcludeType ==
  ASSUME op \in Operation, NEW n \in Names, NEW r \in Answer, Conclude(n, r)
  PROVE  /\ op' \in Operation
         /\ op'.call = op.call /\ op'.sweep = op.sweep /\ op'.fresh = op.fresh
         /\ op'.todo = op.todo \ {n} /\ op'.target = "none" /\ op'.pending = {}
         /\ op'.results =
              [m \in DOMAIN op.results \cup {n} |-> IF m = n THEN r ELSE op.results[m]]
         /\ op'.status = IF op.todo = {n} THEN "returned" ELSE "running"
<1> DEFINE results ==
      [m \in DOMAIN op.results \cup {n} |-> IF m = n THEN r ELSE op.results[m]]
<1>1. PICK D \in SUBSET Names : op.results \in [D -> Answer]
  BY DEF Operation, Outcomes
<1>2. results \in [D \cup {n} -> Answer] /\ D \cup {n} \in SUBSET Names
  BY <1>1
<1>3. results \in Outcomes
  BY <1>2 DEF Outcomes
<1>4. op' = [op EXCEPT !.results = results, !.todo = @ \ {n}, !.target = "none",
                       !.pending = {}, !.refused = {}, !.done = {},
                       !.status = IF op.todo = {n} THEN "returned" ELSE "running"]
  BY DEF Conclude
<1>5. op.todo \ {n} \in SUBSET Names
  BY DEF Operation
<1>6. {} \in Instances /\ "none" \in Names \cup {"none"}
  BY DEF Instances
<1>7. (IF op.todo = {n} THEN "returned" ELSE "running") \in Statuses
  BY DEF Statuses
<1> HIDE DEF results
<1>8. op' \in Operation
  BY <1>3, <1>4, <1>5, <1>6, <1>7 DEF Operation
<1>9. op'.results = results
  BY <1>4 DEF Operation
<1> QED BY <1>4, <1>8, <1>9 DEF Operation, results

LEMMA StatusType ==
  ASSUME op \in Operation, NEW s \in Statuses, op' = [op EXCEPT !.status = s]
  PROVE  /\ op' \in Operation /\ op'.status = s
         /\ op'.call = op.call /\ op'.sweep = op.sweep /\ op'.fresh = op.fresh
         /\ op'.todo = op.todo /\ op'.target = op.target /\ op'.pending = op.pending
         /\ op'.results = op.results /\ op'.refused = op.refused
BY DEF Operation

-----------------------------------------------------------------------------
(* What the steps of an operation do to its record.                        *)

Ends(n) == \E r \in Answer : Conclude(n, r)

Stops ==
  \E s \in {"unreachable", "failed"} :
    /\ op' = [op EXCEPT !.status = s]
    /\ s = "unreachable" => ~(op.sweep /\ op.call = "unload")

Starts(n) == \E P \in Instances : op' = [op EXCEPT !.target = n, !.pending = P]

GoesOn ==
  \E P, D, Q \in Instances :
    op' = [op EXCEPT !.pending = P, !.done = D, !.refused = Q]

LEMMA UnreachableEffect ==
  ASSUME op \in Operation, NEW n, Unreachable(n)
  PROVE  Ends(n) \/ Stops
<1>1. CASE op.sweep /\ op.call = "unload"
  <2>1. Conclude(n, Result("unreachable", {}))
    BY <1>1 DEF Unreachable
  <2>2. Result("unreachable", {}) \in Answer
    BY ResultType DEF Hows, Instances
  <2> QED BY <2>1, <2>2 DEF Ends
<1>2. CASE ~(op.sweep /\ op.call = "unload")
  BY <1>2 DEF Unreachable, Stops
<1> QED BY <1>1, <1>2

LEMMA AskedType ==
  ASSUME NEW k, NEW here \in Instances, NEW P \in Asked(k, here)
  PROVE  P \in Instances
BY DEF Asked, Instances

LEMMA FetchEffect ==
  ASSUME TypeInv, NEW n \in op.todo, Fetch(n)
  PROVE  /\ op.status = "running" /\ op.target = "none"
         /\ Ends(n) \/ Stops \/ Starts(n)
         /\ loaded' \in [Addresses -> Instances]
         /\ \A a \in Addresses : loaded'[a] \subseteq loaded[a]
<1> DEFINE k == Kind(n)
           here == loaded[At(n)]
<1>0. /\ op \in Operation /\ n \in Names /\ At(n) \in Addresses
      /\ loaded \in [Addresses -> Instances] /\ here \in Instances
  BY AtType DEF TypeInv, TypeOK, Operation, Instances
<1>1. op.status = "running" /\ op.target = "none"
  BY DEF Fetch
<1>2. loaded' = loaded \/ loaded' = [loaded EXCEPT ![At(n)] = {}]
  BY DEF Fetch
<1>3. loaded' \in [Addresses -> Instances] /\ \A a \in Addresses : loaded'[a] \subseteq loaded[a]
  BY <1>0, <1>2 DEF Instances
<1>4. \/ Unreachable(n)
      \/ op' = [op EXCEPT !.status = "failed"]
      \/ \E how \in Hows, S \in {{}, here} : Conclude(n, Result(how, S))
      \/ \E P \in Asked(k, here) : op' = [op EXCEPT !.target = n, !.pending = P]
  BY DEF Fetch, Hows
<1>5. ASSUME NEW how \in Hows, NEW S \in {{}, here}, Conclude(n, Result(how, S))
      PROVE  Ends(n)
  <2>1. Result(how, S) \in Answer
    BY <1>0, ResultType DEF Instances
  <2> QED BY <1>5, <2>1 DEF Ends
<1>6. ASSUME NEW P \in Asked(k, here), op' = [op EXCEPT !.target = n, !.pending = P]
      PROVE  Starts(n)
  BY <1>0, <1>6, AskedType DEF Starts
<1>7. ASSUME op' = [op EXCEPT !.status = "failed"] PROVE Stops
  BY <1>7 DEF Stops
<1> QED BY <1>0, <1>1, <1>3, <1>4, <1>5, <1>6, <1>7, UnreachableEffect

LEMMA UnloadEffect ==
  ASSUME TypeInv, NEW i \in op.pending, Unload(i)
  PROVE  /\ op.status = "running" /\ op.target \in op.todo
         /\ Ends(op.target) \/ GoesOn
         /\ loaded' \in [Addresses -> Instances]
         /\ \A a \in Addresses : loaded'[a] \subseteq loaded[a]
<1> DEFINE n == op.target
           refused == IF condition[At(n)] = "up" THEN op.refused ELSE op.refused \cup {i}
<1>0. /\ op \in Operation /\ n \in op.todo /\ n \in Names /\ At(n) \in Addresses
      /\ loaded \in [Addresses -> Instances] /\ i \in Instance
  <2>1. op \in Operation /\ loaded \in [Addresses -> Instances] /\ registry \in Registries
    BY DEF TypeInv, TypeOK, Instances
  <2>2. n \in op.todo
    BY DEF TypeInv, TypeOK
  <2>3. n \in Names /\ i \in Instance
    BY <2>1, <2>2 DEF Operation, Instances
  <2> QED BY <2>1, <2>2, <2>3, AtType
<1>1. op.status = "running"
  BY DEF Unload
<1>2. loaded' = loaded \/ loaded' = [loaded EXCEPT ![At(n)] = @ \ {i}]
  BY DEF Unload
<1>3. loaded' \in [Addresses -> Instances] /\ \A a \in Addresses : loaded'[a] \subseteq loaded[a]
  BY <1>0, <1>2 DEF Instances
<1>4. refused \in Instances /\ op.done \cup {i} \in Instances /\ op.pending \ {i} \in Instances
  BY <1>0 DEF Operation, Instances
<1>5. \/ Conclude(n, [Result("unloaded", op.done \cup {i}) EXCEPT !.refused = refused])
      \/ op' = [op EXCEPT !.pending = @ \ {i}, !.done = @ \cup {i}, !.refused = refused]
  BY DEF Unload
<1>6. [Result("unloaded", op.done \cup {i}) EXCEPT !.refused = refused] \in Answer
  BY <1>4 DEF Result, Answer, Hows
<1>7. CASE Conclude(n, [Result("unloaded", op.done \cup {i}) EXCEPT !.refused = refused])
  BY <1>0, <1>1, <1>3, <1>6, <1>7 DEF Ends
<1>8. CASE op' = [op EXCEPT !.pending = @ \ {i}, !.done = @ \cup {i}, !.refused = refused]
  <2>1. GoesOn
    BY <1>4, <1>8 DEF GoesOn
  <2> QED BY <2>1, <1>0, <1>1, <1>3
<1> QED BY <1>5, <1>7, <1>8

(* The parts of the record that every step of an operation leaves alone,   *)
(* and what becomes of the rest.                                           *)
Kept == op'.call = op.call /\ op'.sweep = op.sweep /\ op'.fresh = op.fresh

Ended(n) ==
  /\ op'.todo = op.todo \ {n}
  /\ DOMAIN op'.results = DOMAIN op.results \cup {n}
  /\ op'.target = "none" /\ op'.pending = {}
  /\ op'.status = IF op.todo = {n} THEN "returned" ELSE "running"

SameResults == op'.todo = op.todo /\ op'.results = op.results

LEMMA EndsFields ==
  ASSUME op \in Operation, NEW n \in Names, Ends(n)
  PROVE  op' \in Operation /\ Kept /\ Ended(n)
<1>1. PICK r \in Answer : Conclude(n, r)
  BY DEF Ends
<1> QED BY <1>1, ConcludeType DEF Kept, Ended

LEMMA StopsFields ==
  ASSUME op \in Operation, Stops
  PROVE  /\ op' \in Operation /\ Kept /\ SameResults
         /\ op'.target = op.target /\ op'.pending = op.pending
         /\ op'.status \in {"unreachable", "failed"}
         /\ op'.status = "unreachable" => ~(op.sweep /\ op.call = "unload")
<1>1. PICK s \in {"unreachable", "failed"} :
        /\ op' = [op EXCEPT !.status = s]
        /\ s = "unreachable" => ~(op.sweep /\ op.call = "unload")
  BY DEF Stops
<1>2. s \in Statuses
  BY DEF Statuses
<1> QED BY <1>1, <1>2, StatusType DEF Kept, SameResults

LEMMA StartsFields ==
  ASSUME op \in Operation, NEW n \in Names, Starts(n)
  PROVE  /\ op' \in Operation /\ Kept /\ SameResults
         /\ op'.target = n /\ op'.status = op.status
BY DEF Starts, Operation, Kept, SameResults

LEMMA GoesOnFields ==
  ASSUME op \in Operation, GoesOn
  PROVE  /\ op' \in Operation /\ Kept /\ SameResults
         /\ op'.target = op.target /\ op'.status = op.status
<1>1. PICK P, D, Q \in Instances :
        op' = [op EXCEPT !.pending = P, !.done = D, !.refused = Q]
  BY DEF GoesOn
<1> QED BY <1>1 DEF Operation, Kept, SameResults

-----------------------------------------------------------------------------
(* Types.                                                                  *)

LEMMA InitTypeInv == Init => TypeInv
<1> SUFFICES ASSUME Init PROVE TypeInv
  OBVIOUS
<1>1. DefaultAddress("ollama") \in Addresses /\ "ollama" \in Names
  BY DefaultsAssumption DEF DefaultAddress, KnownKinds
<1>2. op \in Operation
  BY NoOpType DEF Init
<1>3. op.status = "idle" /\ op.target = "none" /\ op.pending = {}
  BY DEF Init, NoOp
<1>4. /\ registry \in Registries /\ events \in 0..MaxEvents
      /\ condition \in [Addresses -> {"up", "down", "error"}]
      /\ loaded \in [Addresses -> SUBSET Instance]
  BY LoadedAssumption, MaxEventsAssumption DEF Init
<1>5. /\ pool.address \in Addresses /\ handle.address \in Addresses
      /\ pool \in [named : Names \cup {"none"}, provider : Names, address : Addresses]
  BY <1>1 DEF Init, NoHandle
<1> QED BY <1>2, <1>3, <1>4, <1>5 DEF TypeInv, TypeOK

(* A step that leaves the operation alone.                                 *)
LEMMA NextTypeInvIdle ==
  ASSUME TypeInv, UNCHANGED <<registry, servers, op>>,
         \/ \E n \in Names : GetProvider(n)
         \/ \E n \in Names, O \in SUBSET {"host", "load_timeout"},
               a \in Addresses \cup {"default"} : LoadModel(n, O, a)
  PROVE  TypeInv'
<1>1. ASSUME NEW n \in Names, GetProvider(n) PROVE TypeInv'
  <2>1. /\ pool' \in [named : Names \cup {"none"}, provider : Names, address : Addresses]
        /\ pool'.address \in Addresses
    BY <1>1, ServerType DEF GetProvider, Pool, TypeInv, TypeOK
  <2>2. handle' = handle
    BY <1>1 DEF GetProvider
  <2> QED BY <2>1, <2>2 DEF TypeInv, TypeOK, servers
<1>2. ASSUME NEW n \in Names, NEW O \in SUBSET {"host", "load_timeout"},
             NEW a \in Addresses \cup {"default"}, LoadModel(n, O, a)
      PROVE TypeInv'
  <2>1. handle'.address \in Addresses
    BY <1>2, ServerType, ConfigType DEF LoadModel, TypeInv, TypeOK
  <2>2. pool' = pool
    BY <1>2 DEF LoadModel
  <2> QED BY <2>1, <2>2 DEF TypeInv, TypeOK, servers
<1> QED BY <1>1, <1>2

LEMMA OperateType ==
  ASSUME TypeInv, Operate
  PROVE  /\ op' \in Operation /\ op'.target = "none" /\ op'.pending = {}
         /\ op'.status = "running" => op'.todo # {}
         /\ handle' = NoHandle /\ UNCHANGED <<registry, pool, servers>>
         /\ op.status = "idle"
         /\ \/ ~op'.sweep
            \/ op'.todo = GetProviders /\ op'.status = "running"
<1>1. ASSUME NEW k \in Names, NEW a, Check(k, a)
      PROVE  /\ op' \in Operation /\ op'.target = "none" /\ op'.pending = {}
             /\ op'.status # "running" /\ ~op'.sweep
  <2> DEFINE how == IF condition[a] = "up" THEN "ok" ELSE "not ok"
             results == [m \in {k} |-> Result(how, {})]
  <2>1. Result(how, {}) \in Answer
    BY ResultType DEF TypeInv, Hows, Instances
  <2>2. results \in Outcomes
    <3>1. results \in [{k} -> Answer] /\ {k} \in SUBSET Names
      BY <2>1
    <3> QED BY <3>1 DEF Outcomes
  <2>3. op' = [NoOp EXCEPT !.call = "check", !.status = "returned", !.results = results]
    BY <1>1 DEF Check
  <2>4. NoOp.target = "none" /\ NoOp.pending = {} /\ NoOp.sweep = FALSE
    BY DEF NoOp
  <2>5. "check" \in Operations /\ "returned" \in Statuses
    BY DEF Operations, Statuses
  <2> HIDE DEF results
  <2> QED BY <2>2, <2>3, <2>4, <2>5, NoOpType DEF Operation
<1>2. ASSUME NEW call \in {"loaded", "downloaded", "unload"}, NEW todo \in SUBSET Names,
             NEW sweep \in BOOLEAN, Begin(call, todo, sweep)
      PROVE  /\ op' \in Operation /\ op'.target = "none" /\ op'.pending = {}
             /\ op'.status = "running" /\ op'.sweep = sweep /\ op'.todo = todo
  <2>1. op' = [NoOp EXCEPT !.call = call, !.sweep = sweep, !.todo = todo, !.status = "running"]
    BY <1>2 DEF Begin
  <2>2. NoOp.target = "none" /\ NoOp.pending = {}
    BY DEF NoOp
  <2>3. call \in Operations /\ "running" \in Statuses
    BY DEF Operations, Statuses
  <2> QED BY <2>1, <2>2, <2>3, NoOpType DEF Operation
<1>3. /\ pool.provider \in Names /\ \A n \in Names : Kind(n) \in Names
      /\ GetProviders \subseteq Names /\ GetProviders # {}
  BY AtType, ProviderNames DEF TypeInv, TypeOK
<1>4. handle' = NoHandle /\ UNCHANGED <<registry, pool, servers>> /\ op.status = "idle"
  BY DEF Operate, Check, Begin, Idle
<1>5. CASE Check(pool.provider, pool.address) \/ \E n \in Names : Check(Kind(n), At(n))
  BY <1>1, <1>3, <1>4, <1>5
<1>6. CASE \E call \in {"loaded", "downloaded", "unload"} :
             Begin(call, {pool.provider}, FALSE) \/ \E n \in Names : Begin(call, {n}, FALSE)
  BY <1>2, <1>3, <1>4, <1>6
<1>7. CASE \E call \in {"loaded", "downloaded", "unload"} : Begin(call, GetProviders, TRUE)
  BY <1>2, <1>3, <1>4, <1>7
<1> QED BY <1>5, <1>6, <1>7 DEF Operate

(* Every step of an operation, by what it does to the operation.           *)
LEMMA StepEffect ==
  ASSUME TypeInv, Step
  PROVE  /\ op.status = "running" /\ op \in Operation
         /\ UNCHANGED <<registry, pool, handle, condition, events>>
         /\ loaded' \in [Addresses -> Instances]
         /\ \A a \in Addresses : loaded'[a] \subseteq loaded[a]
         /\ \E n \in op.todo :
              /\ n \in Names
              /\ \/ Ends(n)
                 \/ Stops
                 \/ op.target = "none" /\ Starts(n)
                 \/ n = op.target /\ GoesOn
<1>0. /\ op \in Operation /\ op.todo \subseteq Names /\ loaded \in [Addresses -> Instances]
      /\ op.target # "none" => op.target \in op.todo
      /\ op.target = "none" => op.pending = {}
  BY DEF TypeInv, TypeOK, Operation, Instances
<1>1. ASSUME NEW n \in op.todo, Fetch(n) PROVE UNCHANGED <<registry, pool, handle, condition, events>>
  BY <1>1 DEF Fetch
<1>2. ASSUME NEW i \in op.pending, Unload(i) PROVE UNCHANGED <<registry, pool, handle, condition, events>>
  BY <1>2 DEF Unload
<1>3. CASE \E n \in op.todo : Fetch(n)
  BY <1>0, <1>1, <1>3, FetchEffect
<1>4. CASE \E i \in op.pending : Unload(i)
  BY <1>0, <1>2, <1>4, UnloadEffect
<1>5. CASE UnloadUnreachable
  BY <1>0, <1>5, UnreachableEffect DEF UnloadUnreachable, servers
<1> QED BY <1>3, <1>4, <1>5 DEF Step

LEMMA StepTypeInv == TypeInv /\ Step => TypeInv'
<1> SUFFICES ASSUME TypeInv, Step PROVE TypeInv'
  OBVIOUS
<1>1. /\ op.status = "running" /\ op \in Operation
      /\ UNCHANGED <<registry, pool, handle, condition, events>>
      /\ loaded' \in [Addresses -> Instances]
  BY StepEffect
<1>2. PICK n \in op.todo :
        /\ n \in Names
        /\ Ends(n) \/ Stops \/ (op.target = "none" /\ Starts(n)) \/ (n = op.target /\ GoesOn)
  BY StepEffect
<1>3. /\ op' \in Operation
      /\ op'.status = "running" => op'.todo # {}
      /\ op'.target = "none" => op'.pending = {}
      /\ op'.target # "none" => op'.target \in op'.todo
  <2>1. CASE Ends(n)
    <3>1. op' \in Operation /\ Ended(n)
      BY <1>1, <1>2, <2>1, EndsFields
    <3> QED BY <3>1, <1>2 DEF Ended
  <2>2. CASE Stops
    <3>1. /\ op' \in Operation /\ SameResults /\ op'.status \in {"unreachable", "failed"}
          /\ op'.target = op.target /\ op'.pending = op.pending
      BY <1>1, <2>2, StopsFields
    <3> QED BY <3>1 DEF TypeInv, TypeOK, SameResults
  <2>3. CASE op.target = "none" /\ Starts(n)
    <3>1. op' \in Operation /\ SameResults /\ op'.target = n
      BY <1>1, <1>2, <2>3, StartsFields
    <3>2. n # "none"
      BY <1>2, NamesAssumption
    <3> QED BY <3>1, <3>2, <1>2 DEF SameResults
  <2>4. CASE n = op.target /\ GoesOn
    <3>1. op' \in Operation /\ SameResults /\ op'.target = n
      BY <1>1, <1>2, <2>4, GoesOnFields
    <3>2. n # "none"
      BY <1>2, NamesAssumption
    <3> QED BY <3>1, <3>2, <1>2 DEF SameResults
  <2> QED BY <1>2, <2>1, <2>2, <2>3, <2>4
<1>4. op'.status \in Statuses
  BY <1>3 DEF Operation
<1> QED BY <1>1, <1>3, <1>4 DEF TypeInv, TypeOK, Instances, Statuses

(* What others do to the servers.                                          *)
LEMMA OthersLoadEffect ==
  ASSUME TypeInv, NEW a \in Addresses, NEW i \in Models \X {1}, OthersLoad(a, i)
  PROVE  /\ op' = [op EXCEPT !.fresh = @ \cup {<<a, i>>}] /\ op' \in Operation
         /\ loaded' = [loaded EXCEPT ![a] = @ \cup {i}]
         /\ loaded' \in [Addresses -> Instances]
         /\ UNCHANGED <<registry, pool, handle, condition>>
         /\ events' \in 0..MaxEvents
<1>1. i \in Instance
  BY DEF Instance
<1>2. op.fresh \cup {<<a, i>>} \in SUBSET (Addresses \X Instance)
  BY <1>1 DEF TypeInv, Operation
<1>3. op' = [op EXCEPT !.fresh = @ \cup {<<a, i>>}] /\ op' \in Operation
  BY <1>2 DEF OthersLoad, TypeInv, Operation
<1> QED
  BY <1>1, <1>3, MaxEventsAssumption DEF OthersLoad, Change, TypeInv, TypeOK, Instances

LEMMA OthersTypeInv ==
  ASSUME TypeInv,
         \/ \E a \in Addresses, i \in Models \X {1} : OthersLoad(a, i)
         \/ \E a \in Addresses, c \in {"up", "down", "error"} : Turn(a, c)
  PROVE  TypeInv'
<1>1. ASSUME NEW a \in Addresses, NEW i \in Models \X {1}, OthersLoad(a, i) PROVE TypeInv'
  <2>1. /\ op'.status = op.status /\ op'.todo = op.todo /\ op'.target = op.target
        /\ op'.pending = op.pending
    BY <1>1, OthersLoadEffect DEF TypeInv, Operation
  <2> QED BY <1>1, <2>1, OthersLoadEffect DEF TypeInv, TypeOK, Instances
<1>2. ASSUME NEW a \in Addresses, NEW c \in {"up", "down", "error"}, Turn(a, c) PROVE TypeInv'
  BY <1>2, MaxEventsAssumption DEF Turn, Change, TypeInv, TypeOK
<1> QED BY <1>1, <1>2

LEMMA NextTypeInv == TypeInv /\ [Next]_vars => TypeInv'
<1> SUFFICES ASSUME TypeInv, [Next]_vars PROVE TypeInv'
  OBVIOUS
<1>1. CASE \/ \E n \in Names : GetProvider(n)
           \/ \E n \in Names, O \in SUBSET {"host", "load_timeout"},
                 a \in Addresses \cup {"default"} : LoadModel(n, O, a)
  <2>1. UNCHANGED <<registry, servers, op>>
    BY <1>1 DEF GetProvider, LoadModel
  <2> QED BY <1>1, <2>1, NextTypeInvIdle
<1>2. CASE Operate
  <2>1. NoHandle.address \in Addresses
    BY DefaultsAssumption DEF NoHandle, DefaultAddress, KnownKinds
  <2>2. op'.status \in Statuses
    BY <1>2, OperateType DEF Operation
  <2> QED BY <1>2, <2>1, <2>2, OperateType DEF TypeInv, TypeOK, servers, Statuses
<1>3. CASE Step
  BY <1>3, StepTypeInv
<1>4. CASE \/ \E a \in Addresses, i \in Models \X {1} : OthersLoad(a, i)
           \/ \E a \in Addresses, c \in {"up", "down", "error"} : Turn(a, c)
  BY <1>4, OthersTypeInv
<1>5. CASE UNCHANGED vars
  BY <1>5 DEF vars, servers, TypeInv, TypeOK
<1> QED BY <1>1, <1>2, <1>3, <1>4, <1>5 DEF Next

(* An operation under way has a provider left, and what it has still to    *)
(* unload is of the provider whose turn it is.                             *)
THEOREM TypeCorrect == Spec => []TypeOK
<1>1. TypeInv => TypeOK
  BY DEF TypeInv
<1> QED BY <1>1, InitTypeInv, NextTypeInv, PTL DEF Spec

-----------------------------------------------------------------------------
(* unload_all_models(None).                                                *)

Expected ==
  KnownKinds \cup {registry[n].provider : n \in DOMAIN registry} \cup {pool.provider}

(* Every provider kind is reported or has its turn to come; no operation   *)
(* is under way while the program takes another pool.                      *)
SweepInv ==
  /\ op.status = "idle" => ~op.sweep
  /\ op.sweep /\ op.call = "unload" =>
       /\ op.status # "unreachable"
       /\ Expected \subseteq op.todo \cup DOMAIN op.results
       /\ op.status = "returned" => op.todo = {}

LEMMA InitSweepInv == Init => SweepInv
BY DEF Init, NoOp, SweepInv

LEMMA ExpectedIsAsked == Expected \subseteq GetProviders
BY DEF Expected, GetProviders, CanonicalNames

LEMMA StepSweepInv == TypeInv /\ SweepInv /\ Step => SweepInv'
<1> SUFFICES ASSUME TypeInv, SweepInv, Step PROVE SweepInv'
  OBVIOUS
<1>1. /\ op.status = "running" /\ op \in Operation /\ UNCHANGED <<registry, pool>>
  BY StepEffect
<1>2. PICK n \in op.todo :
        /\ n \in Names
        /\ Ends(n) \/ Stops \/ (op.target = "none" /\ Starts(n)) \/ (n = op.target /\ GoesOn)
  BY StepEffect
<1>3. Expected' = Expected
  BY <1>1 DEF Expected
<1>4. CASE Ends(n)
  <2>1. Kept /\ Ended(n)
    BY <1>1, <1>2, <1>4, EndsFields
  <2> QED BY <1>3, <2>1 DEF Kept, Ended, SweepInv
<1>5. CASE Stops
  <2>1. /\ Kept /\ SameResults /\ op'.status \in {"unreachable", "failed"}
        /\ op'.status = "unreachable" => ~(op.sweep /\ op.call = "unload")
    BY <1>1, <1>5, StopsFields
  <2> QED BY <1>3, <2>1 DEF Kept, SameResults, SweepInv
<1>6. CASE Starts(n) \/ GoesOn
  <2>1. Kept /\ SameResults /\ op'.status = op.status
    BY <1>1, <1>2, <1>6, StartsFields, GoesOnFields
  <2> QED BY <1>1, <1>3, <2>1 DEF Kept, SameResults, SweepInv
<1> QED BY <1>2, <1>4, <1>5, <1>6

LEMMA NextSweepInv == TypeInv /\ SweepInv /\ [Next]_vars => SweepInv'
<1> SUFFICES ASSUME TypeInv, SweepInv, [Next]_vars PROVE SweepInv'
  OBVIOUS
<1>1. ASSUME op.status = "idle", op' = op PROVE SweepInv'
  BY <1>1 DEF SweepInv
<1>2. CASE Operate
  <2>1. /\ UNCHANGED <<registry, pool>>
        /\ ~op'.sweep \/ (op'.todo = GetProviders /\ op'.status = "running")
    BY <1>2, OperateType
  <2>2. Expected' = Expected
    BY <2>1 DEF Expected
  <2> QED BY <2>1, <2>2, ExpectedIsAsked DEF SweepInv
<1>3. CASE Step
  BY <1>3, StepSweepInv
<1>4. ASSUME NEW a \in Addresses, NEW i \in Models \X {1}, OthersLoad(a, i) PROVE SweepInv'
  <2>1. /\ op'.status = op.status /\ op'.todo = op.todo /\ op'.sweep = op.sweep
        /\ op'.call = op.call /\ op'.results = op.results
        /\ UNCHANGED <<registry, pool>>
    BY <1>4, OthersLoadEffect DEF TypeInv, Operation
  <2> QED BY <2>1 DEF SweepInv, Expected
<1>5. CASE (\E a \in Addresses, c \in {"up", "down", "error"} : Turn(a, c)) \/ UNCHANGED vars
  BY <1>5 DEF Turn, Change, vars, SweepInv, Expected
<1>6. CASE \/ \E n \in Names : GetProvider(n)
           \/ \E n \in Names, O \in SUBSET {"host", "load_timeout"},
                 a \in Addresses \cup {"default"} : LoadModel(n, O, a)
  BY <1>1, <1>6 DEF GetProvider, LoadModel, Idle
<1> QED BY <1>2, <1>3, <1>4, <1>5, <1>6 DEF Next

(* No server that cannot be reached stops unload_all_models(None), and     *)
(* what it returns accounts for every provider kind.                       *)
THEOREM SweepsReportAll == Spec => []SweepReportsEveryProvider
<1>1. SweepInv => SweepReportsEveryProvider
  BY DEF SweepInv, Expected, SweepReportsEveryProvider
<1> QED BY <1>1, InitTypeInv, NextTypeInv, InitSweepInv, NextSweepInv, PTL DEF Spec

-----------------------------------------------------------------------------
(* The server of a registry entry named like its kind.                     *)

(* A pool was made from the name the program gave, or at the start.        *)
PoolInv == pool.named = "none" \/ pool = Pool(pool.named)

LEMMA NextPoolInv == PoolInv /\ TypeInv /\ [Next]_vars => PoolInv'
<1> SUFFICES ASSUME PoolInv, TypeInv, [Next]_vars PROVE PoolInv'
  OBVIOUS
<1>1. ASSUME NEW n \in Names, GetProvider(n) PROVE PoolInv'
  <2>1. pool' = Pool(n) /\ registry' = registry
    BY <1>1 DEF GetProvider
  <2>2. Pool(n).named = n
    BY DEF Pool
  <2> QED BY <2>1, <2>2 DEF PoolInv, Pool, Server
<1>2. CASE UNCHANGED <<registry, pool>>
  BY <1>2 DEF PoolInv, Pool, Server
<1>3. CASE Operate
  BY <1>2, <1>3, OperateType
<1>4. CASE Step
  BY <1>2, <1>4, StepEffect
<1>5. CASE \/ \E n \in Names, O \in SUBSET {"host", "load_timeout"},
                 a \in Addresses \cup {"default"} : LoadModel(n, O, a)
           \/ \E a \in Addresses, i \in Models \X {1} : OthersLoad(a, i)
           \/ \E a \in Addresses, c \in {"up", "down", "error"} : Turn(a, c)
           \/ UNCHANGED vars
  BY <1>2, <1>5 DEF LoadModel, OthersLoad, Turn, Change, vars
<1> QED BY <1>1, <1>3, <1>4, <1>5 DEF Next

(* A pool made from an entry that is named like its kind, and every        *)
(* operation of it, use the server of that entry.                          *)
THEOREM CanonicalServersAreUsed == Spec => []CanonicalServerUsed
<1>1. TypeInv /\ PoolInv => CanonicalServerUsed
  <2> SUFFICES ASSUME TypeInv, PoolInv, NEW n \in DOMAIN registry,
                      registry[n].provider = n, pool.named = n
               PROVE  pool.address = EntryAddress(n) /\ At(pool.provider) = pool.address
    BY DEF CanonicalServerUsed
  <2>1. n # "none"
    BY RegistriesAssumption, NamesAssumption DEF TypeInv, TypeOK
  <2>2. pool = Pool(n)
    BY <2>1 DEF PoolInv
  <2>3. Server(n) = Config(n, registry[n].address)
    BY DEF Server
  <2>4. pool.provider = n /\ pool.address = EntryAddress(n)
    BY <2>2, <2>3 DEF Pool, Config, EntryAddress
  <2> QED BY <2>3, <2>4 DEF At, EntryAddress
<1>2. Init => PoolInv
  BY DEF Init, PoolInv
<1> QED BY <1>1, <1>2, InitTypeInv, NextTypeInv, NextPoolInv, PTL DEF Spec

-----------------------------------------------------------------------------
(* What unload_all_models leaves loaded.                                   *)

(* Why a model may be loaded on a server reported as unloaded.             *)
Excused(n, i, R) ==
  \/ <<At(n), i>> \in op.fresh
  \/ i \in R
  \/ Kind(n) = "lm_studio" /\ i[2] > 1
  \/ Kind(n) = "unsloth"

(* In the middle of a provider's turn: or it has still to be unloaded.     *)
StayInv ==
  /\ \A n \in DOMAIN op.results :
       op.results[n].how = "unloaded" =>
         \A i \in loaded[At(n)] : Excused(n, i, op.results[n].refused)
  /\ op.target # "none" =>
       \A i \in loaded[At(op.target)] :
         i \in op.pending \/ Excused(op.target, i, op.refused)

LEMMA ResultNames ==
  ASSUME TypeInv
  PROVE  DOMAIN op.results \subseteq Names /\ \A n \in DOMAIN op.results : At(n) \in Addresses
<1>1. DOMAIN op.results \subseteq Names
  BY DEF TypeInv, Operation, Outcomes
<1> QED BY <1>1, AtType DEF TypeInv, TypeOK

LEMMA ConcludeStays ==
  ASSUME TypeInv, StayInv, UNCHANGED registry,
         \A a \in Addresses : loaded'[a] \subseteq loaded[a],
         NEW n \in Names, NEW r \in Answer, Conclude(n, r),
         r.how = "unloaded" => \A i \in loaded'[At(n)] : Excused(n, i, r.refused)
  PROVE  StayInv'
<1>1. /\ op'.fresh = op.fresh /\ op'.target = "none"
      /\ op'.results =
           [m \in DOMAIN op.results \cup {n} |-> IF m = n THEN r ELSE op.results[m]]
  BY ConcludeType DEF TypeInv
<1>2. ASSUME NEW m \in DOMAIN op'.results, op'.results[m].how = "unloaded",
             NEW i \in loaded'[At(m)']
      PROVE  Excused(m, i, op.results[m].refused)'
  <2>1. CASE m = n
    BY <1>1, <1>2, <2>1, SameServers DEF Excused
  <2>2. CASE m # n
    <3>1. m \in DOMAIN op.results /\ op'.results[m] = op.results[m]
      BY <1>1, <2>2
    <3>2. i \in loaded[At(m)]
      BY <1>2, <3>1, ResultNames, SameServers
    <3> QED BY <1>1, <1>2, <3>1, <3>2, SameServers DEF StayInv, Excused
  <2> QED BY <2>1, <2>2
<1> QED BY <1>1, <1>2 DEF StayInv

(* The operation goes on, or stops, with the results it has.               *)
LEMMA SameResultsStay ==
  ASSUME TypeInv, StayInv, UNCHANGED registry, op'.fresh = op.fresh,
         op'.results = op.results,
         \A a \in Addresses : loaded'[a] \subseteq loaded[a],
         op'.target # "none" =>
           \A i \in loaded'[At(op'.target)] :
             i \in op'.pending \/ Excused(op'.target, i, op'.refused)
  PROVE  StayInv'
<1>1. ASSUME NEW m \in DOMAIN op'.results, op'.results[m].how = "unloaded",
             NEW i \in loaded'[At(m)']
      PROVE  Excused(m, i, op.results[m].refused)'
  BY <1>1, ResultNames, SameServers DEF StayInv, Excused
<1>2. ASSUME op'.target # "none", NEW i \in loaded'[At(op.target)']
      PROVE  i \in op'.pending \/ Excused(op.target, i, op.refused)'
  <2>1. At(op.target)' = At(op'.target) /\ Kind(op.target)' = Kind(op'.target)
    BY DEF At, Kind, Server
  <2>2. i \in op'.pending \/ Excused(op'.target, i, op'.refused)
    BY <1>2, <2>1
  <2> QED BY <2>1, <2>2 DEF Excused
<1> QED BY <1>1, <1>2 DEF StayInv

(* What is unloaded one by one, and what is not.                           *)
LEMMA AskedIsAll ==
  ASSUME NEW n, NEW here \in Instances, NEW P \in Asked(Kind(n), here), NEW i \in here
  PROVE  i \in P \/ Excused(n, i, {})
<1>1. CASE Kind(n) = "lm_studio"
  <2>1. P = {x \in here : \A j \in here : j[1] = x[1] => x[2] <= j[2]}
    BY <1>1 DEF Asked
  <2>2. \A x \in here : x[2] \in {1, 2}
    BY DEF Instances, Instance
  <2>3. CASE i \notin P
    <3>1. PICK j \in here : ~(i[2] <= j[2])
      BY <2>1, <2>3
    <3>2. i[2] > 1
      BY <2>2, <3>1
    <3> QED BY <1>1, <3>2 DEF Excused
  <2> QED BY <2>3
<1>2. CASE Kind(n) = "unsloth"
  BY <1>2 DEF Excused
<1>3. CASE Kind(n) \notin {"lm_studio", "unsloth"}
  <2>1. P = here
    BY <1>3 DEF Asked
  <2> QED BY <2>1
<1> QED BY <1>1, <1>2, <1>3

LEMMA UnreachableStays ==
  ASSUME TypeInv, StayInv, NEW n \in Names, Unreachable(n), UNCHANGED <<registry, loaded>>
  PROVE  StayInv'
<1>1. \A a \in Addresses : loaded'[a] \subseteq loaded[a]
  OBVIOUS
<1>2. CASE op.sweep /\ op.call = "unload"
  <2>1. Conclude(n, Result("unreachable", {}))
    BY <1>2 DEF Unreachable
  <2>2. Result("unreachable", {}) \in Answer /\ Result("unreachable", {}).how # "unloaded"
    BY ResultType DEF TypeInv, Hows, Instances
  <2> QED BY <1>1, <2>1, <2>2, ConcludeStays
<1>3. CASE ~(op.sweep /\ op.call = "unload")
  <2>1. op' = [op EXCEPT !.status = "unreachable"] /\ "unreachable" \in Statuses
    BY <1>3 DEF Unreachable, Statuses
  <2>2. /\ op'.fresh = op.fresh /\ op'.results = op.results /\ op'.target = op.target
        /\ op'.pending = op.pending /\ op'.refused = op.refused
    BY <2>1, StatusType DEF TypeInv
  <2> QED BY <1>1, <2>2, SameResultsStay DEF StayInv
<1> QED BY <1>2, <1>3

LEMMA FetchStays ==
  ASSUME TypeInv, StayInv, NEW n \in op.todo, Fetch(n)
  PROVE  StayInv'
<1> DEFINE k == Kind(n)
           here == loaded[At(n)]
<1>0. /\ op \in Operation /\ n \in Names /\ At(n) \in Addresses /\ registry' = registry
      /\ here \in Instances /\ \A a \in Addresses : loaded'[a] \subseteq loaded[a]
  BY AtType, FetchEffect DEF TypeInv, TypeOK, Operation, Fetch, Instances
<1>1. \/ Unreachable(n) /\ loaded' = loaded
      \/ op' = [op EXCEPT !.status = "failed"]
      \/ \E how \in Hows \ {"unloaded"} : Conclude(n, Result(how, {}))
      \/ Conclude(n, Result("unloaded", here)) /\ loaded' = [loaded EXCEPT ![At(n)] = {}]
      \/ {} \in Asked(k, here) /\ Conclude(n, Result("unloaded", {}))
      \/ \E P \in Asked(k, here) : op' = [op EXCEPT !.target = n, !.pending = P]
  BY DEF Fetch, Hows
<1>2. CASE Unreachable(n) /\ loaded' = loaded
  BY <1>0, <1>2, UnreachableStays
<1>3. CASE op' = [op EXCEPT !.status = "failed"]
  <2>1. "failed" \in Statuses
    BY DEF Statuses
  <2>2. /\ op'.fresh = op.fresh /\ op'.results = op.results /\ op'.target = op.target
    BY <1>0, <1>3, <2>1, StatusType
  <2>3. op.target = "none"
    BY DEF Fetch
  <2> QED BY <1>0, <2>2, <2>3, SameResultsStay
<1>4. CASE \E how \in Hows \ {"unloaded"} : Conclude(n, Result(how, {}))
  <2>1. PICK how \in Hows \ {"unloaded"} : Conclude(n, Result(how, {}))
    BY <1>4
  <2>2. Result(how, {}) \in Answer /\ Result(how, {}).how # "unloaded"
    BY <1>0, ResultType DEF Instances
  <2> QED BY <1>0, <2>1, <2>2, ConcludeStays
<1>5. CASE Conclude(n, Result("unloaded", here)) /\ loaded' = [loaded EXCEPT ![At(n)] = {}]
  <2>1. loaded'[At(n)] = {}
    BY <1>0, <1>5 DEF TypeInv, TypeOK
  <2>2. Result("unloaded", here) \in Answer
    BY <1>0, ResultType DEF Hows
  <2> QED BY <1>0, <1>5, <2>1, <2>2, ConcludeStays
<1>6. CASE {} \in Asked(k, here) /\ Conclude(n, Result("unloaded", {}))
  <2>1. \A i \in here : Excused(n, i, {})
    BY <1>0, <1>6, AskedIsAll
  <2>2. \A i \in loaded'[At(n)] : Excused(n, i, Result("unloaded", {}).refused)
    BY <1>0, <2>1 DEF Excused
  <2>3. Result("unloaded", {}) \in Answer
    BY <1>0, ResultType DEF Hows, Instances
  <2> QED BY <1>0, <1>6, <2>2, <2>3, ConcludeStays
<1>7. ASSUME NEW P \in Asked(k, here), op' = [op EXCEPT !.target = n, !.pending = P]
      PROVE  StayInv'
  <2>1. /\ op'.fresh = op.fresh /\ op'.results = op.results /\ op'.target = n
        /\ op'.pending = P
    BY <1>0, <1>7 DEF Operation
  <2>2. \A i \in loaded'[At(n)] : i \in P \/ Excused(n, i, op'.refused)
    BY <1>0, AskedIsAll DEF Excused
  <2> QED BY <1>0, <2>1, <2>2, SameResultsStay
<1> QED BY <1>1, <1>2, <1>3, <1>4, <1>5, <1>6, <1>7

LEMMA UnloadStays ==
  ASSUME TypeInv, StayInv, NEW i \in op.pending, Unload(i)
  PROVE  StayInv'
<1> DEFINE n == op.target
           refused == IF condition[At(n)] = "up" THEN op.refused ELSE op.refused \cup {i}
           r == [Result("unloaded", op.done \cup {i}) EXCEPT !.refused = refused]
<1>0. /\ op \in Operation /\ n \in Names /\ At(n) \in Addresses /\ registry' = registry
      /\ n # "none" /\ loaded \in [Addresses -> Instances] /\ i \in Instance
      /\ \A a \in Addresses : loaded'[a] \subseteq loaded[a]
  <2>1. op \in Operation /\ loaded \in [Addresses -> Instances] /\ n # "none"
    BY UnloadEffect, NamesAssumption DEF TypeInv, TypeOK, Instances, Operation
  <2>2. n \in op.todo /\ registry' = registry /\ \A a \in Addresses : loaded'[a] \subseteq loaded[a]
    BY UnloadEffect DEF Unload
  <2>3. n \in Names /\ i \in Instance
    BY <2>1, <2>2 DEF Operation, Instances
  <2> QED BY <2>1, <2>2, <2>3, AtType DEF TypeInv, TypeOK
<1>1. refused \in Instances /\ op.done \cup {i} \in Instances
  BY <1>0 DEF Operation, Instances
<1>2. \/ Conclude(n, r) /\ op.pending = {i}
      \/ op' = [op EXCEPT !.pending = @ \ {i}, !.done = @ \cup {i}, !.refused = refused]
  BY DEF Unload
<1>3. loaded' = IF condition[At(n)] = "up" THEN [loaded EXCEPT ![At(n)] = @ \ {i}] ELSE loaded
  BY DEF Unload
<1>4. \A j \in loaded'[At(n)] : j \in op.pending \ {i} \/ Excused(n, j, refused)
  <2>1. \A j \in loaded[At(n)] : j \in op.pending \/ Excused(n, j, op.refused)
    BY <1>0 DEF StayInv
  <2>2. i \in loaded'[At(n)] => i \in refused
    BY <1>0, <1>3
  <2>3. op.refused \subseteq refused /\ loaded'[At(n)] \subseteq loaded[At(n)]
    BY <1>0
  <2> QED BY <2>1, <2>2, <2>3 DEF Excused
<1>5. r \in Answer /\ r.refused = refused
  BY <1>1 DEF Result, Answer, Hows
<1> HIDE DEF refused, r
<1>6. CASE Conclude(n, r) /\ op.pending = {i}
  BY <1>0, <1>4, <1>5, <1>6, ConcludeStays
<1>7. CASE op' = [op EXCEPT !.pending = @ \ {i}, !.done = @ \cup {i}, !.refused = refused]
  <2>1. /\ op'.fresh = op.fresh /\ op'.results = op.results /\ op'.target = n
        /\ op'.pending = op.pending \ {i} /\ op'.refused = refused
    BY <1>0, <1>7 DEF Operation
  <2> QED BY <1>0, <1>4, <2>1, SameResultsStay
<1> QED BY <1>2, <1>6, <1>7

LEMMA OthersLoadStays ==
  ASSUME TypeInv, StayInv, NEW a \in Addresses, NEW j \in Models \X {1}, OthersLoad(a, j)
  PROVE  StayInv'
<1>1. /\ op'.fresh = op.fresh \cup {<<a, j>>}
      /\ op'.results = op.results /\ op'.target = op.target
      /\ op'.pending = op.pending /\ op'.refused = op.refused
      /\ registry' = registry
  BY OthersLoadEffect DEF TypeInv, Operation
<1>2. ASSUME NEW n, At(n) \in Addresses, NEW i \in loaded'[At(n)], i \notin loaded[At(n)]
      PROVE  <<At(n), i>> \in op'.fresh
  BY <1>1, <1>2, OthersLoadEffect DEF TypeInv, TypeOK
<1>3. ASSUME NEW m \in DOMAIN op.results, op.results[m].how = "unloaded",
             NEW i \in loaded'[At(m)]
      PROVE  Excused(m, i, op.results[m].refused)'
  <2>1. i \in loaded[At(m)] \/ <<At(m), i>> \in op'.fresh
    BY <1>2, ResultNames
  <2>2. i \in loaded[At(m)] => Excused(m, i, op.results[m].refused)
    BY <1>3 DEF StayInv
  <2>3. At(m)' = At(m) /\ Kind(m)' = Kind(m)
    BY <1>1, SameServers
  <2> QED BY <1>1, <2>1, <2>2, <2>3 DEF Excused
<1>4. ASSUME op.target # "none", NEW i \in loaded'[At(op.target)]
      PROVE  i \in op'.pending \/ Excused(op.target, i, op.refused)'
  <2>1. At(op.target) \in Addresses
    BY <1>4, AtType DEF TypeInv, TypeOK, Operation
  <2>2. i \in loaded[At(op.target)] \/ <<At(op.target), i>> \in op'.fresh
    BY <1>2, <2>1
  <2>3. i \in loaded[At(op.target)] => i \in op.pending \/ Excused(op.target, i, op.refused)
    BY <1>4 DEF StayInv
  <2>4. At(op.target)' = At(op.target) /\ Kind(op.target)' = Kind(op.target)
    BY <1>1 DEF At, Kind, Server
  <2> QED BY <1>1, <2>2, <2>3, <2>4 DEF Excused
<1>5. \A m : At(m)' = At(m)
  BY <1>1, SameServers
<1>6. At(op.target)' = At(op.target)
  BY <1>1 DEF At, Server
<1> QED BY <1>1, <1>3, <1>4, <1>5, <1>6 DEF StayInv

LEMMA OperateStays ==
  ASSUME TypeInv, StayInv, Operate
  PROVE  StayInv'
<1>1. op'.target = "none"
  BY OperateType
<1>2. \A m \in DOMAIN op'.results : op'.results[m].how # "unloaded"
  <2>1. ASSUME NEW k, NEW a, Check(k, a)
        PROVE  \A m \in DOMAIN op'.results : op'.results[m].how # "unloaded"
    <3> DEFINE how == IF condition[a] = "up" THEN "ok" ELSE "not ok"
               results == [m \in {k} |-> Result(how, {})]
    <3>1. op' = [NoOp EXCEPT !.call = "check", !.status = "returned", !.results = results]
      BY <2>1 DEF Check
    <3>2. \A m \in DOMAIN results : results[m].how # "unloaded"
      BY DEF Result
    <3> HIDE DEF results
    <3>3. op'.results = results
      BY <3>1, NoOpType DEF Operation
    <3> QED BY <3>2, <3>3
  <2>2. ASSUME NEW call, NEW todo, NEW sweep, Begin(call, todo, sweep)
        PROVE  \A m \in DOMAIN op'.results : op'.results[m].how # "unloaded"
    <3>1. op' = [NoOp EXCEPT !.call = call, !.sweep = sweep, !.todo = todo, !.status = "running"]
      BY <2>2 DEF Begin
    <3>2. op'.results = NoOp.results
      BY <3>1, NoOpType DEF Operation
    <3>3. DOMAIN op'.results = {}
      BY <3>2, NoOpType
    <3> QED BY <3>3
  <2> QED BY <2>1, <2>2 DEF Operate
<1> QED BY <1>1, <1>2 DEF StayInv

LEMMA NextStayInv == TypeInv /\ StayInv /\ [Next]_vars => StayInv'
<1> SUFFICES ASSUME TypeInv, StayInv, [Next]_vars PROVE StayInv'
  OBVIOUS
<1>1. CASE UNCHANGED <<registry, loaded, op>>
  BY <1>1 DEF StayInv, Excused, At, Kind, Server
<1>2. CASE \/ \E n \in Names : GetProvider(n)
           \/ \E n \in Names, O \in SUBSET {"host", "load_timeout"},
                 a \in Addresses \cup {"default"} : LoadModel(n, O, a)
           \/ \E a \in Addresses, c \in {"up", "down", "error"} : Turn(a, c)
           \/ UNCHANGED vars
  BY <1>1, <1>2 DEF GetProvider, LoadModel, Turn, Change, vars, servers
<1>3. CASE Operate
  BY <1>3, OperateStays
<1>4. CASE Step
  <2>1. CASE \E n \in op.todo : Fetch(n)
    BY <2>1, FetchStays
  <2>2. CASE \E i \in op.pending : Unload(i)
    BY <2>2, UnloadStays
  <2>3. CASE UnloadUnreachable
    <3>1. op.target \in Names
      BY <2>3 DEF UnloadUnreachable, TypeInv, Operation
    <3> QED BY <2>3, <3>1, UnreachableStays DEF UnloadUnreachable, servers
  <2> QED BY <1>4, <2>1, <2>2, <2>3 DEF Step
<1>5. CASE \E a \in Addresses, i \in Models \X {1} : OthersLoad(a, i)
  BY <1>5, OthersLoadStays
<1> QED BY <1>2, <1>3, <1>4, <1>5 DEF Next

(* A server reported as unloaded holds nothing but what came meanwhile,    *)
(* what it refused to unload, and what is never listed.                    *)
THEOREM NothingOldStays == Spec => []OnlyNewcomersStay
<1>1. StayInv => OnlyNewcomersStay
  BY DEF StayInv, Excused, OnlyNewcomersStay
<1>2. Init => StayInv
  <2>1. Init => DOMAIN op.results = {} /\ op.target = "none"
    BY DEF Init, NoOp
  <2> QED BY <2>1 DEF StayInv
<1> QED BY <1>1, <1>2, InitTypeInv, NextTypeInv, NextStayInv, PTL DEF Spec

=============================================================================
