--------------------------- MODULE ServerRestart ---------------------------
(***************************************************************************)
(* Server-level parameters: LLMProviderPool._call step 3 (pool.py:1402-    *)
(* 1429) and LLMProviderPool.restart (pool.py:935-1061), run by several    *)
(* calls over several pool handles against one systemd service.            *)
(*                                                                         *)
(* A call compares the parameters it was given with the ones its handle    *)
(* remembers having applied.  If one differs, a worker thread writes a     *)
(* systemd drop-in with the call's parameters, restarts the service, polls *)
(* it and removes the drop-in; back in the coroutine the handle's memory   *)
(* is updated, and the call goes on to the chat request.                   *)
(*                                                                         *)
(* Writing or removing the drop-in and the daemon-reload after it are one  *)
(* step: a thread reloads before it restarts anything, so another order    *)
(* of the two only shows another thread's file, which an order of whole    *)
(* steps shows too.  Left out: a machine without systemctl, where the      *)
(* thread ends in an exception.                                            *)
(***************************************************************************)
EXTENDS Naturals, FiniteSets

CONSTANTS
  Calls,        \* calls that carry server parameters, by one event loop
  Handles,      \* pool objects for the same provider, see get_provider
  HandleOf,     \* the handle each call goes through
  Params,       \* num_parallel, kv_cache_type, ...
  Values,       \* the values they are set to
  Unset,        \* parameter not given; in the service: its default
  Wanted,       \* what each call was given
  Hosts,        \* the machines considered, see Host
  Concurrency,  \* calls the program keeps in flight, as LLM.batch does
  MayCancel,    \* whether a call may be cancelled (asyncio.wait_for)
  MaxOutside    \* bound on restarts by hand, by systemd or by others

Setting == [Params -> Values \cup {Unset}]
Default == [p \in Params |-> Unset]

(* unit: the service is a systemd unit of the user or of the system, or of *)
(* the system with neither polkit rule nor sudo ("denied"), or unknown to  *)
(* providers.yaml ("none").  writable: the drop-in directories this        *)
(* process may write to.                                                   *)
Host == [unit : {"user", "system", "denied", "none"},
         writable : SUBSET {"user", "system"}]

ASSUME HandlesAssumption == HandleOf \in [Calls -> Handles]
ASSUME WantedAssumption == Wanted \in [Calls -> Setting]
ASSUME UnsetAssumption == Unset \notin Values
ASSUME HostsAssumption == Hosts \subseteq Host
ASSUME ConcurrencyAssumption == Concurrency \in Nat \ {0}
ASSUME MayCancelAssumption == MayCancel \in BOOLEAN
ASSUME MaxOutsideAssumption == MaxOutside \in Nat

VARIABLES
  host,       \* the machine; fixed at the start
  env,        \* the parameters the running service was started with
  up,         \* whether it answers
  dropin,     \* the override in each scope; Default is an absent file
  active,     \* _active_server_config of each handle
  pc,         \* stage of each call
  placed,     \* dropin_user: where the call's thread put its drop-in
  cancelled,  \* calls whose coroutine is gone while their thread runs on
  outside,    \* restarts by others so far
  refused     \* history: the call whose restart failed, if the last one did

vars == <<host, env, up, dropin, active, pc, placed, cancelled, outside, refused>>
service == <<host, env, up, outside, refused>>

Given(c) == {p \in Params : Wanted[c][p] # Unset}

(* Mutant of Changed: parameters are looked for, values not compared.      *)
Unseen(c) == {p \in Given(c) : active[HandleOf[c]][p] = Unset}

(* {k: v for k, v in _server_params.items() if active.get(k) != v}         *)
Changed(c) == {p \in Given(c) : active[HandleOf[c]][p] # Wanted[c][p]}

ThreadStages == {"write", "restart", "poll", "remove"}

(* Calls the program is waiting for.                                       *)
InFlight ==
  {c \in Calls : pc[c] \notin {"idle", "ok", "failed", "cancelled"}
                   /\ c \notin cancelled}

Init ==
  /\ host \in Hosts
  /\ env = Default
  /\ up = TRUE
  /\ dropin = [s \in {"user", "system"} |-> Default]
  /\ active = [h \in Handles |-> Default]
  /\ pc = [c \in Calls |-> "idle"]
  /\ placed = [c \in Calls |-> "none"]
  /\ cancelled = {}
  /\ outside = 0
  /\ refused = {}

-----------------------------------------------------------------------------
(* The coroutine, up to the thread.                                        *)

Check(c) ==
  /\ pc[c] = "idle"
  /\ Cardinality(InFlight) < Concurrency
  /\ pc' = [pc EXCEPT ![c] = IF Changed(c) = {} THEN "send" ELSE "write"]
  /\ UNCHANGED <<service, dropin, active, placed, cancelled>>

(* restart raises ValueError: no systemd_service.                          *)
RestartRefused(c) ==
  /\ pc[c] = "write"
  /\ host.unit = "none"
  /\ pc' = [pc EXCEPT ![c] = "failed"]
  /\ UNCHANGED <<service, dropin, active, placed, cancelled>>

-----------------------------------------------------------------------------
(* restart(), in its thread.                                               *)

(* The user's directory is tried first and the first writable one is used, *)
(* wherever the service lives.                                             *)
Place == IF "user" \in host.writable THEN "user"
         ELSE IF "system" \in host.writable THEN "system"
         ELSE "none"

(* Mutant of WriteDropin: the file is added to instead of overwritten.     *)
AppendDropin(c) ==
  /\ pc[c] = "write"
  /\ host.unit # "none"
  /\ placed' = [placed EXCEPT ![c] = Place]
  /\ dropin' = IF Place = "none" THEN dropin
               ELSE [dropin EXCEPT ![Place] =
                       [p \in Params |-> IF p \in Given(c) THEN Wanted[c][p]
                                         ELSE @[p]]]
  /\ pc' = [pc EXCEPT ![c] = "restart"]
  /\ UNCHANGED <<service, active, cancelled>>

(* The override holds this call's parameters and no others.                *)
WriteDropin(c) ==
  /\ pc[c] = "write"
  /\ host.unit # "none"
  /\ placed' = [placed EXCEPT ![c] = Place]
  /\ dropin' = IF Place = "none" THEN dropin
               ELSE [dropin EXCEPT ![Place] = Wanted[c]]
  /\ pc' = [pc EXCEPT ![c] = "restart"]
  /\ UNCHANGED <<service, active, cancelled>>

(* The service stops, cutting off every request it serves, and starts with *)
(* the override of its own scope.                                          *)
Broken == [c \in Calls |-> IF pc[c] = "serving" THEN "failed" ELSE pc[c]]

ServiceRestarts ==
  /\ env' = dropin[IF host.unit = "user" THEN "user" ELSE "system"]
  /\ up' = FALSE

(* One of systemctl --user, systemctl and sudo systemctl succeeds.         *)
Restart(c) ==
  /\ pc[c] = "restart"
  /\ host.unit # "denied"
  /\ ServiceRestarts
  /\ pc' = [Broken EXCEPT ![c] = "poll"]
  /\ refused' = {}
  /\ UNCHANGED <<host, dropin, active, placed, cancelled, outside>>

(* Mutant of RestartFails: returns without _remove_dropin().               *)
RestartFailsDirty(c) ==
  /\ pc[c] = "restart"
  /\ \/ /\ pc' = [pc EXCEPT ![c] = "commit"]
        /\ UNCHANGED <<env, up>>
     \/ /\ host.unit # "denied"
        /\ ServiceRestarts
        /\ pc' = [Broken EXCEPT ![c] = "commit"]
  /\ refused' = {c}
  /\ UNCHANGED <<host, outside, dropin, active, placed, cancelled>>

(* All three fail, as they may on any machine.  A failed systemctl has not *)
(* touched the service, or has restarted it before it gave up.             *)
RestartFails(c) ==
  /\ pc[c] = "restart"
  /\ \/ /\ pc' = [pc EXCEPT ![c] = "remove"]
        /\ UNCHANGED <<env, up>>
     \/ /\ host.unit # "denied"
        /\ ServiceRestarts
        /\ pc' = [Broken EXCEPT ![c] = "remove"]
  /\ refused' = {c}
  /\ UNCHANGED <<host, outside, dropin, active, placed, cancelled>>

(* The health endpoint answers.                                            *)
Healthy(c) ==
  /\ pc[c] = "poll"
  /\ up
  /\ pc' = [pc EXCEPT ![c] = "remove"]
  /\ UNCHANGED <<service, dropin, active, placed, cancelled>>

(* Mutant of PollTimesOut: the deadline only matters to a service that is  *)
(* up.                                                                     *)
PollForever(c) ==
  /\ pc[c] = "poll"
  /\ up
  /\ pc' = [pc EXCEPT ![c] = "remove"]
  /\ UNCHANGED <<service, dropin, active, placed, cancelled>>

(* wait_timeout has passed: restart returns with a warning.                *)
PollTimesOut(c) ==
  /\ pc[c] = "poll"
  /\ pc' = [pc EXCEPT ![c] = "remove"]
  /\ UNCHANGED <<service, dropin, active, placed, cancelled>>

(* Mutant of RemoveDropin: the thread of a cancelled call resumes it.      *)
RemoveAndResume(c) ==
  /\ pc[c] = "remove"
  /\ dropin' = IF placed[c] = "none" THEN dropin
               ELSE [dropin EXCEPT ![placed[c]] = Default]
  /\ placed' = [placed EXCEPT ![c] = "none"]
  /\ pc' = [pc EXCEPT ![c] = "commit"]
  /\ UNCHANGED <<service, active, cancelled>>

(* unlink(missing_ok=True), whoever's override it is by now.  A coroutine  *)
(* that was cancelled meanwhile never resumes.                             *)
RemoveDropin(c) ==
  /\ pc[c] = "remove"
  /\ dropin' = IF placed[c] = "none" THEN dropin
               ELSE [dropin EXCEPT ![placed[c]] = Default]
  /\ placed' = [placed EXCEPT ![c] = "none"]
  /\ pc' = [pc EXCEPT ![c] = IF c \in cancelled THEN "cancelled" ELSE "commit"]
  /\ UNCHANGED <<service, active, cancelled>>

-----------------------------------------------------------------------------
(* The coroutine, after the thread.                                        *)

(* Mutant of Commit: nothing is remembered.                                *)
CommitNothing(c) ==
  /\ pc[c] = "commit"
  /\ pc' = [pc EXCEPT ![c] = "send"]
  /\ UNCHANGED <<service, dropin, active, placed, cancelled>>

(* _active_server_config.update(_server_params), whatever restart returned.*)
Commit(c) ==
  /\ pc[c] = "commit"
  /\ active' = [active EXCEPT ![HandleOf[c]] =
                  [p \in Params |-> IF p \in Given(c) THEN Wanted[c][p] ELSE @[p]]]
  /\ pc' = [pc EXCEPT ![c] = "send"]
  /\ UNCHANGED <<service, dropin, placed, cancelled>>

Send(c) ==
  /\ pc[c] = "send"
  /\ pc' = [pc EXCEPT ![c] = IF up THEN "serving" ELSE "failed"]
  /\ UNCHANGED <<service, dropin, active, placed, cancelled>>

Answered(c) ==
  /\ pc[c] = "serving"
  /\ pc' = [pc EXCEPT ![c] = "ok"]
  /\ UNCHANGED <<service, dropin, active, placed, cancelled>>

(* Cancelling the coroutine does not stop a thread that runs; one that has *)
(* not begun is dropped from the executor.                                 *)
Cancel(c) ==
  /\ MayCancel
  /\ c \in InFlight
  /\ \/ /\ pc[c] \in ThreadStages
        /\ cancelled' = cancelled \cup {c}
        /\ UNCHANGED pc
     \/ /\ pc[c] \notin ThreadStages \ {"write"}
        /\ pc' = [pc EXCEPT ![c] = "cancelled"]
        /\ UNCHANGED cancelled
  /\ UNCHANGED <<service, dropin, active, placed>>

-----------------------------------------------------------------------------
(* The service.                                                            *)

Boot ==
  /\ ~up
  /\ up' = TRUE
  /\ UNCHANGED <<host, env, dropin, active, pc, placed, cancelled, outside, refused>>

(* restart() by hand without env, an administrator, or systemd itself.     *)
OutsideRestart ==
  /\ outside < MaxOutside
  /\ outside' = outside + 1
  /\ ServiceRestarts
  /\ pc' = Broken
  /\ UNCHANGED <<host, dropin, active, placed, cancelled, refused>>

Progress(c) ==
  \/ Check(c) \/ RestartRefused(c)
  \/ WriteDropin(c) \/ Restart(c) \/ RestartFails(c)
  \/ Healthy(c) \/ PollTimesOut(c) \/ RemoveDropin(c)
  \/ Commit(c) \/ Send(c) \/ Answered(c)

Next ==
  \/ \E c \in Calls : Progress(c) \/ Cancel(c)
  \/ Boot
  \/ OutsideRestart

(* Threads and the event loop keep running, systemctl returns, polling     *)
(* ends at its deadline and requests at the transport's timeout.  Nothing  *)
(* is assumed of the service: it may never come up again.                  *)
Spec == Init /\ [][Next]_vars /\ \A c \in Calls : WF_vars(Progress(c))

-----------------------------------------------------------------------------
(* Properties.                                                             *)

Stages == {"idle", "write", "restart", "poll", "remove", "commit", "send",
           "serving", "ok", "failed", "cancelled"}

(* The state is what the pools, the drop-in files and the service hold,    *)
(* and a thread left behind by a cancelled coroutine is still in restart.  *)
TypeOK ==
  /\ host \in Hosts
  /\ env \in Setting
  /\ up \in BOOLEAN
  /\ dropin \in [{"user", "system"} -> Setting]
  /\ active \in [Handles -> Setting]
  /\ pc \in [Calls -> Stages]
  /\ placed \in [Calls -> {"user", "system", "none"}]
  /\ cancelled \subseteq Calls
  /\ \A c \in cancelled : pc[c] \in ThreadStages \cup {"cancelled", "failed"}
  /\ outside \in 0..MaxOutside
  /\ refused \subseteq Calls

(* Calls whose thread may have a drop-in on disk.                          *)
Overriding == {c \in Calls : pc[c] \in {"restart", "poll", "remove"}}

(* However the threads of concurrent calls overwrite and remove each       *)
(* other's file, and whatever fails or is cancelled, no override outlives  *)
(* them (pool.py:1010-1061: "removed once the provider is reachable").     *)
NoLeftover ==
  \A s \in {"user", "system"} : dropin[s] # Default =>
    \E c \in Overriding : placed[c] = s

(* The service never runs a mixture: each start takes over exactly what    *)
(* one call asked for, one whose restart is under way, or the defaults.    *)
EnvFromOneCall ==
  [][env' # env => \/ env' = Default
                   \/ \E c \in Overriding : env' = Wanted[c]]_vars

(* Every call gets an answer or an error, even if the service is down for  *)
(* good and whatever the other calls do to it.                             *)
CallsFinish ==
  \A c \in Calls : <>(pc[c] \in {"ok", "failed", "cancelled"})

(* The parameters two calls set have the same values.                      *)
Alike(c, d) == \A p \in Given(c) : Wanted[d][p] = Wanted[c][p]

Current(c) == \A p \in Given(c) : env[p] = Wanted[c][p]

(* A request is served under the parameters its call was given, unless the *)
(* last restart failed and was for the same parameters: pool.py:1429       *)
(* remembers those as active although the service may never have taken     *)
(* them, and later calls that want them do not restart it.                 *)
ServedAsRestarted ==
  \A c \in Calls : pc[c] = "serving" =>
    Current(c) \/ \E d \in refused : Alike(c, d)

(* No request is cut off for nothing: a call only tries to restart the     *)
(* service if that does not run under the call's parameters, or if a       *)
(* failed restart left others remembered.                                  *)
RestartIsNeeded ==
  [][\A c \in Calls : pc[c] = "restart" /\ pc'[c] \in {"poll", "remove"} =>
       ~Current(c) \/ \E d \in refused : ~Alike(c, d)]_vars

(* README.md:226: server parameters "take effect by restarting the         *)
(* provider service": a request is served under the parameters its call    *)
(* was given.  It is not if systemctl fails, which pool.py:1429 ignores.   *)
ServedAsWanted == \A c \in Calls : pc[c] = "serving" => Current(c)

(* README.md:226: "no restart if the config is already current".  Calls in *)
(* flight together restart the service one after the other for the same    *)
(* parameters.                                                             *)
NoRestartWhenCurrent ==
  [][\A c \in Calls : pc[c] = "restart" /\ pc'[c] = "poll" => ~Current(c)]_vars

=============================================================================
