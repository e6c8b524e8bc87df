------------------------ MODULE ServerRestartProofs ------------------------
(***************************************************************************)
(* Theorems about server parameters, for any number of calls, handles,     *)
(* parameters and machines, with cancellations and outside restarts.       *)
(***************************************************************************)
EXTENDS ServerRestart, FiniteSetTheorems, TLAPS

Dirs == {"user", "system"}

LEMMA DefaultIsSetting == Default \in Setting
BY DEF Default, Setting

LEMMA WantedIsSetting == \A c \in Calls : Wanted[c] \in Setting
BY WantedAssumption

LEMMA PlaceType == ASSUME host \in Hosts PROVE Place \in Dirs \cup {"none"}
BY DEF Place, Dirs

(* What a (re)start of the service does to it.                             *)
LEMMA ServiceRestartsType ==
  ASSUME dropin \in [Dirs -> Setting], ServiceRestarts
  PROVE  /\ env' \in Setting /\ up' \in BOOLEAN
         /\ \E s \in Dirs : env' = dropin[s]
BY DEF ServiceRestarts, Dirs

LEMMA BrokenType ==
  ASSUME pc \in [Calls -> Stages]
  PROVE  /\ Broken \in [Calls -> Stages]
         /\ \A c \in Calls : Broken[c] = IF pc[c] = "serving" THEN "failed" ELSE pc[c]
BY DEF Broken, Stages

-----------------------------------------------------------------------------
(* Types.                                                                  *)

LEMMA InitTypeOK == Init => TypeOK
BY DefaultIsSetting, MaxOutsideAssumption
DEF Init, TypeOK, Stages, ThreadStages

LEMMA NextTypeOK == TypeOK /\ [Next]_vars => TypeOK'
<1> SUFFICES ASSUME TypeOK, [Next]_vars PROVE TypeOK'
  OBVIOUS
<1> USE DEF service
<1>1. ASSUME NEW c \in Calls, Check(c) PROVE TypeOK'
  BY <1>1 DEF Check, TypeOK, Stages, ThreadStages
<1>2. ASSUME NEW c \in Calls, RestartRefused(c) PROVE TypeOK'
  BY <1>2 DEF RestartRefused, TypeOK, Stages, ThreadStages
<1>3. ASSUME NEW c \in Calls, WriteDropin(c) PROVE TypeOK'
  <2>1. Place \in Dirs \cup {"none"}
    BY PlaceType DEF TypeOK
  <2>2. placed' \in [Calls -> Dirs \cup {"none"}]
    BY <1>3, <2>1 DEF WriteDropin, TypeOK, Dirs
  <2>3. dropin' \in [Dirs -> Setting]
    BY <1>3, <2>1, WantedIsSetting DEF WriteDropin, TypeOK, Dirs
  <2> QED BY <1>3, <2>2, <2>3 DEF WriteDropin, TypeOK, Stages, ThreadStages, Dirs
<1>4. ASSUME NEW c \in Calls, Restart(c) PROVE TypeOK'
  <2>1. env' \in Setting /\ up' \in BOOLEAN
    BY <1>4, ServiceRestartsType DEF Restart, TypeOK, Dirs
  <2>2. pc' = [Broken EXCEPT ![c] = "poll"] /\ pc[c] = "restart"
    BY <1>4 DEF Restart
  <2>3. pc' \in [Calls -> Stages]
    BY <2>2, BrokenType DEF TypeOK, Stages
  <2>4. \A d \in Calls : pc'[d] = pc[d] \/ (d = c /\ pc'[d] = "poll")
                           \/ (pc[d] = "serving" /\ pc'[d] = "failed")
    BY <2>2, BrokenType DEF TypeOK
  <2>5. \A d \in cancelled : pc'[d] \in ThreadStages \cup {"cancelled", "failed"}
    BY <2>4 DEF TypeOK, ThreadStages
  <2> QED BY <1>4, <2>1, <2>3, <2>5 DEF Restart, TypeOK
<1>5. ASSUME NEW c \in Calls, RestartFails(c) PROVE TypeOK'
  <2>1. env' \in Setting /\ up' \in BOOLEAN
    BY <1>5, ServiceRestartsType DEF RestartFails, TypeOK, Dirs
  <2>2. \A d \in Calls : pc'[d] = pc[d] \/ (d = c /\ pc'[d] = "remove")
                           \/ (pc[d] = "serving" /\ pc'[d] = "failed")
    BY <1>5, BrokenType DEF RestartFails, TypeOK
  <2>3. pc' \in [Calls -> Stages]
    BY <1>5, BrokenType DEF RestartFails, TypeOK, Stages
  <2>4. \A d \in cancelled : pc'[d] \in ThreadStages \cup {"cancelled", "failed"}
    BY <2>2 DEF TypeOK, ThreadStages
  <2> QED BY <1>5, <2>1, <2>3, <2>4 DEF RestartFails, TypeOK
<1>6. ASSUME NEW c \in Calls, Healthy(c) PROVE TypeOK'
  BY <1>6 DEF Healthy, TypeOK, Stages, ThreadStages
<1>7. ASSUME NEW c \in Calls, PollTimesOut(c) PROVE TypeOK'
  BY <1>7 DEF PollTimesOut, TypeOK, Stages, ThreadStages
<1>8. ASSUME NEW c \in Calls, RemoveDropin(c) PROVE TypeOK'
  <2>1. dropin' \in [Dirs -> Setting]
    BY <1>8, DefaultIsSetting DEF RemoveDropin, TypeOK, Dirs
  <2> QED BY <1>8, <2>1 DEF RemoveDropin, TypeOK, Stages, ThreadStages, Dirs
<1>9. ASSUME NEW c \in Calls, Commit(c) PROVE TypeOK'
  <2>1. active' \in [Handles -> Setting]
    <3>1. HandleOf[c] \in Handles
      BY HandlesAssumption
    <3>2. [p \in Params |-> IF p \in Given(c) THEN Wanted[c][p]
                            ELSE active[HandleOf[c]][p]] \in Setting
      BY <3>1, WantedIsSetting DEF TypeOK, Setting, Given
    <3> QED BY <1>9, <3>1, <3>2 DEF Commit, TypeOK
  <2> QED BY <1>9, <2>1 DEF Commit, TypeOK, Stages, ThreadStages
<1>10. ASSUME NEW c \in Calls, Send(c) PROVE TypeOK'
  BY <1>10 DEF Send, TypeOK, Stages, ThreadStages
<1>11. ASSUME NEW c \in Calls, Answered(c) PROVE TypeOK'
  BY <1>11 DEF Answered, TypeOK, Stages, ThreadStages
<1>12. ASSUME NEW c \in Calls, Cancel(c) PROVE TypeOK'
  <2>1. CASE pc[c] \in ThreadStages /\ cancelled' = cancelled \cup {c} /\ UNCHANGED pc
    BY <1>12, <2>1 DEF Cancel, TypeOK
  <2>2. CASE pc' = [pc EXCEPT ![c] = "cancelled"] /\ UNCHANGED cancelled
    BY <1>12, <2>2 DEF Cancel, TypeOK, Stages
  <2> QED BY <1>12, <2>1, <2>2 DEF Cancel
<1>13. CASE Boot
  BY <1>13 DEF Boot, TypeOK
<1>14. CASE OutsideRestart
  <2>1. env' \in Setting /\ up' \in BOOLEAN
    BY <1>14, ServiceRestartsType DEF OutsideRestart, TypeOK, Dirs
  <2>2. pc' \in [Calls -> Stages]
    BY <1>14, BrokenType DEF OutsideRestart, TypeOK
  <2>3. \A d \in cancelled : pc'[d] \in ThreadStages \cup {"cancelled", "failed"}
    BY <1>14, BrokenType DEF OutsideRestart, TypeOK, ThreadStages
  <2>4. outside' \in 0..MaxOutside
    BY <1>14, MaxOutsideAssumption DEF OutsideRestart, TypeOK
  <2> QED BY <1>14, <2>1, <2>2, <2>3, <2>4 DEF OutsideRestart, TypeOK
<1>15. CASE UNCHANGED vars
  BY <1>15 DEF vars, TypeOK
<1> QED
  BY <1>1, <1>2, <1>3, <1>4, <1>5, <1>6, <1>7, <1>8, <1>9, <1>10, <1>11,
     <1>12, <1>13, <1>14, <1>15 DEF Next, Progress

(* Every reachable state of pools, threads, drop-ins and service is well   *)
(* typed; a cancelled call is only ever a thread running on.               *)
THEOREM TypeCorrect == Spec => []TypeOK
BY InitTypeOK, NextTypeOK, PTL DEF Spec

-----------------------------------------------------------------------------
(* Drop-ins.  NoLeftover is not inductive alone: it has to say whose       *)
(* parameters the file holds for the service's environment to follow.      *)

DropinInv ==
  \A s \in Dirs : dropin[s] # Default =>
    \E c \in Overriding : placed[c] = s /\ dropin[s] = Wanted[c]

(* Steps that leave the drop-ins and their owners' stages alone.           *)
LEMMA DropinStutter ==
  ASSUME DropinInv, UNCHANGED <<dropin, placed>>, Overriding \subseteq Overriding'
  PROVE  DropinInv'
BY DEF DropinInv

LEMMA InitDropinInv == Init => DropinInv
BY DEF Init, DropinInv, Dirs

LEMMA NextDropinInv == TypeOK /\ DropinInv /\ [Next]_vars => DropinInv'
<1> SUFFICES ASSUME TypeOK, DropinInv, [Next]_vars PROVE DropinInv'
  OBVIOUS
<1> USE DEF service
<1>1. pc \in [Calls -> Stages] /\ dropin \in [Dirs -> Setting]
      /\ placed \in [Calls -> Dirs \cup {"none"}]
  BY DEF TypeOK, Dirs
<1>2. ASSUME NEW c \in Calls, Check(c) PROVE DropinInv'
  <2>1. Overriding \subseteq Overriding'
    BY <1>1, <1>2 DEF Check, Overriding
  <2> QED BY <1>2, <2>1, DropinStutter DEF Check
<1>3. ASSUME NEW c \in Calls, RestartRefused(c) PROVE DropinInv'
  <2>1. Overriding \subseteq Overriding'
    BY <1>1, <1>3 DEF RestartRefused, Overriding
  <2> QED BY <1>3, <2>1, DropinStutter DEF RestartRefused
<1>4. ASSUME NEW c \in Calls, WriteDropin(c) PROVE DropinInv'
  <2>1. /\ Overriding' = Overriding \cup {c}
        /\ c \notin Overriding
        /\ placed'[c] = Place
        /\ \A d \in Calls \ {c} : placed'[d] = placed[d]
    BY <1>1, <1>4 DEF WriteDropin, Overriding
  <2>2. SUFFICES ASSUME NEW s \in Dirs, dropin'[s] # Default
                 PROVE  \E d \in Overriding' : placed'[d] = s /\ dropin'[s] = Wanted[d]
    BY DEF DropinInv
  <2>3. CASE s = Place
    <3>1. dropin'[s] = Wanted[c]
      BY <1>1, <1>4, <2>3 DEF WriteDropin, Dirs
    <3> QED BY <2>1, <2>3, <3>1
  <2>4. CASE s # Place
    <3>1. dropin'[s] = dropin[s]
      BY <1>1, <1>4, <2>4 DEF WriteDropin
    <3>2. PICK d \in Overriding : placed[d] = s /\ dropin[s] = Wanted[d]
      BY <2>2, <3>1 DEF DropinInv
    <3>3. d \in Calls \ {c}
      BY <2>1, <3>2 DEF Overriding
    <3> QED BY <2>1, <3>1, <3>2, <3>3
  <2> QED BY <2>3, <2>4
<1>5. ASSUME NEW c \in Calls, Restart(c) PROVE DropinInv'
  <2>1. Overriding \subseteq Overriding'
    BY <1>1, <1>5, BrokenType DEF Restart, Overriding
  <2> QED BY <1>5, <2>1, DropinStutter DEF Restart
<1>6. ASSUME NEW c \in Calls, RestartFails(c) PROVE DropinInv'
  <2>1. Overriding \subseteq Overriding'
    BY <1>1, <1>6, BrokenType DEF RestartFails, Overriding
  <2> QED BY <1>6, <2>1, DropinStutter DEF RestartFails
<1>7. ASSUME NEW c \in Calls, Healthy(c) \/ PollTimesOut(c) PROVE DropinInv'
  <2>1. Overriding \subseteq Overriding'
    BY <1>1, <1>7 DEF Healthy, PollTimesOut, Overriding
  <2> QED BY <1>7, <2>1, DropinStutter DEF Healthy, PollTimesOut
<1>8. ASSUME NEW c \in Calls, RemoveDropin(c) PROVE DropinInv'
  <2>1. Overriding' = Overriding \ {c} /\ \A d \in Overriding' : placed'[d] = placed[d]
    BY <1>1, <1>8 DEF RemoveDropin, Overriding
  <2>2. SUFFICES ASSUME NEW s \in Dirs, dropin'[s] # Default
                 PROVE  \E d \in Overriding' : placed'[d] = s /\ dropin'[s] = Wanted[d]
    BY DEF DropinInv
  <2>3. placed[c] # s /\ dropin'[s] = dropin[s]
    BY <1>1, <1>8, <2>2 DEF RemoveDropin, Dirs
  <2>4. PICK d \in Overriding : placed[d] = s /\ dropin[s] = Wanted[d]
    BY <2>2, <2>3 DEF DropinInv
  <2> QED BY <2>1, <2>3, <2>4
<1>9. ASSUME NEW c \in Calls, Commit(c) PROVE DropinInv'
  <2>1. Overriding \subseteq Overriding'
    BY <1>1, <1>9 DEF Commit, Overriding
  <2> QED BY <1>9, <2>1, DropinStutter DEF Commit
<1>10. ASSUME NEW c \in Calls, Send(c) \/ Answered(c) PROVE DropinInv'
  <2>1. Overriding \subseteq Overriding'
    BY <1>1, <1>10 DEF Send, Answered, Overriding
  <2> QED BY <1>10, <2>1, DropinStutter DEF Send, Answered
<1>11. ASSUME NEW c \in Calls, Cancel(c) PROVE DropinInv'
  <2>1. Overriding \subseteq Overriding'
    BY <1>1, <1>11 DEF Cancel, Overriding, ThreadStages
  <2> QED BY <1>11, <2>1, DropinStutter DEF Cancel
<1>12. CASE Boot
  BY <1>12, DropinStutter DEF Boot, Overriding
<1>13. CASE OutsideRestart
  <2>1. Overriding \subseteq Overriding'
    BY <1>1, <1>13, BrokenType DEF OutsideRestart, Overriding
  <2> QED BY <1>13, <2>1, DropinStutter DEF OutsideRestart
<1>14. CASE UNCHANGED vars
  BY <1>14, DropinStutter DEF vars, Overriding
<1> QED
  BY <1>2, <1>3, <1>4, <1>5, <1>6, <1>7, <1>8, <1>9, <1>10, <1>11, <1>12,
     <1>13, <1>14 DEF Next, Progress

(* No drop-in outlives the threads that wrote one, whoever overwrites or   *)
(* removes whose and whatever is cancelled.                                *)
THEOREM DropinsAreRemoved == Spec => []NoLeftover
<1>1. DropinInv => NoLeftover
  BY DEF DropinInv, NoLeftover, Dirs
<1> QED
  BY <1>1, InitTypeOK, NextTypeOK, InitDropinInv, NextDropinInv, PTL DEF Spec

(* The service only ever starts under the defaults or under what one call, *)
(* in the middle of its restart, asked for.                                *)
THEOREM ServiceRunsOneCallsParameters == Spec => EnvFromOneCall
<1>1. TypeOK /\ DropinInv /\ [Next]_vars =>
        [env' # env => \/ env' = Default
                       \/ \E c \in Overriding : env' = Wanted[c]]_vars
  <2> SUFFICES ASSUME TypeOK, DropinInv, Next, env' # env
               PROVE  \/ env' = Default
                      \/ \E c \in Overriding : env' = Wanted[c]
    BY DEF vars
  <2>1. ServiceRestarts
    BY DEF Next, Progress, Check, RestartRefused, WriteDropin, Restart,
           RestartFails, Healthy, PollTimesOut, RemoveDropin, Commit, Send,
           Answered, Cancel, Boot, OutsideRestart, service
  <2>2. PICK s \in Dirs : env' = dropin[s]
    BY <2>1, ServiceRestartsType DEF TypeOK, Dirs
  <2> QED BY <2>2 DEF DropinInv
<1> QED
  BY <1>1, InitTypeOK, NextTypeOK, InitDropinInv, NextDropinInv, PTL
  DEF Spec, EnvFromOneCall

(* Calls in turn.  ServedAsRestarted and RestartIsNeeded do not hold of    *)
(* every program: calls must not overlap, be cancelled or share the        *)
(* service with others' restarts; all go through one handle and set the    *)
(* same parameters; and where the unit can be restarted, the override must *)
(* be written where the service reads it.  Restarts may fail anywhere.     *)

InTurn ==
  /\ Concurrency = 1 /\ ~MayCancel /\ MaxOutside = 0
  /\ \A c, d \in Calls : HandleOf[c] = HandleOf[d] /\ Given(c) = Given(d)
  /\ \A h \in Hosts : \/ h.unit = "user" /\ "user" \in h.writable
                      \/ h.unit = "system" /\ h.writable = {"system"}
                      \/ h.unit \in {"denied", "none"}

(* What makes them inductive then: one call at a time is under way, and    *)
(* what the handle remembers is what the service runs under or what the    *)
(* last, failed restart was for, except between a restart and the update   *)
(* of the memory.                                                          *)
Finished == {"idle", "ok", "failed", "cancelled"}
Unsynced == {"poll", "remove", "commit"}

Source == IF host.unit = "user" THEN "user" ELSE "system"

OneAtATime ==
  /\ cancelled = {} /\ outside = 0
  /\ (\A c \in Calls : pc[c] \in Finished)
     \/ \E c \in Calls : \A d \in Calls \ {c} : pc[d] \in Finished

(* What is said of a call under way, and of the memory.                    *)
OfCall(c) ==
  /\ pc[c] \in {"write", "restart"} => Changed(c) # {}
  /\ pc[c] = "restart" /\ host.unit # "denied" => dropin[Source] = Wanted[c]
  /\ pc[c] \in Unsynced => env = Wanted[c] \/ c \in refused
  /\ pc[c] \in {"send", "serving"} => Current(c) \/ \E d \in refused : Alike(c, d)

Synced ==
  \A c \in Calls :
    \/ \A p \in Given(c) : active[HandleOf[c]][p] = env[p]
    \/ \E d \in refused : \A p \in Given(c) : active[HandleOf[c]][p] = Wanted[d][p]

CurrentInv ==
  /\ \A c \in Calls : OfCall(c)
  /\ (\A c \in Calls : pc[c] \notin Unsynced) => Synced

LEMMA InFlightInTurn ==
  ASSUME InTurn, TypeOK, OneAtATime, NEW c \in Calls, Check(c)
  PROVE  \A d \in Calls : pc[d] \in Finished
<1> SUFFICES ASSUME NEW d \in Calls, pc[d] \notin Finished PROVE FALSE
  OBVIOUS
<1>1. \A e \in Calls \ {d} : pc[e] \in Finished
  BY DEF OneAtATime
<1>2. InFlight = {d}
  BY <1>1 DEF InFlight, OneAtATime, Finished
<1>3. Cardinality(InFlight) = 1
  BY <1>2, FS_Singleton
<1> QED BY <1>3 DEF Check, InTurn

(* Steps of a call keep the others as they were.                           *)
LEMMA OneAtATimeStep ==
  ASSUME InTurn, TypeOK, OneAtATime, [Next]_vars
  PROVE  OneAtATime'
<1> USE DEF service
<1>1. ASSUME NEW c \in Calls, Check(c) PROVE OneAtATime'
  <2>1. \A d \in Calls : pc[d] \in Finished
    BY <1>1, InFlightInTurn
  <2>2. \A d \in Calls \ {c} : pc'[d] = pc[d]
    BY <1>1 DEF Check, TypeOK
  <2> QED BY <1>1, <2>1, <2>2 DEF Check, OneAtATime
<1>2. ASSUME NEW c \in Calls, pc[c] \notin Finished, cancelled' = cancelled, outside' = outside,
             \A d \in Calls \ {c} : pc'[d] \in {pc[d], "failed"}
      PROVE  OneAtATime'
  <2>1. \A d \in Calls \ {c} : pc[d] \in Finished
    BY <1>2 DEF OneAtATime
  <2>2. \A d \in Calls \ {c} : pc'[d] \in Finished
    BY <1>2, <2>1 DEF Finished
  <2> QED BY <1>2, <2>2 DEF OneAtATime
<1>3. ASSUME NEW c \in Calls,
             \/ RestartRefused(c) \/ WriteDropin(c) \/ Healthy(c) \/ PollTimesOut(c)
             \/ RemoveDropin(c) \/ Commit(c) \/ Send(c) \/ Answered(c)
      PROVE  OneAtATime'
  <2>1. pc[c] \notin Finished
    BY <1>3 DEF Finished, RestartRefused, WriteDropin, Healthy, PollTimesOut,
                RemoveDropin, Commit, Send, Answered
  <2>2. cancelled' = cancelled /\ outside' = outside
    BY <1>3 DEF RestartRefused, WriteDropin, Healthy, PollTimesOut,
                RemoveDropin, Commit, Send, Answered
  <2>3. \E s : pc' = [pc EXCEPT ![c] = s]
    BY <1>3 DEF RestartRefused, WriteDropin, Healthy, PollTimesOut,
                RemoveDropin, Commit, Send, Answered
  <2>4. \A d \in Calls \ {c} : pc'[d] = pc[d]
    BY <2>3 DEF TypeOK
  <2> QED BY <1>2, <2>1, <2>2, <2>4
<1>4. ASSUME NEW c \in Calls, Restart(c) \/ RestartFails(c) PROVE OneAtATime'
  <2>1. \A d \in Calls \ {c} : pc'[d] \in {pc[d], "failed"}
    BY <1>4, BrokenType DEF Restart, RestartFails, TypeOK
  <2>2. pc[c] \notin Finished /\ cancelled' = cancelled /\ outside' = outside
    BY <1>4 DEF Restart, RestartFails, Finished
  <2> QED BY <1>2, <2>1, <2>2
<1>5. ~ \E c \in Calls : Cancel(c)
  BY DEF Cancel, InTurn
<1>6. CASE Boot
  BY <1>6 DEF Boot, OneAtATime
<1>7. ~ OutsideRestart
  BY DEF OutsideRestart, InTurn, OneAtATime
<1>8. CASE UNCHANGED vars
  BY <1>8 DEF vars, OneAtATime
<1> QED BY <1>1, <1>3, <1>4, <1>5, <1>6, <1>7, <1>8 DEF Next, Progress

(* While a call is under way the others are before their begin or after    *)
(* their end, so a step of it only has to keep what is said of itself and  *)
(* of the memory.                                                          *)
LEMMA CurrentAfter ==
  ASSUME NEW c \in Calls, \A d \in Calls \ {c} : pc'[d] \in Finished,
         OfCall(c)', pc'[c] \notin Unsynced => Synced'
  PROVE  CurrentInv'
<1>1. \A d \in Calls \ {c} : OfCall(d)'
  BY DEF OfCall, Finished, Unsynced
<1> QED BY <1>1 DEF CurrentInv

(* What was remembered stays as current as it was while nothing changes.   *)
LEMMA SyncedStays ==
  ASSUME Synced, UNCHANGED <<env, active, refused>>
  PROVE  Synced'
BY DEF Synced, Given

LEMMA CurrentStep ==
  ASSUME InTurn, TypeOK, OneAtATime, CurrentInv, [Next]_vars
  PROVE  CurrentInv'
<1> USE DEF service
<1>0. /\ pc \in [Calls -> Stages] /\ active \in [Handles -> Setting] /\ host \in Hosts
      /\ dropin \in [Dirs -> Setting] /\ Source \in Dirs
      /\ \A c \in Calls : HandleOf[c] \in Handles
  BY HandlesAssumption DEF TypeOK, Source, Dirs
<1>1. ASSUME NEW c \in Calls, Check(c) PROVE CurrentInv'
  <2>1. \A d \in Calls : pc[d] \in Finished
    BY <1>1, InFlightInTurn
  <2>2. \A d \in Calls \ {c} : pc'[d] \in Finished
    BY <1>0, <1>1, <2>1 DEF Check
  <2>3. Synced
    BY <2>1 DEF CurrentInv, Finished, Unsynced
  <2>4. Synced'
    BY <1>1, <2>3, SyncedStays DEF Check
  <2>5. /\ pc'[c] = IF Changed(c) = {} THEN "send" ELSE "write"
        /\ env' = env /\ active' = active /\ refused' = refused
    BY <1>0, <1>1 DEF Check
  <2>6. OfCall(c)'
    <3>1. CASE Changed(c) = {}
      <4>1. \A p \in Given(c) : active[HandleOf[c]][p] = Wanted[c][p]
        BY <3>1 DEF Changed
      <4>2. Current(c) \/ \E d \in refused : Alike(c, d)
        BY <2>3, <4>1 DEF Synced, Current, Alike
      <4>3. (Current(c) \/ \E d \in refused : Alike(c, d))'
        BY <2>5, <4>2 DEF Current, Alike, Given
      <4> QED BY <2>5, <3>1, <4>3 DEF OfCall, Unsynced
    <3>2. CASE Changed(c) # {}
      <4>1. (Changed(c) # {})'
        BY <2>5, <3>2 DEF Changed, Given
      <4> QED BY <2>5, <3>2, <4>1 DEF OfCall, Unsynced
    <3> QED BY <3>1, <3>2
  <2> QED BY <2>2, <2>4, <2>6, CurrentAfter
<1>2. ASSUME NEW c \in Calls, pc[c] \notin Finished
      PROVE  \A d \in Calls \ {c} : pc[d] \in Finished
  BY <1>2 DEF OneAtATime
<1>3. ASSUME NEW c \in Calls, pc[c] \notin Finished, pc[c] \notin Unsynced PROVE Synced
  <2>1. \A d \in Calls : pc[d] \notin Unsynced
    BY <1>2, <1>3 DEF Finished, Unsynced
  <2> QED BY <2>1 DEF CurrentInv
<1>4. ASSUME NEW c \in Calls, RestartRefused(c) \/ Send(c) \/ Answered(c) PROVE CurrentInv'
  <2>1. pc[c] \in {"write", "send", "serving"} /\ UNCHANGED <<env, active, refused>>
    BY <1>4 DEF RestartRefused, Send, Answered
  <2>2. /\ \A d \in Calls \ {c} : pc'[d] = pc[d]
        /\ pc'[c] \in {"failed", "ok"} \/ (pc[c] = "send" /\ pc'[c] = "serving")
    BY <1>0, <1>4 DEF RestartRefused, Send, Answered
  <2>3. \A d \in Calls \ {c} : pc'[d] \in Finished
    BY <1>2, <2>1, <2>2 DEF Finished
  <2>4. Synced'
    BY <1>3, <2>1, SyncedStays DEF Finished, Unsynced
  <2>5. pc[c] = "send" => (Current(c) \/ \E d \in refused : Alike(c, d))'
    BY <2>1 DEF CurrentInv, OfCall, Current, Alike, Given
  <2>6. OfCall(c)'
    BY <2>2, <2>5 DEF OfCall, Unsynced
  <2> QED BY <2>3, <2>4, <2>6, CurrentAfter
<1>5. ASSUME NEW c \in Calls, WriteDropin(c) PROVE CurrentInv'
  <2>1. /\ pc[c] = "write" /\ pc'[c] = "restart" /\ \A d \in Calls \ {c} : pc'[d] = pc[d]
        /\ UNCHANGED <<env, active, refused, host>>
    BY <1>0, <1>5 DEF WriteDropin
  <2>2. ASSUME host.unit # "denied" PROVE dropin'[Source] = Wanted[c]
    <3>1. host.unit # "none"
      BY <1>5 DEF WriteDropin
    <3>2. Place = Source
      BY <1>0, <2>2, <3>1 DEF Place, Source, InTurn
    <3>3. Place \in Dirs /\ Place # "none"
      BY <1>0, <3>2 DEF Dirs
    <3> QED BY <1>0, <1>5, <3>2, <3>3 DEF WriteDropin
  <2>3. \A d \in Calls \ {c} : pc'[d] \in Finished
    BY <1>2, <2>1 DEF Finished
  <2>4. Synced'
    BY <1>3, <2>1, SyncedStays DEF Finished, Unsynced
  <2>5. OfCall(c)'
    BY <2>1, <2>2 DEF OfCall, CurrentInv, Unsynced, Changed, Given, Source
  <2> QED BY <2>3, <2>4, <2>5, CurrentAfter
<1>6. ASSUME NEW c \in Calls, Restart(c) PROVE CurrentInv'
  <2>1. pc[c] = "restart" /\ pc'[c] = "poll" /\ \A d \in Calls \ {c} : pc'[d] \in {pc[d], "failed"}
    BY <1>0, <1>6, BrokenType DEF Restart
  <2>2. env' = Wanted[c]
    BY <1>6, <2>1 DEF Restart, ServiceRestarts, CurrentInv, OfCall, Source
  <2>3. \A d \in Calls \ {c} : pc'[d] \in Finished
    BY <1>2, <2>1 DEF Finished
  <2>4. OfCall(c)' /\ pc'[c] \in Unsynced
    BY <2>1, <2>2 DEF OfCall, Unsynced
  <2> QED BY <2>3, <2>4, CurrentAfter
<1>7. ASSUME NEW c \in Calls, RestartFails(c) PROVE CurrentInv'
  <2>1. /\ pc[c] = "restart" /\ pc'[c] = "remove" /\ refused' = {c}
        /\ \A d \in Calls \ {c} : pc'[d] \in {pc[d], "failed"}
    BY <1>0, <1>7, BrokenType DEF RestartFails
  <2>2. \A d \in Calls \ {c} : pc'[d] \in Finished
    BY <1>2, <2>1 DEF Finished
  <2>3. OfCall(c)' /\ pc'[c] \in Unsynced
    BY <2>1 DEF OfCall, Unsynced
  <2> QED BY <2>2, <2>3, CurrentAfter
<1>8. ASSUME NEW c \in Calls, Healthy(c) \/ PollTimesOut(c) \/ RemoveDropin(c) PROVE CurrentInv'
  <2>1. /\ pc[c] \in Unsynced /\ pc'[c] \in {"remove", "commit"} /\ UNCHANGED <<env, refused>>
        /\ \A d \in Calls \ {c} : pc'[d] = pc[d]
    BY <1>0, <1>8 DEF Healthy, PollTimesOut, RemoveDropin, Unsynced, OneAtATime
  <2>2. \A d \in Calls \ {c} : pc'[d] \in Finished
    BY <1>2, <2>1 DEF Finished, Unsynced
  <2>3. env = Wanted[c] \/ c \in refused
    BY <2>1 DEF CurrentInv, OfCall
  <2>4. OfCall(c)' /\ pc'[c] \in Unsynced
    BY <2>1, <2>3 DEF OfCall, Unsynced
  <2> QED BY <2>2, <2>4, CurrentAfter
<1>9. ASSUME NEW c \in Calls, Commit(c) PROVE CurrentInv'
  <2>1. /\ pc[c] = "commit" /\ pc'[c] = "send" /\ UNCHANGED <<env, refused>>
        /\ \A d \in Calls \ {c} : pc'[d] = pc[d]
    BY <1>0, <1>9 DEF Commit
  <2>2. env = Wanted[c] \/ c \in refused
    BY <2>1 DEF CurrentInv, OfCall, Unsynced
  <2>3. active'[HandleOf[c]] = [p \in Params |-> IF p \in Given(c) THEN Wanted[c][p]
                                                 ELSE active[HandleOf[c]][p]]
    BY <1>0, <1>9 DEF Commit
  <2>4. \A p \in Given(c) : active'[HandleOf[c]][p] = Wanted[c][p]
    BY <2>3 DEF Given
  <2>5. Synced'
    <3>1. \A d \in Calls : HandleOf[d] = HandleOf[c] /\ Given(d) = Given(c)
      BY DEF InTurn
    <3> QED BY <2>1, <2>2, <2>4, <3>1 DEF Synced, Given
  <2>6. \A d \in Calls \ {c} : pc'[d] \in Finished
    BY <1>2, <2>1 DEF Finished
  <2>7. (Current(c) \/ \E d \in refused : Alike(c, d))'
    BY <2>1, <2>2 DEF Current, Alike
  <2>8. OfCall(c)'
    BY <2>1, <2>7 DEF OfCall, Unsynced
  <2> QED BY <2>5, <2>6, <2>8, CurrentAfter
<1>10. ASSUME UNCHANGED <<host, env, dropin, active, pc, refused>> PROVE CurrentInv'
  BY <1>10 DEF CurrentInv, OfCall, Synced, Changed, Current, Alike, Given, Source
<1>11. ~ \E c \in Calls : Cancel(c)
  BY DEF Cancel, InTurn
<1>12. ~ OutsideRestart
  BY DEF OutsideRestart, InTurn, OneAtATime
<1>13. Boot \/ UNCHANGED vars => UNCHANGED <<host, env, dropin, active, pc, refused>>
  BY DEF Boot, vars
<1> QED BY <1>1, <1>4, <1>5, <1>6, <1>7, <1>8, <1>9, <1>10, <1>11, <1>12, <1>13 DEF Next, Progress

LEMMA CurrentInit == Init => OneAtATime /\ CurrentInv
<1> SUFFICES ASSUME Init PROVE OneAtATime /\ CurrentInv
  OBVIOUS
<1>1. OneAtATime
  BY DEF Init, OneAtATime, Finished
<1>2. Synced
  BY HandlesAssumption DEF Init, Default, Given, Synced
<1>3. \A c \in Calls : OfCall(c)
  BY DEF Init, OfCall, Unsynced
<1> QED BY <1>1, <1>2, <1>3 DEF CurrentInv

(* In turn, and however many restarts fail, a request is served under the  *)
(* parameters its call was given, or the last restart failed and was for   *)
(* the same ones.                                                          *)
THEOREM ServedInTurn == ASSUME InTurn PROVE Spec => []ServedAsRestarted
<1> DEFINE Inv == TypeOK /\ OneAtATime /\ CurrentInv
<1>1. Init => Inv
  BY InitTypeOK, CurrentInit
<1>2. Inv /\ [Next]_vars => Inv'
  BY NextTypeOK, OneAtATimeStep, CurrentStep
<1>3. Inv => ServedAsRestarted
  BY DEF CurrentInv, OfCall, ServedAsRestarted
<1> QED BY <1>1, <1>2, <1>3, PTL DEF Spec

(* In turn, a restart is only tried if a parameter differs from what the   *)
(* service runs under, or from what a failed restart left remembered.      *)
THEOREM RestartsInTurnAreNeeded == ASSUME InTurn PROVE Spec => RestartIsNeeded
<1> DEFINE Inv == TypeOK /\ OneAtATime /\ CurrentInv
           Needed == [\A c \in Calls : pc[c] = "restart" /\ pc'[c] \in {"poll", "remove"} =>
                        ~Current(c) \/ \E d \in refused : ~Alike(c, d)]_vars
<1>1. Init => Inv
  BY InitTypeOK, CurrentInit
<1>2. Inv /\ [Next]_vars => Inv'
  BY NextTypeOK, OneAtATimeStep, CurrentStep
<1>3. Inv => Needed
  <2> SUFFICES ASSUME Inv, NEW c \in Calls, pc[c] = "restart"
               PROVE  ~Current(c) \/ \E d \in refused : ~Alike(c, d)
    OBVIOUS
  <2>1. \A d \in Calls \ {c} : pc[d] \in Finished
    BY DEF OneAtATime, Finished
  <2>2. Synced
    BY <2>1 DEF CurrentInv, Finished, Unsynced
  <2>3. PICK p \in Given(c) : active[HandleOf[c]][p] # Wanted[c][p]
    BY DEF CurrentInv, OfCall, Changed
  <2>4. CASE \A q \in Given(c) : active[HandleOf[c]][q] = env[q]
    BY <2>3, <2>4 DEF Current
  <2>5. CASE \E d \in refused : \A q \in Given(c) : active[HandleOf[c]][q] = Wanted[d][q]
    BY <2>3, <2>5 DEF Alike
  <2> QED BY <2>2, <2>4, <2>5 DEF Synced
<1> QED BY <1>1, <1>2, <1>3, PTL DEF Spec, RestartIsNeeded

-----------------------------------------------------------------------------
(* Why everything comes to rest.  What is left are the outside restarts,   *)
(* then the stages of each call, then calls that may be cancelled, then a  *)
(* start of the service; each step uses up one of them and leaves those    *)
(* before it alone, and no step takes any call back to an earlier stage.   *)
(* As Calls is finite when programs run, no run is endless, cancelled and  *)
(* restarted as it may be; that a call is not left in its middle is the    *)
(* other half of CallsFinish.                                              *)

Rank == [idle |-> 9, write |-> 8, restart |-> 7, poll |-> 6, remove |-> 5, commit |-> 4,
         send |-> 3, serving |-> 2, ok |-> 1, failed |-> 1, cancelled |-> 1]

StagesLeft(c) == Rank[pc[c]]

Advances ==
  /\ \E c \in Calls : StagesLeft(c)' < StagesLeft(c)
  /\ \A d \in Calls : StagesLeft(d)' <= StagesLeft(d)

Measured == MaxOutside - outside \in Nat /\ \A c \in Calls : StagesLeft(c) \in Nat

ComesCloser ==
  \/ outside' = outside + 1
  \/ /\ outside' = outside
     /\ \/ Advances
        \/ pc' = pc /\ \E c \in Calls \ cancelled : cancelled' = cancelled \cup {c}
        \/ UNCHANGED <<pc, cancelled>> /\ ~up /\ up'

LEMMA RankType ==
  /\ \A s \in Stages : Rank[s] \in Nat /\ Rank[s] >= 1
  /\ Rank["idle"] = 9 /\ Rank["write"] = 8 /\ Rank["restart"] = 7 /\ Rank["poll"] = 6
  /\ Rank["remove"] = 5 /\ Rank["commit"] = 4 /\ Rank["send"] = 3 /\ Rank["serving"] = 2
  /\ Rank["ok"] = 1 /\ Rank["failed"] = 1 /\ Rank["cancelled"] = 1
BY DEF Rank, Stages

LEMMA OneAdvances ==
  ASSUME NEW c \in Calls, NEW s \in Stages, pc \in [Calls -> Stages],
         pc' = [pc EXCEPT ![c] = s], Rank[s] < Rank[pc[c]]
  PROVE  Advances
<1>1. StagesLeft(c)' < StagesLeft(c)
  BY DEF StagesLeft
<1>2. ASSUME NEW d \in Calls PROVE StagesLeft(d)' <= StagesLeft(d)
  <2>1. CASE d = c
    BY <1>1, <2>1, RankType DEF StagesLeft
  <2>2. CASE d # c
    BY <2>2, RankType DEF StagesLeft
  <2> QED BY <2>1, <2>2
<1> QED BY <1>1, <1>2 DEF Advances

LEMMA ProgressAdvances ==
  ASSUME TypeOK, NEW c \in Calls, Progress(c)
  PROVE  outside' = outside /\ Advances
<1> USE DEF service
<1>1. pc \in [Calls -> Stages]
  BY DEF TypeOK
<1>2. CASE Restart(c) \/ RestartFails(c)
  <2>1. pc[c] = "restart" /\ outside' = outside
    BY <1>2 DEF Restart, RestartFails
  <2>2. \A d \in Calls : pc'[d] = pc[d] \/ (pc[d] = "serving" /\ pc'[d] = "failed")
                         \/ (d = c /\ pc'[d] \in {"poll", "remove"})
    BY <1>1, <1>2 DEF Broken, Restart, RestartFails
  <2>3. pc'[c] \in {"poll", "remove"}
    BY <1>1, <1>2 DEF Broken, Restart, RestartFails
  <2>4. StagesLeft(c)' < StagesLeft(c)
    BY <2>1, <2>3, RankType DEF StagesLeft
  <2>5. ASSUME NEW d \in Calls PROVE StagesLeft(d)' <= StagesLeft(d)
    BY <1>1, <2>1, <2>2, RankType DEF StagesLeft
  <2> QED BY <2>1, <2>4, <2>5 DEF Advances
<1>3. CASE ~Restart(c) /\ ~RestartFails(c)
  <2>1. outside' = outside
    BY <1>3 DEF Progress, Check, RestartRefused, WriteDropin, Healthy, PollTimesOut,
                RemoveDropin, Commit, Send, Answered
  <2>2. \E s \in Stages : pc' = [pc EXCEPT ![c] = s] /\ Rank[s] < Rank[pc[c]]
    <3>1. CASE Check(c)
      <4>1. PICK s \in {"send", "write"} : pc' = [pc EXCEPT ![c] = s]
        BY <3>1 DEF Check
      <4>2. pc[c] = "idle" /\ s \in Stages
        BY <3>1 DEF Check, Stages
      <4>3. Rank[s] < Rank["idle"]
        BY <4>1, RankType
      <4> QED BY <4>1, <4>2, <4>3
    <3>2. CASE RestartRefused(c) \/ WriteDropin(c) \/ Healthy(c) \/ PollTimesOut(c)
      BY <3>2, RankType DEF RestartRefused, WriteDropin, Healthy, PollTimesOut, Stages
    <3>3. CASE RemoveDropin(c)
      <4>1. PICK s \in {"cancelled", "commit"} : pc' = [pc EXCEPT ![c] = s]
        BY <3>3 DEF RemoveDropin
      <4>2. pc[c] = "remove" /\ s \in Stages
        BY <3>3 DEF RemoveDropin, Stages
      <4>3. Rank[s] < Rank["remove"]
        BY <4>1, RankType
      <4> QED BY <4>1, <4>2, <4>3
    <3>4. CASE Commit(c) \/ Send(c) \/ Answered(c)
      BY <3>4, RankType DEF Commit, Send, Answered, Stages
    <3> QED BY <1>3, <3>1, <3>2, <3>3, <3>4 DEF Progress
  <2> QED BY <1>1, <2>1, <2>2, OneAdvances
<1> QED BY <1>2, <1>3

LEMMA StepComesCloser == TypeOK /\ [Next]_vars => [ComesCloser]_vars
<1> SUFFICES ASSUME TypeOK, Next PROVE ComesCloser
  BY DEF vars
<1> USE DEF service
<1>1. ASSUME NEW c \in Calls, Progress(c) PROVE ComesCloser
  BY <1>1, ProgressAdvances DEF ComesCloser
<1>2. ASSUME NEW c \in Calls, Cancel(c) PROVE ComesCloser
  <2>1. outside' = outside /\ c \in InFlight
    BY <1>2 DEF Cancel
  <2>2. pc[c] \in Stages /\ pc[c] \notin {"idle", "ok", "failed", "cancelled"} /\ c \notin cancelled
    BY <2>1 DEF InFlight, TypeOK
  <2>3. CASE pc' = pc /\ cancelled' = cancelled \cup {c}
    BY <2>1, <2>2, <2>3 DEF ComesCloser
  <2>4. CASE pc' = [pc EXCEPT ![c] = "cancelled"]
    <3>1. Rank["cancelled"] < Rank[pc[c]] /\ "cancelled" \in Stages
      BY <2>2, RankType DEF Stages
    <3> QED BY <2>1, <2>4, <3>1, OneAdvances DEF ComesCloser, TypeOK
  <2> QED BY <1>2, <2>3, <2>4 DEF Cancel
<1>3. CASE Boot
  BY <1>3 DEF Boot, ComesCloser
<1>4. CASE OutsideRestart
  BY <1>4 DEF OutsideRestart, ComesCloser
<1> QED BY <1>1, <1>2, <1>3, <1>4 DEF Next

LEMMA TypesMeasured == TypeOK => Measured
<1> SUFFICES ASSUME TypeOK PROVE Measured
  OBVIOUS
<1>1. MaxOutside - outside \in Nat
  BY MaxOutsideAssumption DEF TypeOK
<1>2. \A c \in Calls : StagesLeft(c) \in Nat
  BY RankType DEF TypeOK, StagesLeft
<1> QED BY <1>1, <1>2 DEF Measured

(* Whatever restarts, fails or is cancelled, calls only go forwards and    *)
(* every step uses up something there is only so much of.                  *)
THEOREM EveryStepComesCloser == Spec => []Measured /\ [][ComesCloser]_vars
BY InitTypeOK, NextTypeOK, TypesMeasured, StepComesCloser, PTL DEF Spec

=============================================================================
