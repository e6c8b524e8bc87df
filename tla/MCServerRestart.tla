-------------------------- MODULE MCServerRestart --------------------------
(* ServerRestart with three calls and two parameters.                      *)
EXTENDS ServerRestart, TLC

CONSTANTS c1, c2, c3, h1, h2, np, kv, v1, v2

MCCalls == {c1, c2, c3}
MCParams == {np, kv}
MCValues == {v1, v2}

Only(p, v) == [q \in MCParams |-> IF q = p THEN v ELSE Unset]
Both(v, w) == [q \in MCParams |-> IF q = np THEN v ELSE w]

(* Two handles; two calls that agree, one that sets the other parameter.   *)
TwoHandles == {h1, h2}
OneHandle == {h1}
MixedHandleOf == (c1 :> h1) @@ (c2 :> h1) @@ (c3 :> h2)
SameHandleOf == [c \in MCCalls |-> h1]
MixedWanted == (c1 :> Only(np, v1)) @@ (c2 :> Only(np, v1)) @@ (c3 :> Only(kv, v2))

(* Every call sets every parameter: one the default way, one differently.  *)
FullWanted == (c1 :> Both(v1, v1)) @@ (c2 :> Both(v1, v1)) @@ (c3 :> Both(v1, v2))

(* A unit of the user's own; the system unit that setup_service_restart.sh *)
(* installs, used by its unprivileged user, or by one who may write no     *)
(* override; no systemd_service.  Root's system unit is to the system what *)
(* the first is to the user, and a unit that nobody may restart ("denied") *)
(* does nothing that the second does not: see EffectiveHosts for these.    *)
UserUnit == [unit |-> "user", writable |-> {"user"}]
SystemUnit == [unit |-> "system", writable |-> {"user"}]
AllHosts ==
  { UserUnit, SystemUnit,
    [unit |-> "system", writable |-> {}],
    [unit |-> "none", writable |-> {"user"}] }
OnlyUserUnit == {UserUnit}
OnlySystemUnit == {SystemUnit}

(* Hosts on which an override is written where the unit's service reads    *)
(* it, or where no restart is possible.                                    *)
EffectiveHosts ==
  { UserUnit,
    [unit |-> "system", writable |-> {"system"}],
    [unit |-> "denied", writable |-> {"user", "system"}],
    [unit |-> "none", writable |-> {"user"}] }

=============================================================================
