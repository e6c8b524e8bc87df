SPECIFICATION Spec
CONSTANTS
  c1 = c1
  c2 = c2
  c3 = c3
  h1 = h1
  h2 = h2
  np = np
  kv = kv
  v1 = v1
  v2 = v2
  Unset = Unset
  Calls <- MCCalls
  Params <- MCParams
  Values <- MCValues
  Handles <- OneHandle
  HandleOf <- SameHandleOf
  Wanted <- FullWanted
  Hosts <- EffectiveHosts
  Concurrency = 1
  MayCancel = FALSE
  MaxOutside = 0
CHECK_DEADLOCK FALSE
INVARIANTS
  ServedAsRestarted
PROPERTIES
  RestartIsNeeded
