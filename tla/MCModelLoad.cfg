SPECIFICATION Spec
CONSTANTS
  c1 = c1
  c2 = c2
  c3 = c3
  m1 = m1
  m2 = m2
  m3 = m3
  v1 = v1
  v2 = v2
  Unset = Unset
  Absent = Absent
  Calls <- MCCalls
  Models <- MCModels
  Located <- MCLocated
  Values <- MCValues
  Providers <- AllProviders
  Requests <- MCRequests
  Concurrency = 3
  MaxUnloads = 1
SYMMETRY Symmetry
CHECK_DEADLOCK FALSE
INVARIANTS
  TypeOK
  ServedAsAsked
PROPERTIES
  OnlyDemandCutsOff
  NoNeedlessLoad
