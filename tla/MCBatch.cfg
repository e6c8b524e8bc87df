SPECIFICATION Spec
CONSTANTS
  Batches <- MCBatches
  Outcomes = {"ok", "failed"}
CHECK_DEADLOCK FALSE
INVARIANTS
  TypeOK
  SlotsConserved
  ResultIsEveryOutcome
PROPERTIES
  EverythingEnds
  Promise
