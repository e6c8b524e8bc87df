SPECIFICATION Spec
CONSTANTS
  Batches <- MCBatches
  Outcomes = {"ok", "failed"}
CHECK_DEADLOCK FALSE
PROPERTIES
  NoCallAfterRaise
