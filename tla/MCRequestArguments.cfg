SPECIFICATION Spec
CONSTANTS
  Kinds <- MCKinds
  Focuses <- MCFocuses
INVARIANTS
  CallArgumentsReachModel
