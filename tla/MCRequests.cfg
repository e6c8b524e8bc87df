SPECIFICATION Spec
CONSTANTS
  Kinds <- MCKinds
  Focuses <- MCFocuses
INVARIANTS
  TypeOK
  NearestLayerWins
  LimitReachesServer
