SPECIFICATION Spec
CONSTANTS
  Window = 3
  Lookback = 16
  MinHits = 3
  MinSum = 9
  MinTokens = 6
  MinSegment = 1
  MinRun = 3
  MinNumbers = 4
  NumericLength = 15
  BlockLength = 8
  Around <- MCAround
  Thoughts <- MCThoughts
  Beginnings <- MCBeginnings
  Units <- MCUnits
  Schemas <- OnlyJsonSchema
  Keys <- JsonSchemaKeys
  Values <- MCValues
  MaxMembers = 3
  MaxProse = 4
  MaxStructured = 0
  MaxLooping = 0
  Settled = 24
CHECK_DEADLOCK FALSE
INVARIANTS
  JsonSchemaHonoured
