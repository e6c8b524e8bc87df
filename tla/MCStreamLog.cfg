SPECIFICATION Spec
CONSTANTS
  c1 = c1
  c2 = c2
  Calls <- MCCalls
  Formats = {TRUE, FALSE}
  Concurrency = 2
  MaxRequests = 3
  MaxDeltas = 3
  MaxParts = 2
SYMMETRY Symmetry
CHECK_DEADLOCK FALSE
INVARIANTS
  TypeOK
  OneFooterPerRecord
  TextsUnderTheirHeading
  LogTellsReply
  ToolCallsApart
