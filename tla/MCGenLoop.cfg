SPECIFICATION Spec
CONSTANTS
  NoName = NoName
  NoId = NoId
  search = search
  absent = absent
  c1 = c1
  Names <- MCNames
  Registry <- MCRegistry
  Ids <- MCIds
  Replies <- MCReplies
  Arguments <- MCArguments
INVARIANTS
  TypeOK
  RequestsBounded
  EveryReplyAccounted
  ToolRepliesPaired
  EffectsRecorded
  OutcomeJustified
PROPERTIES
  HistoryKept
  Contract
