SPECIFICATION Spec
CONSTANTS
  Kinds <- OpenAIKinds
  Focuses <- LimitFocuses
INVARIANTS
  CallLimitWins
