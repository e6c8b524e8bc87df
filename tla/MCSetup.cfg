SPECIFICATION Spec
CONSTANTS
  ollama = ollama
  lmStudio = lmStudio
  llamaCpp = llamaCpp
  custom = custom
  Services <- MCServices
  Templates <- MCTemplates
  Ollama = ollama
  MaxRuns = 3
CHECK_DEADLOCK FALSE
INVARIANTS
  DoneMeansReady
PROPERTIES
  ExistingUnitsKept
