CONSTANTS
  a = a
  b = b
  c = c
  ghost = ghost
  N = 3
  Names <- MC_Names
  Definitions <- MC_SelfLoop
  Retries <- MC_Retries
  Timed = {}
  MaxConcurrency = 2
SPECIFICATION FairEngines
PROPERTIES
  RunReturns
CHECK_DEADLOCK FALSE
