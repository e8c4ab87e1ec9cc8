CONSTANTS
  a = a
  b = b
  c = c
  ghost = ghost
  N = 3
  Names <- MC_Names
  Definitions <- MC_Acyclic
  Retries <- MC_Retries
  Timed = {}
  MaxConcurrency = 2
SPECIFICATION EnginesSpec
INVARIANTS
  EveryPositionFilled
CHECK_DEADLOCK FALSE
