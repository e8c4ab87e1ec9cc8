CONSTANTS
  a = a
  b = b
  c = c
  ghost = ghost
  N = 3
  Names <- MC_Names
  Definitions <- MC_Definitions
  Retries <- MC_Retries
  Timed = {2}
  MaxConcurrency = 2
SPECIFICATION FairEngines
INVARIANTS
  StartsAfterDependencies
  EachStepStartsOnce
  ResultsAreOutcomes
  CycleVerdictExact
  SkippedForAReason
  SuccessIsReal
PROPERTIES
  RunReturns
CHECK_DEADLOCK FALSE
