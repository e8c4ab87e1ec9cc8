CONSTANTS
  c1 = c1
  c2 = c2
  i1 = i1
  i2 = i2
  retried = retried
  never = never
  Req = {c1, c2}
  Ids = {i1, i2}
  IdOf <- MC_IdOf
  NoReq = NoReq
  Entry = {retried, never}
  Config <- MC_Config
  NoEntry = NoEntry
  PreHooks = 1
  PostHooks = 1
  MaxRuns = 2
SPECIFICATION Spec
INVARIANTS
  TypeOK
  OnlyGrantedCallsRun
  RunsTheEntryInvoked
  AttemptsWithinPolicy
  ReturnedCallsAreAudited
PROPERTIES
  OutcomeIsFinal
  ImplementsGuardedTool
