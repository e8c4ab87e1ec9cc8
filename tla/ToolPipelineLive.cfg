CONSTANTS
  c1 = c1
  c2 = c2
  i1 = i1
  i2 = i2
  retried = retried
  never = never
  Req = {c1, c2}
  Ids = {i1}
  IdOf <- MC_SharedId
  NoReq = NoReq
  Entry = {retried, never}
  Config <- MC_Untimed
  NoEntry = NoEntry
  PreHooks = 0
  PostHooks = 0
  MaxRuns = 2
SPECIFICATION FairSpec
INVARIANTS
  SendersTracked
  OneDecisionPerRequest
PROPERTIES
  ResolvedWaitersWake
  OnlyTheDeciderCanStall
