CONSTANTS
  c1 = c1  c2 = c2  c3 = c3  g1 = g1  g2 = g2  u1 = u1  k1 = k1
  NoRun = NoRun
  NoKey = NoKey
  Runs = {}
  Keys = {k1}
  Gateways = {g1, g2}
  Calls = {c1, c2}
  BypassCalls = {}
  Resumes = {u1}
  Costs = {1, 2}
  MaxCallsPerRun = 0
  MaxSpendPerRun = 0
  ReservePerCall = 2
  MaxSpendPerKeyDay = 1
  MaxSpendPerKey = 2
  PauseOnSuspectedLoop = FALSE
  Shadow = FALSE
  MaxRuns = 1
  Grain = 1
  MaxDay = 2
  MaxFaults = 2
SPECIFICATION Spec
SYMMETRY StoreKeysSymmetry
INVARIANTS DailyPauseIsOfItsDay ListedWhilePaused SharedKeyCapHolds
PROPERTIES TotalKept
