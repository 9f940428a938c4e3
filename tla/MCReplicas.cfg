CONSTANTS
  c1 = c1  c2 = c2  c3 = c3
  g1 = g1  g2 = g2  u1 = u1
  NoRun = NoRun
  NoKey = NoKey
  NoCall = NoCall
  Runs = {}
  Keys = {}
  Gateways = {g1, g2}
  Calls = {c1, c2, c3}
  BypassCalls = {}
  Resumes = {}
  Costs = {0}
  MaxCallsPerRun = 2
  MaxSpendPerRun = 0
  ReservePerCall = 0
  MaxSpendPerKeyDay = 0
  MaxSpendPerKey = 0
  PauseOnSuspectedLoop = FALSE
  Shadow = FALSE
  MaxRuns = 1
  Grain = 1
  MaxOwed = 2
  FlushBatch = 2
  WriteBackPasses = 1
  FailStreakToDegrade = 1
  MaxFaults = 1
SPECIFICATION Spec
SYMMETRY CallSymmetry
INVARIANTS SharedCapHolds
