CONSTANTS
  c1 = c1  c2 = c2  c3 = c3
  g1 = g1  g2 = g2  u1 = u1
  NoRun = NoRun
  NoKey = NoKey
  NoCall = NoCall
  Runs = {}
  Keys = {}
  Gateways = {g1}
  Calls = {c1, c2}
  BypassCalls = {}
  Resumes = {}
  Costs = {0}
  MaxCallsPerRun = 1
  MaxSpendPerRun = 0
  ReservePerCall = 0
  MaxSpendPerKeyDay = 0
  MaxSpendPerKey = 0
  PauseOnSuspectedLoop = FALSE
  Shadow = FALSE
  MaxRuns = 1
  Grain = 1
  MaxOwed = 2
  FlushBatch = 1
  WriteBackPasses = 2
  FailStreakToDegrade = 1
  MaxFaults = 2
SPECIFICATION FairSpec
PROPERTIES GapEnds OwedLands
