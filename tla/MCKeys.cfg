CONSTANTS
  r1 = r1  r2 = r2  k1 = k1  k2 = k2
  c1 = c1  c2 = c2  c3 = c3  c4 = c4
  NoRun = NoRun
  NoKey = NoKey
  Runs = {r1}
  Keys = {k1, k2}
  Calls = {c1, c2, c3}
  Costs = {1, 3}
  MaxCallsPerRun = 0
  MaxSpendPerRun = 5
  ReservePerCall = 3
  MaxSpendPerKeyDay = 4
  MaxSpendPerKey = 6
  PauseOnSuspectedLoop = FALSE
  Shadow = FALSE
  MaxRuns = 1
  Grain = 2
  RequestCaps = {}
  BypassAllowed = FALSE
  Fallback = FALSE
  MaxNow = 1
  MaxDay = 2
SPECIFICATION Spec
SYMMETRY CallSymmetry
INVARIANTS RunSpendHolds KeySpendHolds
PROPERTIES OneAlertPerStop PauseStands KeyTallyKept
