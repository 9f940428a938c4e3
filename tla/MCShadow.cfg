CONSTANTS
  r1 = r1  r2 = r2  k1 = k1  k2 = k2
  c1 = c1  c2 = c2  c3 = c3  c4 = c4
  NoRun = NoRun
  NoKey = NoKey
  Runs = {r1}
  Keys = {k1}
  Calls = {c1, c2}
  Costs = {3}
  MaxCallsPerRun = 1
  MaxSpendPerRun = 5
  ReservePerCall = 0
  MaxSpendPerKeyDay = 4
  MaxSpendPerKey = 5
  PauseOnSuspectedLoop = TRUE
  Shadow = TRUE
  MaxRuns = 1
  Grain = 1
  RequestCaps = {}
  BypassAllowed = FALSE
  Fallback = TRUE
  MaxNow = 1
  MaxDay = 1
SPECIFICATION Spec
SYMMETRY CallSymmetry
PROPERTIES OneAlertPerStop
