CONSTANTS
  r1 = r1  r2 = r2  k1 = k1  k2 = k2
  c1 = c1  c2 = c2  c3 = c3  c4 = c4
  NoRun = NoRun
  NoKey = NoKey
  Runs = {r1, r2}
  Keys = {}
  Calls = {c1, c2, c3}
  Costs = {0, 3}
  MaxCallsPerRun = 2
  MaxSpendPerRun = 7
  ReservePerCall = 3
  MaxSpendPerKeyDay = 0
  MaxSpendPerKey = 0
  PauseOnSuspectedLoop = TRUE
  Shadow = FALSE
  MaxRuns = 1
  Grain = 2
  RequestCaps = {1}
  BypassAllowed = TRUE
  Fallback = FALSE
  MaxNow = 2
  MaxDay = 0
SPECIFICATION Spec
SYMMETRY CallSymmetry
INVARIANTS TypeOK NoPhantomReservation CallCapHolds
PROPERTIES ImplementsBudget DropsLeastRecent
