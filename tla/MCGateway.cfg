CONSTANTS
  c1 = c1  c2 = c2  c3 = c3  r1 = r1  r2 = r2  s1 = s1  s2 = s2
  NoRun = NoRun
  NoKey = NoKey
  Calls = {c1, c2, c3}
  Runs = {r1, r2}
  Keys = {}
  Sigs = {s1, s2}
  Shadow = FALSE
  BypassAllowed = FALSE
  Fallback = FALSE
  Window = 2
  MaxPerRun = 3
  MaxRepeat = 2
  MaxWindows = 1
  MaxTime = 2
SPECIFICATION Spec
SYMMETRY GatewaySymmetry
CONSTRAINT NoIdleTick
CHECK_DEADLOCK FALSE
INVARIANTS ReservedWhileOut RowsTellTheTruth NoRecentCallForgotten
PROPERTIES FlagsItsWindow
