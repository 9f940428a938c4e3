CONSTANTS
  c1 = c1  g1 = g1  o1 = o1  o2 = o2
  Gateways = {g1}
  Calls = {c1}
  Orders = {o1, o2}
  FailStreakToDegrade = 1
  WriteBackPasses = 1
  MaxFaults = 1
SPECIFICATION BootSpec
INVARIANTS TypeOK KillHolds StoreEndsWithLast FallbackAgrees
PROPERTIES OrderLands
