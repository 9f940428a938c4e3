CONSTANTS
  c1 = c1  g1 = g1  o1 = o1  o2 = o2
  Gateways = {g1}
  Calls = {}
  Orders = {o1, o2}
  FailStreakToDegrade = 1
  WriteBackPasses = 1
  MaxFaults = 0
SPECIFICATION Spec
INVARIANTS StaysEngaged
