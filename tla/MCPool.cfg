CONSTANTS
  c1 = c1  c2 = c2  c3 = c3  n1 = n1  n2 = n2  n3 = n3
  NoConn = NoConn
  Calls = {c1, c2, c3}
  Conns = {n1, n2}
  Slots = 2
  Turns = 1
  Greetings = 1
  MaxRestarts = 1
SPECIFICATION Spec
SYMMETRY PoolSymmetry
INVARIANTS OpenBound NoTokenLost AnsweredOnlyIfRun RerunsNeedRestart
