CONSTANTS
  a = a
  b = b
  c = c
  d = d
  e = e
  f = f
  Rank = {a, b, c, d, e, f}
  LeaderOf <- MCLeaderOf
  RootOf <- MCRootOf
  MaxRounds = 3
SPECIFICATION Spec
CHECK_DEADLOCK FALSE
INVARIANTS NobodyLeavesEarly
PROPERTIES BarrierEnds
