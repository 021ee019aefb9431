CONSTANTS
  MaxSize = 5
  MaxRounds = 2
SPECIFICATION Spec
CHECK_DEADLOCK FALSE
INVARIANTS NobodyLeavesEarly NoneLeftOver
PROPERTIES BarrierEnds
