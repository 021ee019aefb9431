CONSTANTS
  MaxPid = 4
  Tuple <- MCTuple
SPECIFICATION Spec
INVARIANTS LookupRight NeverFails
PROPERTIES LookupEnds
