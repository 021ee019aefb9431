CONSTANTS
  Proc <- MCProc
  CellsOf <- MCCells
  Programs <- MCPrograms
  Seqnos = 3
  NULL = NULL
SPECIFICATION FairSpec
CHECK_DEADLOCK FALSE
INVARIANTS Assertions InOrder
PROPERTIES Delivered
