CONSTANTS
  N = 3
  PT = PT
  Net = Net
  NULL = NULL
  MaxColocatedYields = 2
  Programs <- MCPrograms
SPECIFICATION Spec
CHECK_DEADLOCK FALSE
INVARIANTS InitBarrier InitAssertions NoLostWakeup BlockedIsServed NeverIdle
PROPERTIES Termination
