CONSTANTS
  N = 3
  Layouts <- MCLayouts
  WordBits = 2
  EagerWords = 2
  Words = 4
  Programs <- MCPrograms
  InitSize = 7
  Primes <- MCPrimes
  Shift = 1
  NULL = NULL
SPECIFICATION FairSpec
CHECK_DEADLOCK FALSE
INVARIANTS SharedBlock RefsExact TableSound
PROPERTIES Returns RefinesContextIds
