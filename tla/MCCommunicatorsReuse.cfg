CONSTANTS
  N = 3
  Layouts <- MCLayouts
  WordBits = 2
  EagerWords = 2
  Words = 4
  Programs <- MCReuse
  InitSize = 7
  Primes <- MCPrimes
  Shift = 1
  NULL = NULL
SPECIFICATION Spec
CHECK_DEADLOCK FALSE
INVARIANTS MapsAreOwn
