SPECIFICATION FairSpec
CONSTANTS
  x1 = x1
  x2 = x2
  x3 = x3
  x4 = x4
  Addresses = {x1, x2, x3, x4}
  MaxCount = 4
  NULL = NULL
INVARIANTS CacheInv
PROPERTIES TakeTurns
