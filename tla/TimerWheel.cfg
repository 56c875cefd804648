SPECIFICATION FairSpec
CONSTANTS
  Granularity = 2
  CycleNodes = 2
  Intervals = {1, 13}
  MaxTimers = 3
  MaxElapsed = 5
  Watched = {2}
INVARIANTS IInv PoolExact
PROPERTIES ImplementsTimers Fires
