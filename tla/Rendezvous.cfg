SPECIFICATION FairSpec
CHECK_DEADLOCK FALSE
CONSTANTS
  a1 = a1
  a2 = a2
  f1 = f1
  Admits = {a1, a2}
  Finders = {f1}
  Names = {"xlorb", "xlord"}
  Name <- MCName
  Wanted <- MCWanted
  Overtake = FALSE
  MaxTroubles = 1
  NULL = NULL
INVARIANTS RendezvousInv
PROPERTIES  FinderEnds
