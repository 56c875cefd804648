SPECIFICATION FairSpec
CONSTANTS
  a = a
  b = b
  d1 = d1
  d2 = d2
  Addrs = {a, b}
  Domains = {d1, d2}
  Targets = {a}
  Aid = b
  MaxPackets = 1
  Resolvable = {a}
  BusyHelper = FALSE
  Watched = {a, d1}
  NULL = NULL
INVARIANTS NetInv
  
