SPECIFICATION Spec
CHECK_DEADLOCK FALSE
CONSTANTS
  b1 = b1
  t1 = t1
  t2 = t2
  Browsers = {b1}
  Targets = {t1, t2}
  Names = {t1}
  Cached = {}
  Unreachable = {}
  Kinds = {"HTTP"}
  Forwards = {t2}
  Malformed = TRUE
  Loss = FALSE
  maxConnPipe = 100
  MaxTunnid = 2
  MaxChunks = 3
INVARIANTS TunnelInv   
