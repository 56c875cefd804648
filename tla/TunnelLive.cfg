SPECIFICATION FairSpec
CHECK_DEADLOCK FALSE
CONSTANTS
  b1 = b1
  b2 = b2
  t1 = t1
  t2 = t2
  Browsers = {b1, b2}
  Targets = {t1, t2}
  Names = {t1}
  Cached = {}
  Unreachable = {t2}
  Kinds = {"HTTPS", "SOCK"}
  Forwards = {t1}
  Malformed = FALSE
  Loss = TRUE
  maxConnPipe = 1
  MaxTunnid = 2
  MaxChunks = 1
PROPERTIES Answered 
