SPECIFICATION FairSpec
CONSTANTS
  Files = {f1}
  Socks = {s1}
  Aops = {a1, a2}
  Ops = {d1, d2}
  Fds = {1, 2}
  Workers = {w1, w2}
  NULL = NULL
  QUIT = QUIT
  AllowAsyncClose = TRUE
  AllowBusyClose = FALSE
PROPERTIES ShutdownCompletes
