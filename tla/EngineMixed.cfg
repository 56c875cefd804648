SPECIFICATION Spec
CONSTANTS
  Files = {f1}
  Socks = {s1, s2}
  Aops = {a1, a2, a3}
  Ops = {d1, d2}
  Fds = {1, 2}
  Workers = {w1, w2}
  NULL = NULL
  QUIT = QUIT
  AllowAsyncClose = FALSE
  AllowBusyClose = FALSE
SYMMETRY Symm
INVARIANTS EngineInv  PendingHasKey CleanShutdown
PROPERTIES ImplementsAsyncIO
