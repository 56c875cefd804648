SPECIFICATION Spec
CONSTANTS
  Files = {f1}
  Socks = {}
  Aops = {a1, a2}
  Ops = {d1, d2, d3}
  Fds = {1, 2}
  Workers = {w1, w2}
  NULL = NULL
  QUIT = QUIT
  AllowAsyncClose = TRUE
  AllowBusyClose = TRUE
SYMMETRY Symm
INVARIANTS OpCountExact BlockOutlivesOps OneWorkerPerHandle QuitIsLast
PROPERTIES DetachedIsSilent ImplementsAsyncIO
