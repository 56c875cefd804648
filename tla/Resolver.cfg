SPECIFICATION FairSpec
CONSTANTS
  q1 = q1
  q2 = q2
  h1 = h1
  h2 = h2
  p = p
  o = o
  Queries = {q1, q2}
  Hosts = {h1, h2}
  Assists = {p, o}
  Parser = p
  NULL = NULL
  Watched = {q1}
  SpuriousBeforeInit = FALSE
INVARIANTS
  ResolverInv
  MainWakes
PROPERTIES
  Answered
  UninitEnds
