CONSTANTS
  M = M
  A = A
  B = B
  S = S
  None = None
  Sym <- MCSym
  Kconfigs <- MCKconfigs
SPECIFICATION Spec
INVARIANTS
  CacheCoherent
  ChoiceCoherent
  SetSticks
  RoundTrip
