CONSTANTS
  M = M
  A = A
  B = B
  S = S
  None = None
  Sym <- MCSym
  Kconfigs <- MCKconfigs
  Values <- MCValues
  Loaded = TRUE
  MaxFix = 3
SPECIFICATION Spec
INVARIANTS
  SolutionFits
  SolutionHolds
  OthersKept
PROPERTIES
  Terminates
