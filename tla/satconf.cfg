SPECIFICATION Spec
CONSTANTS
  Type <- MCType
  Kconfigs <- MCKconfigs
  Number <- MCNumber
  Ints = {1, 2, 3}
  MaxWanted = 2
  None = None
INVARIANTS
  ConfigurationIsModel
  FixRealizable
  SolutionForConflict
