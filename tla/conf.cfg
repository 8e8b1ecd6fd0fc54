SPECIFICATION Spec
CONSTANTS
  Type <- MCType
  Kconfigs <- MCKconfigs
  Number <- MCNumber
  ChoiceSyms = {"CH"}
  Modules = "MODULES"
  Ints = {1, 2, 3}
  Modes = {"oldaskconfig", "oldconfig", "listnewconfig", "allyesconfig", "allmodconfig",
           "allnoconfig", "alldefconfig", "randconfig", "yes2modconfig"}
  None = None
INVARIANTS
  CyclesFound
  NothingHidden
  AllAnswered
  AllconfigRespected
PROPERTIES
  KeepsAnswers
  Terminates
