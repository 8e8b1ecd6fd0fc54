CONSTANTS
  A = A
  B = B
  C = C
  n = n
  y = y
  Sym <- MCSym
  Val = {n, y}
  Programs <- MCPrograms
  MaxWanted = 2
  MaxDiagnoses = 2
SPECIFICATION Spec
INVARIANTS
  CanceledOnRequest
  FixApplies
PROPERTIES
  InterruptedNotProposed
  PromptReturns
