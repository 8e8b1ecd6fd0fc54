SPECIFICATION Spec
CONSTANTS
  Fexprs <- MCFexprs
  MaxSteps = 2
INVARIANTS
  Equivalent
  ClausesEquivalent
