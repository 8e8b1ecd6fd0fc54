CONSTANTS
  Soft = {a, b, c, d}
  MaxDiagnoses = 3
SYMMETRY Symmetry
SPECIFICATION Spec
INVARIANTS
  TypeOK
  Antichain
  DiagnosesMinimal
  NothingLost
  ExhaustiveWhenNormal
