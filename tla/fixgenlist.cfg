CONSTANTS
  Soft = {a, b, c}
  MaxDiagnoses = 2
SPECIFICATION Spec
PROPERTIES
  ImplementsFixGen
  Terminates
