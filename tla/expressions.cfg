SPECIFICATION Spec
CONSTANTS
  Type <- MCType
  nb_vals <- MCnb_vals
  Number <- MCNumber
  Leaves <- MCLeaves
  Small <- MCSmall
  Few <- MCFew
  Values <- MCValues
  MaxSteps = 2
INVARIANTS
  RewritingKeepsValue
  EqIsSound
  FormulaMeansValue
CHECK_DEADLOCK FALSE
