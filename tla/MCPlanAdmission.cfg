SPECIFICATION Spec
CONSTANTS
  Ids = {a, b, c}
  Dotted = {c}
  NoStep = NoStep
  MaxSteps = 3
SYMMETRY Symmetry
INVARIANTS
  SearchIsExact
  CheckersAgree
