SPECIFICATION Spec
CONSTANTS
  Ids = {a, b}
  Dotted = {b}
  NoStep = NoStep
  MaxSteps = 2
INVARIANTS
  MadeReferencesAreAccepted
