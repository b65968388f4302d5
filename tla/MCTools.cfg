SPECIFICATION Spec
CONSTANTS
  ToolIds = {t1, t2}
  Capabilities = {k1, k2}
  Contributions = {c1, c2}
  MaxTools = 2
  MaxValidating = 2
SYMMETRY Symmetry
INVARIANTS
  StatesAreEarned
  RegistrationIsSound
PROPERTIES
  FinalStates
