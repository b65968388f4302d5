SPECIFICATION ConfigurationSpec
CONSTANTS
  Callers = {u1, u2}
  Keys = {k1, k2}
  Values = {v}
  MaxCommits = 3
  NoValue = NoValue
SYMMETRY Symmetry
INVARIANTS
  VisibleIsValidated
PROPERTIES
  UpdatesCompose
