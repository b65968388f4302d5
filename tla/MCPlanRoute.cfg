SPECIFICATION Spec
CONSTANTS
  PlanIds = {p1, p2}
  WorkflowIds = {w1, w2}
  MaxCandidates = 2
  MaxAttempts = 2
  Requests = 3
  None = None
SYMMETRY Symmetry
INVARIANTS
  RunIsCleared
  ChoiceIsForced
  ReplannerBounded
