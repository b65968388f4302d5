SPECIFICATION Spec
CONSTANTS
  NumSteps = 3
  LazyScheduler = FALSE
INVARIANTS
  FailureBecomesResult
