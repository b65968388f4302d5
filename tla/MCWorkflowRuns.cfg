SPECIFICATION Spec
CONSTANTS
  Jobs = {j1, j2}
  NumSteps = 3
  MaxRequests = 2
INVARIANTS
  TypeOK
  JobStatusIsEarned
  WorkIsReported
  FailureExplainsRun
