SPECIFICATION FairSpec
CONSTANTS
  NumSteps = 3
  LazyScheduler = TRUE
PROPERTIES
  Terminates
