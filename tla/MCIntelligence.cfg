SPECIFICATION Spec
CONSTANTS
  MaxCalls = 2
  MaxCandidates = 2
  NumSteps = 2
  AnyValidator = TRUE
INVARIANTS
  TypeOK
  CommandsAreConsistent
  OneLateCommand
  NothingIsLost
  DeliveryIsVisible
  StatusIsEarned
