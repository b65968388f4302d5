SPECIFICATION Spec
CONSTANTS
  NumSteps = 4
  LazyScheduler = FALSE
INVARIANTS
  TypeOK
  DependencyOrder
  OutcomesAreEarned
  OneLateStart
  CancelledForCause
  AnswerIsExact
  NeverStuck
PROPERTIES
  RunAtMostOnce
  ResultsFinal
  ImplementsPlanExecution
