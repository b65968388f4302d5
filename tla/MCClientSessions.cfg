SPECIFICATION Spec
CONSTANTS
  Requests = {r1, r2}
  Events = {e1, e2}
  MaxSends = 2
  MaxBatch = 2
  None = None
SYMMETRY Symmetry
INVARIANTS
  EventsAreKeptOnce
  OutcomeIsKept
  OnlyFinalSpeechIsHandled
