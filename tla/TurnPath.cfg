SPECIFICATION MCSpec
CONSTANTS
  MaxTurns = 2
  StardateLast = TRUE
  Focused = {s1, s2, s3, s4}
  None = None
INVARIANTS
  BothTypeOK
  PassedIsRestored
  PassedMeansItHappened
  AggregateIsEvidence
PROPERTIES
  AlwaysResumed
  Terminates
