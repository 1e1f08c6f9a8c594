CONSTANTS
  p1 = p1
  p2 = p2
  p3 = p3
  wA = wA
  wB = wB
  Null = Null
  Absent = Absent
  Labels <- TwoLabels
  StepIds = {1, 2, 3, 4, 5, 6, 7, 8, 9}
  Pointers = {p1, p2, p3}
  Mapped <- TwoPointers
  Contents = {wA, wB}
  Populations <- KeptOrSwapped
  WitnessOf <- TwoWitnesses
  Scripts <- PlansAndOneRefused
  HelpersMayDetach = FALSE
  MaxAttempts = 2
  PerStep = 1
  Total = 1
SYMMETRY PointerSymmetry
SPECIFICATION PipelineSpec
INVARIANTS
  TypeOK
  PendingFlagAgrees
  TranscriptIsTruthful
  RecordIsHonest
PROPERTY TranscriptIsAppendOnly
