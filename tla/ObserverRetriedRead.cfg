CONSTANTS
  p1 = p1
  p2 = p2
  p3 = p3
  wA = wA
  wB = wB
  Null = Null
  Absent = Absent
  Labels <- TwoLabels
  StepIds = {1, 2, 3, 4, 5, 6, 7, 8, 9}
  Pointers = {p1, p2}
  Mapped <- TwoPointers
  Contents = {wA, wB}
  Populations <- InPlace
  WitnessOf <- TwoWitnesses
  Scripts <- AllScripts
  HelpersMayDetach = FALSE
  MaxAttempts = 2
  PerStep = 1
  Total = 2

SPECIFICATION Spec
PROPERTY FailedReadTerminates
