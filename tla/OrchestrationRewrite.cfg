CONSTANTS
  Restores = FALSE
  MaxVersion = 2
  MaxAttempts = 1
SPECIFICATION Spec
INVARIANT
  SuccessMeansBoundInputs
