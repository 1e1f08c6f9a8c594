CONSTANTS
  a = a
  b = b
  p = p
  q = q
  s1 = s1
  s2 = s2
  Ids = {a, b}
  Paths = {p, q}
  Saves = {s1, s2}
  Observed = {s1}
  Produced = {s1}
  Undeclared = Undeclared
  MaxRuns = 2
SYMMETRY InterchangeableNames
SPECIFICATION Spec
CHECK_DEADLOCK FALSE
INVARIANT
  FailureKeepsDeclaration
