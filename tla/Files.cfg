SPECIFICATION MCSpec
CONSTANTS
  None = None
  Versions = {v1, v2}
  Wanted = v1
  Torn = Torn
  MaxEdits = 3
  Invocations = {p1}
  Last = 2
  Sources = 2
  MaxStarts = 4
  Files = {a, b}
  MaxFailures = 6
INVARIANTS
  TypeOK
  EvidenceHolds
  FetchedIsPinned
PROPERTIES
  KeepsWhatIsThere
  Recovers
CHECK_DEADLOCK FALSE
