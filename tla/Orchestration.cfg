CONSTANTS
  Restores = FALSE
  MaxVersion = 2
  MaxAttempts = 2
SPECIFICATION FairSpec
INVARIANTS
  TypeOK
  ProvenanceIsTruthful
  TimeoutKillsTheGroup
PROPERTIES
  RecordsAreBoundToTheirRun
  Returns
