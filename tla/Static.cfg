CONSTANTS
  Labels = {"A", "B"}
  StepIds = {4, 10}
  Absent = "absent"
  MaxEdits = 2
  RecordEdits = 2
  WindowSamples = 3
  RoleEdits = 3
  DiffFunctions = 6
  Saves = {"s1", "s2"}
  TrueProperties <- ShownProperties
  HarnessFiles = {"runner", "memory"}
SPECIFICATION MCSpec
INVARIANTS
  ScriptsArePlans
  PositiveFailsClosed
  FollowupVerdictsHold
  RolesRestOnRuns
  ImagesAreTheFile
  CodeIsComparedHonestly
CHECK_DEADLOCK FALSE
