SPECIFICATION MCSpec
CONSTANTS
  Off = Off
  Records = {p, q}
  Planet = p
  NoRecord = NoRecord
  MaxBlips = 3
  Window = 6
  Horizon = 6
  Interval = 1
  MinSamples = 3
  MaxGap = 2
  MinDelta = 1
  Offsets = {1, 3, 4, 5, 7, 8}
  Expected = 21
  Length = 5
  Margin = 1
  Start = 1
  Size = 2
  Guard = 1
  MaxSamples = 2
  MaxRuntime = 3
  MaxLength = 3
  Timeout = 2
  Codes = {"zero", "one"}
INVARIANTS
  TypeOK
  PassedRe4IsThePlanet
  ObserversMissNothing
  RunsPassAsAsked
PROPERTIES
  UiRunEnds
CHECK_DEADLOCK FALSE
