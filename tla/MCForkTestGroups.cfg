SPECIFICATION Spec
CONSTANTS
  NULL = NULL
  NTests = 2
  TFs <- PlainTF
  ExitValues = {0}
  RaisedSignals = {"SIGTERM"}
  Locs = {"L1"}
  Forking = TRUE
  Interrupts = {"SIGINT", "SIGTERM"}
  MaxMsgs = 3
INVARIANTS
  GroupKilled
  OwnMessages
  ForkedFailureReported
  RunnerStopsOnlyIf
PROPERTIES
  InterruptEndsTest
CHECK_DEADLOCK FALSE
