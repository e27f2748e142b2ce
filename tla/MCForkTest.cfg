SPECIFICATION Spec
CONSTANTS
  NULL = NULL
  NTests = 2
  TFs <- AllTFs
  ExitValues = {0, 255}
  RaisedSignals = {"SIGSEGV", "SIGINT"}
  Locs = {"L1", "L2"}
  Forking = FALSE
  Interrupts = {}
  MaxMsgs = 4
INVARIANTS
  TimeoutIsError
  PassIsEarned
  
  FailureLocated
PROPERTIES
  TimeoutEndsTest
CHECK_DEADLOCK FALSE
