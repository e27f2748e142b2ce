SPECIFICATION Spec
CONSTANTS
  NULL = NULL
  NTests = 1
  TFs <- PlainTF
  ExitValues = {0}
  RaisedSignals = {}
  Locs = {"L1"}
  Forking = FALSE
  Interrupts = {}
  MaxMsgs = 1
PROPERTY
  EveryTestEnds
CHECK_DEADLOCK FALSE
