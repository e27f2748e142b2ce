SPECIFICATION Spec
CONSTANTS
  NULL = NULL
  Program <- MCProgram
  Settings = {"CK_NOFORK"}
  EnvFork = NULL
  Selections <- MCAll
  MayFail = {"usetup", "csetup", "test", "cteardown", "uteardown"}
  MayCrash = {"csetup", "test"}
  MaxRuns = 1
INVARIANTS
  FailureAttributed
  FixtureDiscipline
  FailuresContained
CHECK_DEADLOCK FALSE
