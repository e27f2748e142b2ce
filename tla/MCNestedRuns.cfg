SPECIFICATION Spec
CONSTANTS
  Modes = {"CK_FORK", "CK_NOFORK"}
  Tests = 2
  MaxRuns = 3
  MaxFiles = 8
  TmpFile = {"unlinked", "named", "failed"}
INVARIANTS
  PipesFollowRuns
  
  JumpsHome
  RunsLeaveNothing
PROPERTY
  AllEnds
CHECK_DEADLOCK FALSE
