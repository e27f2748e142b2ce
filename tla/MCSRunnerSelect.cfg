SPECIFICATION Spec
CONSTANTS
  NULL = NULL
  Program <- MCProgram
  Settings = {"CK_FORK"}
  EnvFork = "no"
  Selections <- MCSelections
  MayFail = {"usetup"}
  MayCrash = {}
  MaxRuns = 2
INVARIANTS
  StatsMatchResults
PROPERTIES
  ResultsFollowPlan
CHECK_DEADLOCK FALSE
