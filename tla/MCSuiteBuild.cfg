CONSTANTS
  Suites = {s1, s2}
  TCases = {t1, t2}
  Runners = {r1}
  Timeouts <- MCTimeouts
  TagStrings <- MCTagStrings
  ExitValues <- MCExitValues
  Defaults = {20}
  Multipliers <- MCMultipliers
  MaxCalls = 3
SPECIFICATION Spec
SYMMETRY Symmetry
INVARIANTS FreedExactlyOnce FixturesNest 
CHECK_DEADLOCK FALSE
