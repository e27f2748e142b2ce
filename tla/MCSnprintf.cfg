SPECIFICATION Spec
CONSTANTS
  NULL = NULL
  UINTMAX_MAX = 32767
  MAX_PRECISION = 4
  thousands_sep <- MCSep
  decimal_point = "."
  Values <- MCValues
  Calls <- MCCalls
  MaxMem = 64
  CharSigned = TRUE
  Codes <- MCCodes
INVARIANTS
  InBuffer
  FormatFollowed
  
  
PROPERTY
  StrdupReturnsAll
CHECK_DEADLOCK FALSE
