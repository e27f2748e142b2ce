SPECIFICATION Spec
CONSTANTS
  NULL = NULL
  Byte = 4
  SizeTWide = TRUE
  t1 = t1
  t2 = t2
  Threads = {t1, t2}
  Forked = forked
  Msgs <- MCMsgs
  Cancelled = {t2}
  BufSize = 13
  MaxSends <- MCMaxSends
  Limits = {0, 14}
  DEFAULT_MAX_MSG_SIZE = 14
  WriteFails = TRUE
INVARIANTS
  MutexHeld
  WholeMessages
  SentInOrder
PROPERTY
  SendsEnd
CHECK_DEADLOCK FALSE
