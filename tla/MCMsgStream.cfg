SPECIFICATION StreamSpec
CONSTANTS
  SendMax = 4
  RecvMax = 2
  MsgSizes <- MCMsgSizes
  MaxMsgs = 5
INVARIANTS
  WholeMessagesOnly
  EveryMessageReceived
PROPERTY
  ReadingEnds
CHECK_DEADLOCK FALSE
