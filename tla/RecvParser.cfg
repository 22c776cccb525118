SPECIFICATION ParserFairSpec
CONSTANTS
  TotalLen = 5
  MaxBytes = 12
  Role = "recv"
  HeaderLen = 2
  MaxMsgs = 3
  MaxPacket = 4
INVARIANTS ParserView MessagesWhole CaughtUp
PROPERTIES RingSpec EveryMessageRun
CHECK_DEADLOCK FALSE
