CONSTANTS
  BufLen = 3
  KernelLen = 2
  MaxPacket = 4
  MaxBytes = 6
  Origins = {"SSTATE_CONNECT", "SSTATE_ESTABLISH"}
SPECIFICATION FairSpec
INVARIANTS TypeOK NothingLost Registered
PROPERTIES SentUnlessCrossed NoSpin SendReturns
CHECK_DEADLOCK FALSE
