CONSTANTS
  BufLen = 2
  KernelLen = 1
  MaxPacket = 1
  MaxBytes = 2
  Origins = {"SSTATE_ESTABLISH"}
SPECIFICATION FairSpec
PROPERTY Sent
CHECK_DEADLOCK FALSE
