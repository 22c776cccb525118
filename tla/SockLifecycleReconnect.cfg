SPECIFICATION Spec
CONSTANTS
  Sock = {s1}
  NoSock = NoSock
  MaxLinks = 1
  MaxFds = 2
  MaxRecv = 0
  MaxQueue = 3
  Reconnects = {1}
  Failures = {"connect"}
INVARIANT ReleasedInUse
CHECK_DEADLOCK FALSE
