SPECIFICATION FairSpec
CONSTANTS
  Sock = {s1}
  NoSock = NoSock
  MaxLinks = 2
  MaxFds = 2
  MaxRecv = 1
  MaxQueue = 2
  Reconnects = {2}
  Failures = {"connect", "recv", "socket", "add"}
INVARIANTS SessionProtocol DeathIsOwn OneDeath DescriptorsOwned AnnouncedAtRest MessagesKept
PROPERTY ClosingEnds
CHECK_DEADLOCK FALSE
