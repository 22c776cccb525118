CONSTANTS
  Size = 3
  IoThreads = {io1, io2}
  Main = main
  MaxEvents = 6
  TwoStores = TRUE
  Sockets = {s1}
  NoSock = NoSock
SPECIFICATION CloseFairSpec
INVARIANTS TypeOK OrderUnlessRaced
PROPERTIES FifoUnlessRaced EventsHandled ThreadsGetThrough
CHECK_DEADLOCK FALSE
