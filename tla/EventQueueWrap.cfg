CONSTANTS
  Size = 3
  IoThreads = {io1, io2}
  Main = main
  MaxEvents = 6
  TwoStores = TRUE
SPECIFICATION Spec
INVARIANT PopsInOrder
CHECK_DEADLOCK FALSE
