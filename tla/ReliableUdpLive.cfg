CONSTANTS
  nodeA = nodeA
  nodeB = nodeB
  Node = {nodeA, nodeB}
  W = 2
  SeqMod = 6
  MaxData <- Two_Zero
  NetCap <- One_One
  Beats = {nodeB}
  Lifetime = 1
  AckTimeoutRetry = 2
  MaxLeaks <- Zero_Zero
  Failures = {"send", "recv", "overflow"}
SPECIFICATION FairSpec
PROPERTIES Delivery HalfOpenEnds
CHECK_DEADLOCK FALSE
