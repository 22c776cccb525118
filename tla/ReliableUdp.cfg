CONSTANTS
  nodeA = nodeA
  nodeB = nodeB
  Node = {nodeA, nodeB}
  W = 2
  SeqMod = 6
  MaxData <- Four_Zero
  NetCap <- Two_One
  Beats = {nodeB}
  Lifetime = 1
  AckTimeoutRetry = 2
  MaxLeaks <- Zero_One
  Failures = {}
SPECIFICATION Spec
INVARIANTS TypeOK InOrderOnce WindowsAgree BuffersConserved
CHECK_DEADLOCK FALSE
