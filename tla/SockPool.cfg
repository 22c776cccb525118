CONSTANTS
  Threads = {t1, t2, t3}
  InitCount = 1
  GrowCount = 2
  MaxCount = 3
  MaxFetch = 6
SPECIFICATION Spec
INVARIANTS PoolConserved EmptyOnlyIfStolen IdsUnique
CHECK_DEADLOCK FALSE
