SPECIFICATION FairSpec
CONSTANTS
  Threads = {t1, t2, t3}
  Nodes = {n1, n2}
  None = None
INVARIANTS ListSound NextStable
PROPERTIES PoolSpec LockFree
CHECK_DEADLOCK FALSE
