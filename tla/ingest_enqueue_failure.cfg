SPECIFICATION Spec
CONSTANTS
  Lcores = {w1}
  Bufs = {b1, b2, b3}
  None = None
  RingCap = 2
  BurstSize = 1
  PackNum = 2
  CacheSlack = 0
  MaxPacket = 5
  MaxLost = 0
SYMMETRY Symmetry
INVARIANT EnqueueFailurePanics
CHECK_DEADLOCK FALSE
