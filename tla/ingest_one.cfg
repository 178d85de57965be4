SPECIFICATION Spec
CONSTANTS
  Lcores = {w1}
  Bufs = {b1, b2, b3, b4}
  None = None
  RingCap = 3
  BurstSize = 2
  PackNum = 3
  CacheSlack = 0
  MaxPacket = 9
  MaxLost = 2
SYMMETRY Symmetry
INVARIANTS MisCountsGaps CleanMeansAligned
PROPERTY FifoSpec
CHECK_DEADLOCK FALSE
