SPECIFICATION FairSpec
CONSTANTS
  Lcores = {w1, w2}
  Bufs = {b1, b2, b3, b4}
  None = None
  RingCap = 3
  BurstSize = 1
  PackNum = 2
  CacheSlack = 0
  MaxPacket = 3
  MaxLost = 0
INVARIANTS TypeInv OwnedOnce LeakAtMostOneBurst PanicOnlyWhenBacklogged
PROPERTY WorkedOff
CHECK_DEADLOCK FALSE
