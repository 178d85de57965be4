SPECIFICATION FairSpec
CONSTANTS
  Frames = {f1, f2}
  None = None
  PackNum = 2
  NumFrameSeq = 3
  MaxPacket = 5
  MaxLost = 1
  MaxDup = 0
PROPERTY AllReturn
CHECK_DEADLOCK FALSE
