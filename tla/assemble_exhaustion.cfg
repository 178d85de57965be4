SPECIFICATION Spec
CONSTANTS
  Frames = {f1}
  None = None
  PackNum = 2
  NumFrameSeq = 2
  MaxPacket = 4
  MaxLost = 0
  MaxDup = 0
SYMMETRY Symmetry
INVARIANT ExhaustionPanics
CHECK_DEADLOCK FALSE
