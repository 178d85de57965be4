SPECIFICATION Spec
CONSTANTS
  Frames = {f1, f2}
  None = None
  PackNum = 2
  NumFrameSeq = 4
  MaxPacket = 9
  MaxLost = 2
  MaxDup = 1
SYMMETRY Symmetry
CONSTRAINT UntilDry
INVARIANTS FramesSound IndexConsistent FramesWhole FaultOnlyWhenTroubled
PROPERTY PipeSpec
CHECK_DEADLOCK FALSE
