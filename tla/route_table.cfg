SPECIFICATION Spec
CONSTANTS
  Dhsms = {d1, d2, d3}
  ChannelIds = {0, 1, 16}
  Channels = {0, 1}
  MaxRings = 4
INVARIANTS RingsSound RingsMatchRequests
PROPERTY SubsSpec
