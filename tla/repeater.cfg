SPECIFICATION RepeaterSpec
CONSTANTS
  Dhsm = d0
  Dhsms = {d0}
  ChannelIds = {0, 1, 2}
  Channels = {0, 1, 2}
  MaxRings = 8
  PoolSize = 3
INVARIANTS LostAtMostOne RoutesFollowScript
PROPERTY EveryChannelTurns
CHECK_DEADLOCK FALSE
