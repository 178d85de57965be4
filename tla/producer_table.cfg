SPECIFICATION FairSpec
CONSTANTS
  t1 = t1
  t2 = t2
  t3 = t3
  k1 = k1
  k2 = k2
  c1 = c1
  c2 = c2
  Threads = {t1, t2, t3}
  Tokens = {k1, k2}
  Consumers = {c1, c2}
  ScoreLimit = 1
  Quota = 1
  Wants = {1, 2}
  InitialOffsets = {1}
  MaxProducers = 3
  Casts <- Few
  InitialSize = 2
  Capacities = {2, 4, 8}
INVARIANTS TablesSound OneProducer Exclusive ListSound
PROPERTIES MissesOnlyLost CallsEnd
CHECK_DEADLOCK FALSE
