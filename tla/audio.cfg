CONSTANTS
  Buffers = {1, 2}
  SlackChunks = 1
  RingChunks = 2
  Worlds <- Five
SPECIFICATION FairSpec
INVARIANTS TypeOK NoSilentJoin
PROPERTIES InOrder RouteReleased
CHECK_DEADLOCK FALSE
