CONSTANTS
  MaxSeq = 2
  Worlds <- Four
  Packets = 1
  StaleAfter = 0
  MicPrime = 1
  MicMax = 1
SPECIFICATION FairSpec
INVARIANTS TypeOK IsoRealtime SessionsApart FeatureOwnAnswer
PROPERTIES StopEnds Answered
CHECK_DEADLOCK FALSE
