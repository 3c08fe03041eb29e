SPECIFICATION FairSpec
CONSTANTS
  Robot = {r1, r2}
  Producer = {r1, r2}
  MaxKeyframes = 4
  ChunkSize = 2
  MaxQueue = 3
  MaxOutages = 0
  Monitoring = TRUE
  TimePasses = FALSE
INVARIANTS TypeOK NoInfoLost
PROPERTIES
  ImplementsGossip
  EventuallyLearned
  BufferDrained
CHECK_DEADLOCK FALSE
