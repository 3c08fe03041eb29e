SPECIFICATION Spec
CONSTANTS
  Robot = {r1, r2, r3}
  Producer = {r1}
  MaxKeyframes = 3
  ChunkSize = 2
  MaxQueue = 3
  MaxOutages = 2
  Monitoring = TRUE
  TimePasses = TRUE
INVARIANTS
  UnsentIsBuffered
  NeverLearnedTwice
SYMMETRY Symmetry
CHECK_DEADLOCK FALSE
