SPECIFICATION FairSpec
CONSTANTS
  Robot <- Pair
  Closure <- PairClosure
  InRange <- PairRange
  MaxStarts <- PairOneRound
  MaxKeyframe = 0
  MaxRestarts = 0
  MayThrow = FALSE
PROPERTY ReturnsToIdle
CHECK_DEADLOCK FALSE
