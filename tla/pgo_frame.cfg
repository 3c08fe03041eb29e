SPECIFICATION Spec
CONSTANTS
  Robot <- Pair
  Closure <- PairClosure
  InRange <- PairRange
  MaxStarts <- PairOneRound
  MaxKeyframe = 0
  MaxRestarts = 0
  MayThrow = FALSE
INVARIANT FrameAsLabelled
CHECK_DEADLOCK FALSE
