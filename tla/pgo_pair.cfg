SPECIFICATION Spec
CONSTANTS
  Robot <- Pair
  Closure <- PairClosure
  InRange <- PairRange
  MaxStarts <- PairRounds12
  MaxKeyframe = 0
  MaxRestarts = 1
  MayThrow = TRUE
INVARIANTS
  TypeOK
  TimeoutArmed
  LowestRobotLeads
  FirstKeyframeKept
  CollectionComplete
  SharedWithConcerned
  OnlyConnectedIncluded
CHECK_DEADLOCK FALSE
