SPECIFICATION FairSpec
CONSTANTS
  a = a
  b = b
  c = c
  NoPoint = NoPoint
  Point <- Points
  Cell <- Boxes
  Rank <- Distance
  Searcher = {"s1", "s2"}
  Target = "child"
  MaxCalls = 3
  MaxRebuilds = 2
INVARIANTS TypeOK SearchExclusion NoWalkOfDeleted UpdatesKept
PROPERTY WaitsEnd
CHECK_DEADLOCK FALSE
