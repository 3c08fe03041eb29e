SPECIFICATION Spec
CONSTANTS
  a = a
  b = b
  c = c
  NoPoint = NoPoint
  Point <- Points
  Cell <- Boxes
  Rank <- Distance
  Searcher = {"s1", "s2"}
  Target = "root"
  MaxCalls = 3
  MaxRebuilds = 1
INVARIANTS UpdatesKept

CHECK_DEADLOCK FALSE
