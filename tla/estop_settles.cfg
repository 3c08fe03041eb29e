SPECIFICATION FairSpec
CONSTANTS
  Depth = 3
  MaxKeys = 2
  MaxExternal = 2
INVARIANT TypeOK
PROPERTIES
  SettledHolds
  ConsumerFollows
CHECK_DEADLOCK FALSE
