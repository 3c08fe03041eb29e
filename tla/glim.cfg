SPECIFICATION FairSpec
CONSTANTS
  MaxScans = 3
  MaxStamp = 2
  max_num_keyframes = 2
INVARIANTS TypeOK EveryScanOnce MapComplete
PROPERTIES NothingDropped ImplementsMapStream WaitReturns
CHECK_DEADLOCK FALSE
