SPECIFICATION FairSpec
CONSTANTS
  Rover = {rover_0}
  Axis = {lin}
  MaxSpeed = 1
  MaxPresses = 2
  Depth = 2
  Speed <- Forward
  MaxStops = 3
  MaxCommands = 1
INVARIANTS TypeOK LeftAtZero
PROPERTIES
  AutonomyFlows
  StopsInTheEnd
CHECK_DEADLOCK FALSE
