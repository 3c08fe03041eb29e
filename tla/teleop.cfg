SPECIFICATION TeleopFairSpec
CONSTANTS
  Rover = {rover_0, rover_1}
  Axis = {lin}
  MaxSpeed = 5
  MaxPresses = 4
PROPERTIES
  FeasibleBelowCeiling
  ComesToRest
CHECK_DEADLOCK FALSE
