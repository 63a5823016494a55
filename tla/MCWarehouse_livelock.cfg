CONSTANTS
  number_of_robots = 3
  TaskSets <- Oscillating
  TIMEOUT = 100
  STEP_RANGE = 2
  Late = {}
  LastLate = {}
  MaxHoldups = 0
SPECIFICATION FairSpec
PROPERTY Termination
