CONSTANTS
  number_of_robots = 2
  TaskSets <- Pairs
  TIMEOUT = 100
  STEP_RANGE = 2
  Late <- ControlPoints
  LastLate <- ControlPoints
  MaxHoldups = 1
SPECIFICATION Spec
INVARIANT HandledAtBarrier
