CONSTANTS
  number_of_robots = 2
  TaskSets <- Pairs
  TIMEOUT = 2
  STEP_RANGE = 2
  Late = {"start", "report", "block"}
  LastLate = {"block"}
  MaxHoldups = 1
SPECIFICATION FairSpec
INVARIANTS TypeOK NoCollision CommandsCarriedOut ReportsCurrent
PROPERTIES ActsAsFleet Termination
