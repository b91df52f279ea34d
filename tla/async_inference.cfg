SPECIFICATION FairSpec
CONSTANTS
  ChunkSize = 3
  Threshold = 50
  MaxStep = 3
  MaxFaults = 1
  None = None
CHECK_DEADLOCK FALSE
INVARIANTS MustGoComesBack NoStepBack
PROPERTIES RobotKeepsGoing
