SPECIFICATION FairSpec
CONSTANTS
  MaxCalls = 2
CHECK_DEADLOCK FALSE
PROPERTIES AcceptedStartRuns
