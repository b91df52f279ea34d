SPECIFICATION FairSpec
CONSTANTS
  MaxCalls = 5
CHECK_DEADLOCK FALSE
PROPERTIES LastCommandWins HomeBeforeMotion ResetHappens ControllerEnds
