SPECIFICATION FairSpec
CONSTANTS
  MaxObservations = 2
  MaxSessions = 1
  Payloads = {0}
  Malformed = {}
  Epsilon = 1
  PolicyOutcomes = {"ok"}
  RepeatTimesteps = FALSE
  CanClose = TRUE
  CanDrop = FALSE
  None = None
CHECK_DEADLOCK FALSE
PROPERTY CloseReturns
