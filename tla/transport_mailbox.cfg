SPECIFICATION FairSpec
CONSTANTS
  MaxObservations = 2
  MaxSessions = 2
  Payloads = {0}
  Malformed = {}
  Epsilon = 1
  PolicyOutcomes = {"ok", "raise"}
  RepeatTimesteps = FALSE
  CanClose = FALSE
  CanDrop = TRUE
  None = None
CHECK_DEADLOCK FALSE
PROPERTIES ImplementsMailbox ImplementsLedger NewestIsAnswered ResetReturns SessionEnds
