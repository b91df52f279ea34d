SPECIFICATION Spec
CONSTANTS
  MaxObservations = 2
  MaxSessions = 2
  Payloads = {0, 1, 2}
  Malformed = {2}
  Epsilon = 1
  PolicyOutcomes = {"ok", "raise"}
  RepeatTimesteps = TRUE
  CanClose = TRUE
  CanDrop = TRUE
  None = None
CHECK_DEADLOCK FALSE
INVARIANTS AckThenOneTerminal SimilarHasBasis OutgoingStaysShort ResetIsBarrier PolicyCallsSerial
