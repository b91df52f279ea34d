SPECIFICATION FairSpec
CONSTANTS
  MaxObservations = 5
  MaxSessions = 1
  MaxTimestep = 4
  MaxSteps = 4
  Horizon = 3
  Threshold = 67
  ObservationPeriod = 2
  RequestTimeout = 2
  TickLengths = {1, 2}
  CanFail = TRUE
  None = None
CHECK_DEADLOCK FALSE
INVARIANTS HeldNeverFiltered NoReadAfterClose HoldBounded
PROPERTIES SourceNeverOlder HardwareGetsClosed
