SPECIFICATION Spec
CONSTANTS
  Horizon = 3
  MaxSteps = 7
  Threshold = 50
  Period = 2
  RequestTimeout = 4
  WorkTimes = {0, 1}
  None = None
CHECK_DEADLOCK FALSE
INVARIANTS SingleFlight PrefetchTimesOut
