SPECIFICATION Spec
CONSTANTS
  EnableOutcomes = {"ok", "refused", "lost"}
  MaxRuns = 1
CHECK_DEADLOCK FALSE
INVARIANT FailClosed
