SPECIFICATION FairSpec
CONSTANTS
  Connections = {c1, c2, c3}
  None = None
CHECK_DEADLOCK FALSE
INVARIANTS OwnedUntilIdle
PROPERTIES CallsEnd OwnershipReturns
