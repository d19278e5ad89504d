CONSTANTS
  Requests = {r1, r2}
  InitialEntries = 1
  MaxEntries = 2
  Ids = {1, 2}
  Limits = {1}
  MaxAttempts = 2
  MaxOutside = 1
  DbFaults = TRUE
  None = None
SPECIFICATION FairSpec
PROPERTIES EveryRequestAnswered RunningWorkReturnsSlot
CHECK_DEADLOCK FALSE
