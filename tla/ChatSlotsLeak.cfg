CONSTANTS
  Requests = {r1, r2}
  InitialEntries = 1
  MaxEntries = 1
  Ids = {1, 2}
  Limits = {1}
  MaxAttempts = 1
  MaxOutside = 0
  DbFaults = FALSE
  None = None
SPECIFICATION Spec
INVARIANT AnsweredHoldsNoSlot
CHECK_DEADLOCK FALSE
