CONSTANTS
  Requests = {r1, r2}
  InitialEntries = 1
  MaxEntries = 2
  Ids = {1, 2}
  Limits = {1, 2}
  MaxAttempts = 2
  MaxOutside = 3
  DbFaults = TRUE
  None = None
SPECIFICATION Spec
SYMMETRY Symmetry
INVARIANTS TypeOK SlotConservation NoHoldAndWait
PROPERTIES ImplementsLedger LeaksOnlyUnstarted
CHECK_DEADLOCK FALSE
