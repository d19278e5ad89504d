CONSTANTS
  DbFaults = TRUE
  DeleteFlags = {TRUE, FALSE}
SPECIFICATION FairSpec
INVARIANTS TypeOK ReleasedOnce OkHasEvidence UndisturbedRow
PROPERTIES RemoveOnlyComplete UsageSettles OutputLostOnlyAtSend
CHECK_DEADLOCK FALSE
