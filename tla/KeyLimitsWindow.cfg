CONSTANTS
  Requests = {s1, p1, p2}
  Streams = {s1}
  PerMinute = 2
  PerDay = 2
  Quotas = {0, 1}
  MaxAttempts = 2
  Window = 1
  DayLength = 3
  MonthDays = 2
  MaxTime = 3
  MaxAdminOps = 1
  MaxRestarts = 1
  DbFaults = TRUE
  Never = Never
SPECIFICATION Spec
SYMMETRY Symmetry
INVARIANTS TypeOK MinuteWindow QuotaOverrun
PROPERTY ImplementsLedger
CHECK_DEADLOCK FALSE
