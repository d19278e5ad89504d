CONSTANTS
  Requests = {s1, s2, p1}
  Streams = {s1, s2}
  Accounts = {a1, a2}
  MaxKey = 2
  MaxRow = 3
  MaxAdminOps = 3
  MaxCrashes = 1
  Nobody = Nobody
  NoRow = NoRow
SPECIFICATION Spec
SYMMETRY Symmetry
INVARIANTS TypeOK PagesCount StartedIsRunning OnlyOrphansIntrude
CHECK_DEADLOCK FALSE
