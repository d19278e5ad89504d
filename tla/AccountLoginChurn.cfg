CONSTANTS
  MaxId = 1
  Names = {n1, n2}
  MaxObjects = 2
  Threads = {t1, t2}
  AdminKinds = {"delete", "add"}
  MaxAdminOps = 2
  MaxRestarts = 0
  AutoDisable = TRUE
  None = None
SPECIFICATION FairSpec
PROPERTIES ForeignOnlyByReplacement EveryLoginEnds
CHECK_DEADLOCK FALSE
