CONSTANTS
  MaxId = 2
  Names = {n1, n2}
  MaxObjects = 2
  Threads = {t1, t2}
  AdminKinds = {"toggle", "add"}
  MaxAdminOps = 2
  MaxRestarts = 1
  AutoDisable = TRUE
  None = None
SPECIFICATION Spec
SYMMETRY Symmetry
INVARIANTS TypeOK LoginMutex NoRepeatedLogin PasswordsKept ClientIsOwn
CHECK_DEADLOCK FALSE
