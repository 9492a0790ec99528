CONSTANTS
  None = None
  Users = {u1, u2}
  Threads = {t1, t2}
  GLOBAL_RPM = 2
  GLOBAL_RPD = 3
  GLOBAL_TPM = 3
  USER_RPM = 1
  USER_RPD = 2
  Minute = 2
  Day = 3
  Sizes = {2}
  MaxTime = 4
SPECIFICATION Spec
SYMMETRY Sym
INVARIANTS
  TypeOK
  WithinMinute
  WithinDay
  RefusedForCause
CHECK_DEADLOCK FALSE
