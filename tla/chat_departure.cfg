CONSTANTS
  NoUser = NoUser
  Users = {a, m1, m2}
  Mentors = {m1, m2}
  Admins = {a}
  Rooms = {r1}
  Threads = {t1, t2}
  MaxRequests = 5
  Crashes = FALSE
SPECIFICATION Spec
SYMMETRY Sym
INVARIANTS
  DepartureKept
CHECK_DEADLOCK FALSE
