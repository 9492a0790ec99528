CONSTANTS
  NoUser = NoUser
  Users = {a, m1, m2}
  Mentors = {m1, m2}
  Admins = {a}
  Rooms = {r1}
  Threads = {t1}
  MaxRequests = 5
  Crashes = TRUE
SPECIFICATION Spec
SYMMETRY SymMentors
PROPERTIES
  LifecycleSpec
CHECK_DEADLOCK FALSE
