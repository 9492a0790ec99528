CONSTANTS
  NoUser = NoUser
  Users = {a, m1, m2}
  Mentors = {m1, m2}
  Admins = {a}
  Rooms = {r1}
  Threads = {t1}
  MaxRequests = 5
  Crashes = FALSE
SPECIFICATION Spec
SYMMETRY SymMentors
INVARIANTS
  OneMentor
CHECK_DEADLOCK FALSE
