CONSTANTS
  NoUser = NoUser
  Mentors = {m1, m2}
  Admins = {a1, a2}
  Requests = {r1}
  Texts = {x, y}
  Threads = {t1}
  MaxCalls = 5
SPECIFICATION Spec
SYMMETRY Sym
PROPERTIES
  ReviewSpec
CHECK_DEADLOCK FALSE
