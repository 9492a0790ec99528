CONSTANTS
  NoUser = NoUser
  Users = {u, a}
  Mentors = {}
  Admins = {a}
  Rooms = {r1}
  Threads = {t1, t2}
  MaxRequests = 5
  Crashes = TRUE
SPECIFICATION Spec
SYMMETRY Sym
INVARIANTS
  TypeOK
  BroadcastPersisted
  MenteeNoticeCommitted
PROPERTIES
  TopicSpec
CHECK_DEADLOCK FALSE
