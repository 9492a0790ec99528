CONSTANTS
  NoUser = NoUser
  Users = {u, a}
  Mentors = {}
  Admins = {a}
  Rooms = {r1}
  Threads = {t1, t2}
  MaxRequests = 4
  Crashes = FALSE
SPECIFICATION FairSpec
PROPERTIES
  HandlersFinish
  MenteeLeaveAnnounced
CHECK_DEADLOCK FALSE
