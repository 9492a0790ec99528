CONSTANTS
  NoUser = NoUser
  Mentors = {m1, m2}
  Admins = {a1, a2}
  Requests = {r1}
  Texts = {x, y}
  Threads = {t1, t2, t3}
  MaxCalls = 4
SPECIFICATION Spec
SYMMETRY Sym
INVARIANTS
  TypeOK
  ReviewerIffReviewed
  DecidedAsSeen
PROPERTIES
  ApprovalSettles
CHECK_DEADLOCK FALSE
