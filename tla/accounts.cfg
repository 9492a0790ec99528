CONSTANTS
  None = None
  p1 = p1
  s1 = s1
  k1 = k1
  Phones = {p1}
  Socials = {s1}
  Passwords = {k1, k2}
  Levels = {l1}
  Clients = {c1}
  Threads = {t1, t2}
  Registrations <- MCRegistrations
  MaxAccounts = 2
SPECIFICATION FairSpec
INVARIANTS
  TypeOK
PROPERTIES
  UserIdSettles
  AccountSettles
  SessionSettles
  WithdrawnLockedOut
  
CHECK_DEADLOCK FALSE
