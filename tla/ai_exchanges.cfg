CONSTANTS
  Rooms = {r1}
  Threads = {t1, t2, t3}
  MAX_CONCURRENT_REQUESTS = 1
  MaxCalls = 4
  Crashes = TRUE
SPECIFICATION ReplyFair
INVARIANTS
  TypeOK
  PermitsAccounted
  ExchangeTogether
  NoOrphanMessage
  ReadUpToSeen
PROPERTIES
  HandlersFinish
  ConversationSpec
CHECK_DEADLOCK FALSE
