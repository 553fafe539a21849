CONSTANTS
  c1 = c1
  c2 = c2
  r1 = r1
  r2 = r2
  bad = bad
  n1 = n1
  n2 = n2
  Users = {c1}
  Names = {n1, n2}
  LongNames = {n1}
  Rooms = {r1, r2}
  BadRooms = {}
  Ops = {"chat", "leave", "popular", "stats"}
  PipeCap = 1
  SendCap = 2
  BuffCap = 1
  MsgQueueLen = 1
  MaxOffline = 1
  MaxChat = 3
  Shutdown = TRUE
  Foreign = {c1}
  NoUser = NoUser
  NoName = NoName
  NoRoom = NoRoom
SPECIFICATION ShutdownSpec
PROPERTY ShutdownCompletes
CHECK_DEADLOCK FALSE
