CONSTANTS
  c1 = c1
  c2 = c2
  r1 = r1
  r2 = r2
  bad = bad
  n1 = n1
  n2 = n2
  Users = {c1, c2}
  Names = {n1}
  LongNames = {}
  Rooms = {r1}
  BadRooms = {}
  Ops = {"leave"}
  PipeCap = 1
  SendCap = 3
  BuffCap = 0
  MsgQueueLen = 1
  MaxOffline = 1
  MaxChat = 0
  Shutdown = FALSE
  Foreign = {}
  NoUser = NoUser
  NoName = NoName
  NoRoom = NoRoom
SPECIFICATION Spec
INVARIANT SettledIsMember
CHECK_DEADLOCK FALSE
