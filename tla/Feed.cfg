CONSTANTS
  c1 = c1
  c2 = c2
  r1 = r1
  r2 = r2
  bad = bad
  n1 = n1
  n2 = n2
  Users = {c1, c2}
  Names = {n1, n2}
  LongNames = {}
  Rooms = {r1}
  BadRooms = {}
  Ops = {"chat"}
  PipeCap = 2
  SendCap = 4
  BuffCap = 1
  MsgQueueLen = 1
  MaxOffline = 2
  MaxChat = 3
  Shutdown = FALSE
  Foreign = {}
  NoUser = NoUser
  NoName = NoName
  NoRoom = NoRoom
SPECIFICATION FeedSpec
INVARIANT FedExactly
SYMMETRY Symmetry
CHECK_DEADLOCK FALSE
