------------------------------ MODULE ChatServer ------------------------------
(***************************************************************************)
(* The chat server: the room manager and its rooms (internal/logic), the   *)
(* server handlers that call it (internal/handler/server.go), and the      *)
(* conversation of the clients that drive the handlers                     *)
(* (internal/handler/client.go).                                           *)
(*                                                                         *)
(* The processes are the goroutines of the program:                        *)
(*   - per connection, the handle loop, which runs one CM handler at a     *)
(*     time (hpc), and the goroutine that wins TCPConn.Close and runs      *)
(*     OnClose, hence Logout (closer);                                     *)
(*   - per room, the goroutine of Room.Start (room, job);                  *)
(*   - main, which on a signal closes the rooms one by one (main, mroom).  *)
(* enteringChannel, leavingChannel and closeChan have no buffer: a send    *)
(* and its receive are one step.  A handler or a closer blocked in such a  *)
(* send is one whose pc is "entering" or "leaving".                        *)
(*                                                                         *)
(* A connection is a member of Users: it connects once, and its first-in   *)
(* first-out streams are recvChan (requests on their way to the handle     *)
(* loop), sendChan (packetSendChan: replies and chat history) and buffChan *)
(* (the number of broadcast buffers waiting).  Module TCPConn has the      *)
(* loops inside a connection.                                              *)
(***************************************************************************)
EXTENDS Naturals, Sequences, FiniteSets

CONSTANTS
  Users,        \* connections, each with its server side *User
  Names,        \* nicknames a client can ask for
  LongNames,    \* names whose notices and chats exceed the 65535 byte frame
  Rooms,        \* identifiers of the rooms CreateRoom made
  BadRooms,     \* room identifiers a client can ask for that do not exist
  Ops,          \* what a user types: subset of chat, leave, popular, stats
  PipeCap,      \* requests between a client and its handle loop
  SendCap,      \* capacity of packetSendChan
  BuffCap,      \* capacity of buffSendChan
  MsgQueueLen,  \* capacity of a room's messageChannel
  MaxOffline,   \* chats kept for those who enter later (MAX_OFFLINE_MSG)
  MaxChat,      \* bound of the model: chats typed, and all that Foreign clients send
  Shutdown,     \* whether main receives its signal
  Foreign,      \* connections of clients other than the console client
  NoUser, NoName, NoRoom   \* no entry, the empty nickname, room id 0

ASSUME NamesAssumption ==
  /\ LongNames \subseteq Names
  /\ NoName \notin Names
  /\ IsFiniteSet(Names)
ASSUME RoomsAssumption ==
  /\ NoRoom \notin Rooms \cup BadRooms
  /\ Rooms \cap BadRooms = {}
ASSUME UsersAssumption == NoUser \notin Users /\ Foreign \subseteq Users
ASSUME BoundsAssumption ==
  /\ PipeCap \in Nat \ {0} /\ SendCap \in Nat \ {0} /\ BuffCap \in Nat
  /\ MsgQueueLen \in Nat \ {0} /\ MaxOffline \in Nat \ {0} /\ MaxChat \in Nat
  /\ Ops \subseteq {"chat", "leave", "popular", "stats"}
  /\ Shutdown \in BOOLEAN

Keys    == Names \cup {NoName}       \* keys of the two user maps
RoomIds == Rooms \cup BadRooms       \* the console never sends room id 0
Chats   == [by : Keys, id : 1 .. MaxChat]
NoChat  == [by |-> NoName, id |-> 0]

\* The messages a client sends, as far as the handlers look into them.
LoginMsg(n)   == [op |-> "login", name |-> n]
EnterMsg(r)   == [op |-> "enter", room |-> r]
LeaveMsg      == [op |-> "leave"]
ChatMsg(i)    == [op |-> "chat", id |-> i]
PopularMsg(r) == [op |-> "popular", room |-> r]
StatsMsg      == [op |-> "stats"]
NoMsg         == [op |-> "none"]

Msgs == { LoginMsg(n) : n \in Keys } \cup { EnterMsg(r) : r \in RoomIds }
          \cup { ChatMsg(i) : i \in 1 .. MaxChat }
          \cup { PopularMsg(r) : r \in RoomIds } \cup { LeaveMsg, StatsMsg }

Replies == { "LOGIN_OK", "NICK_NAME_EXIST", "ENTER_OK", "INVALID_ROOM_ID",
             "LEAVE_OK", "NOT_IN_ROOM", "popular", "stats", "history" }

VARIABLES
  main,            \* the main goroutine: "serve", "closing", "exited"
  mroom,           \* the room main is blocked closing
  room,            \* pc of each room goroutine
  job,             \* the user or chat the room goroutine has received
  usersMap,        \* per room: nickname -> member
  offlineMsg,      \* per room: the ring of the last chats, from its current element
  messageChannel,  \* per room: chats waiting to be broadcast
  allUsersMap,     \* nickname -> the user that logged in under it
  nick, roomId,    \* User.Nickname and User.RoomId
  hpc, hreq,       \* pc of the handle loop, and the message it handles
  closer, croom,   \* pc of OnClose, and the room id it read
  recvChan, sendChan, buffChan,
  client,          \* what the client is doing
  lastId           \* identifier of the last chat typed, or message of a Foreign client

mainVars  == <<main, mroom>>
roomVars  == <<room, job, usersMap, offlineMsg>>
userVars  == <<nick, roomId>>
hVars     == <<hpc, hreq>>
closeVars == <<closer, croom>>
outVars   == <<sendChan, buffChan>>
cliVars   == <<client, lastId>>
vars == <<mainVars, roomVars, messageChannel, allUsersMap, userVars, hVars,
          closeVars, recvChan, outVars, cliVars>>

TypeOK ==
  /\ main \in {"serve", "closing", "exited"}
  /\ mroom \in Rooms \cup {NoRoom}
  /\ room \in [Rooms -> {"select", "enter", "leave", "record", "closed", "dead"}]
  /\ job \in [Rooms -> Users \cup Chats \cup {NoUser}]
  /\ usersMap \in [Rooms -> [Keys -> Users \cup {NoUser}]]
  /\ offlineMsg \in [Rooms -> [1 .. MaxOffline -> Chats \cup {NoChat}]]
  /\ messageChannel \in [Rooms -> Seq(Chats)]
  /\ allUsersMap \in [Keys -> Users \cup {NoUser}]
  /\ nick \in [Users -> Keys]
  /\ roomId \in [Users -> Rooms \cup {NoRoom}]
  /\ hpc \in [Users -> {"idle", "named", "entering", "entered", "leaving",
                        "left", "sending", "popular", "done"}]
  /\ hreq \in [Users -> Msgs \cup {NoMsg}]
  /\ closer \in [Users -> {"open", "logout", "leaving", "delete", "done"}]
  /\ croom \in [Users -> Rooms \cup {NoRoom}]
  /\ recvChan \in [Users -> Seq(Msgs)]
  /\ sendChan \in [Users -> Seq(Replies)]
  /\ buffChan \in [Users -> 0 .. BuffCap]
  /\ client \in [Users -> {"off", "loginWait", "enterWait", "typing", "leaveWait",
                         "foreign"}]
  /\ lastId \in 0 .. MaxChat

Init ==
  /\ main = "serve" /\ mroom = NoRoom
  /\ room = [r \in Rooms |-> "select"]
  /\ job = [r \in Rooms |-> NoUser]
  /\ usersMap = [r \in Rooms |-> [n \in Keys |-> NoUser]]
  /\ offlineMsg = [r \in Rooms |-> [i \in 1 .. MaxOffline |-> NoChat]]
  /\ messageChannel = [r \in Rooms |-> <<>>]
  /\ allUsersMap = [n \in Keys |-> NoUser]
  /\ nick = [c \in Users |-> NoName]
  /\ roomId = [c \in Users |-> NoRoom]
  /\ hpc = [c \in Users |-> "idle"]
  /\ hreq = [c \in Users |-> NoMsg]
  /\ closer = [c \in Users |-> "open"]
  /\ croom = [c \in Users |-> NoRoom]
  /\ recvChan = [c \in Users |-> <<>>]
  /\ sendChan = [c \in Users |-> <<>>]
  /\ buffChan = [c \in Users |-> 0]
  /\ client = [c \in Users |-> "off"]
  /\ lastId = 0

Closed(c) == closer[c] # "open"            \* TCPConn.IsClosed
Member(c, r) == \E n \in Keys : usersMap[r][n] = c

-----------------------------------------------------------------------------
(* Sending to a connection never blocks: a closed connection and a full    *)
(* channel lose the message.                                               *)

\* User.AsyncSendMessage of one message.
Reply(c, m) ==
  sendChan' = [sendChan EXCEPT ![c] =
                 IF Closed(c) \/ Len(@) >= SendCap THEN @ ELSE Append(@, m)]

\* Slip of Save: the ring does not advance, as without its Next().
SaveInPlace(o, m) == [o EXCEPT ![MaxOffline] = m]

\* OfflineMsg.Save writes the current element of the ring and moves on to the
\* next, which then comes first.
Save(o, m) == [i \in 1 .. MaxOffline |-> IF i = MaxOffline THEN m ELSE o[i + 1]]

\* The elements Send visits, from the current one on, that hold a chat.
Stored(o) == { i \in 1 .. MaxOffline : o[i] # NoChat }

\* How many of k history packets packetSendChan still takes.
HistoryTaken(c, k) ==
  IF Closed(c) \/ Len(sendChan[c]) >= SendCap THEN 0
  ELSE IF Len(sendChan[c]) + k <= SendCap THEN k ELSE SendCap - Len(sendChan[c])

\* OfflineMsg.Send: one packet for each chat stored.
SendHistory(c, o) ==
  sendChan' = [sendChan EXCEPT ![c] =
    @ \o [i \in 1 .. HistoryTaken(c, Cardinality(Stored(o))) |-> "history"]]

\* Room.broadsend: one buffer per entry of the map members whose user does
\* not have the nickname except.  How many of them user c receives:
Copies(members, c, except) ==
  IF nick[c] = except \/ Closed(c) THEN 0
  ELSE Cardinality({ n \in Keys : members[n] = c })

\* Slip of Broadsend: the channel grows when it is full.
BroadsendUnbounded(members, except) ==
  buffChan' = [c \in Users |-> buffChan[c] + Copies(members, c, except)]

Broadsend(members, except) ==
  buffChan' = [c \in Users |->
                 IF buffChan[c] + Copies(members, c, except) <= BuffCap
                 THEN buffChan[c] + Copies(members, c, except) ELSE BuffCap]

-----------------------------------------------------------------------------
(* The clients.  The console client has at most one of login, enter and leave under *)
(* way; what it types in a room it sends without waiting.                  *)

\* User.AsyncSendMessage on the client's side: lost when the pipe is full.
ClientSend(c, m) ==
  recvChan' = [recvChan EXCEPT ![c] =
                 IF Len(@) >= PipeCap THEN @ ELSE Append(@, m)]

\* ClientHandle.OnConnect and, on the server, Serve, newConn and
\* ServerHandle.OnConnect: a new user without name or room.
Connect(c, n) ==
  /\ client[c] = "off" /\ ~Closed(c)
  /\ IF c \in Foreign
     THEN /\ client' = [client EXCEPT ![c] = "foreign"]
          /\ UNCHANGED recvChan
     ELSE /\ client' = [client EXCEPT ![c] = "loginWait"]
          /\ ClientSend(c, LoginMsg(n))
  /\ UNCHANGED <<mainVars, roomVars, messageChannel, allUsersMap, userVars,
                 hVars, closeVars, outVars, lastId>>

\* The client takes reply m: the server's writeLoop, the client's readLoop
\* and handle loop.
TakeReply(c, m) ==
  /\ ~Closed(c) /\ sendChan[c] # <<>> /\ Head(sendChan[c]) = m
  /\ sendChan' = [sendChan EXCEPT ![c] = Tail(@)]
  /\ UNCHANGED <<mainVars, roomVars, messageChannel, allUsersMap, userVars,
                 hVars, closeVars, buffChan, lastId>>

\* After LOGIN_OK the user picks a room.
SMRespLogin(c) ==
  /\ c \notin Foreign /\ TakeReply(c, "LOGIN_OK")
  /\ client' = [client EXCEPT ![c] = "enterWait"]
  /\ \E r \in RoomIds : ClientSend(c, EnterMsg(r))

\* After NICK_NAME_EXIST the user picks another name.
SMRespLoginAgain(c) ==
  /\ c \notin Foreign /\ TakeReply(c, "NICK_NAME_EXIST")
  /\ \E n \in Names : ClientSend(c, LoginMsg(n))
  /\ UNCHANGED client

SMRespEnter(c) ==
  /\ c \notin Foreign /\ TakeReply(c, "ENTER_OK")
  /\ client' = [client EXCEPT ![c] = "typing"]
  /\ UNCHANGED recvChan

SMRespEnterAgain(c) ==
  /\ c \notin Foreign /\ TakeReply(c, "INVALID_ROOM_ID")
  /\ \E r \in RoomIds : ClientSend(c, EnterMsg(r))
  /\ UNCHANGED client

\* Only LEAVE_OK asks for the next room: NOT_IN_ROOM is not answered.
SMRespLeave(c) ==
  /\ c \notin Foreign /\ TakeReply(c, "LEAVE_OK")
  /\ client' = [client EXCEPT ![c] = "enterWait"]
  /\ \E r \in RoomIds : ClientSend(c, EnterMsg(r))

\* SMChatContent (history), SMPopularWord, SMUserStats: printed.  Another
\* client takes every answer and stays as it is.
SMDisplay(c) ==
  /\ \E m \in IF c \in Foreign THEN Replies
              ELSE {"history", "popular", "stats", "NOT_IN_ROOM"} : TakeReply(c, m)
  /\ UNCHANGED <<client, recvChan>>

Commands(c) ==
  (IF "chat" \in Ops /\ lastId < MaxChat THEN { ChatMsg(lastId + 1) } ELSE {})
    \cup (IF "leave" \in Ops THEN { LeaveMsg } ELSE {})
    \cup (IF "stats" \in Ops THEN { StatsMsg } ELSE {})
    \cup (IF "popular" \in Ops THEN { PopularMsg(r) : r \in RoomIds } ELSE {})

\* procEnterText reads a line.  After /leave it stops reading, whether the
\* request went out or was lost.
Type(c) ==
  /\ client[c] = "typing" /\ ~Closed(c)
  /\ \E m \in Commands(c) :
       /\ ClientSend(c, m)
       /\ client' = [client EXCEPT ![c] = IF m = LeaveMsg THEN "leaveWait" ELSE @]
       /\ lastId' = IF m.op = "chat" THEN m.id ELSE lastId
  /\ UNCHANGED <<mainVars, roomVars, messageChannel, allUsersMap, userVars,
                 hVars, closeVars, outVars>>

\* Another client sends any registered message at any time, a login under
\* the empty nickname too; MaxChat bounds how many.
ClientAny(c) ==
  /\ client[c] = "foreign" /\ ~Closed(c) /\ Len(recvChan[c]) < PipeCap
  /\ lastId < MaxChat
  /\ \E m \in Commands(c) \cup { LoginMsg(n) : n \in Keys }
                          \cup { EnterMsg(r) : r \in RoomIds } :
       ClientSend(c, m)
  /\ lastId' = lastId + 1
  /\ UNCHANGED <<mainVars, roomVars, messageChannel, allUsersMap, userVars,
                 hVars, closeVars, outVars, client>>

\* writeLoop takes a broadcast buffer and writes it to the connection.
WriteBuff(c) ==
  /\ ~Closed(c) /\ buffChan[c] > 0
  /\ buffChan' = [buffChan EXCEPT ![c] = @ - 1]
  /\ UNCHANGED <<mainVars, roomVars, messageChannel, allUsersMap, userVars,
                 hVars, closeVars, recvChan, sendChan, cliVars>>

-----------------------------------------------------------------------------
(* The handle loop of connection c.                                        *)

\* handleLoop takes the next message and routes it to the handler of op.
Handle(c, op) ==
  /\ hpc[c] = "idle" /\ recvChan[c] # <<>> /\ Head(recvChan[c]).op = op
  /\ recvChan' = [recvChan EXCEPT ![c] = Tail(@)]
  /\ UNCHANGED <<mainVars, roomVars, userVars, closeVars, buffChan, cliVars,
                 messageChannel>>

\* A handler that stays in pc p with its message, and one that returns.
Goto(c, p, m) == /\ hpc'  = [hpc EXCEPT ![c] = p]
                 /\ hreq' = [hreq EXCEPT ![c] = m]
Return(c) == Goto(c, "idle", NoMsg)

\* Slip of CMLogin: Store in place of LoadOrStore.
CMLoginStore(c) ==
  /\ Handle(c, "login")
  /\ allUsersMap' = [allUsersMap EXCEPT ![Head(recvChan[c]).name] = c]
  /\ Goto(c, "named", Head(recvChan[c]))
  /\ UNCHANGED sendChan

\* CMLogin, RoomManager.Login: LoadOrStore of the nickname.
CMLogin(c) ==
  /\ Handle(c, "login")
  /\ LET m == Head(recvChan[c]) IN
     IF allUsersMap[m.name] = NoUser
     THEN /\ allUsersMap' = [allUsersMap EXCEPT ![m.name] = c]
          /\ Goto(c, "named", m)
          /\ UNCHANGED sendChan
     ELSE /\ Reply(c, "NICK_NAME_EXIST")
          /\ UNCHANGED <<allUsersMap, hVars>>

CMLoginStored(c) ==
  /\ hpc[c] = "named"
  /\ nick' = [nick EXCEPT ![c] = hreq[c].name]
  /\ Reply(c, "LOGIN_OK")
  /\ Return(c)
  /\ UNCHANGED <<mainVars, roomVars, messageChannel, allUsersMap, roomId,
                 closeVars, recvChan, buffChan, cliVars>>

\* Slip of CMEnter: no answer when there is no such room.
CMEnterSilent(c) ==
  /\ Handle(c, "enter")
  /\ IF Head(recvChan[c]).room \in Rooms
     THEN Goto(c, "entering", Head(recvChan[c]))
     ELSE UNCHANGED hVars
  /\ UNCHANGED <<allUsersMap, sendChan>>

\* CMEnter, RoomManager.EnterRoom: send to enteringChannel (see RoomEntering).
CMEnter(c) ==
  /\ Handle(c, "enter")
  /\ IF Head(recvChan[c]).room \in Rooms
     THEN /\ Goto(c, "entering", Head(recvChan[c]))
          /\ UNCHANGED sendChan
     ELSE /\ Reply(c, "INVALID_ROOM_ID")
          /\ UNCHANGED hVars
  /\ UNCHANGED allUsersMap

\* Slips of CMEntered: the room id is not stored; no answer is sent.
CMEnteredNoRoomId(c) ==
  /\ hpc[c] = "entered"
  /\ Reply(c, "ENTER_OK")
  /\ Return(c)
  /\ UNCHANGED <<mainVars, roomVars, messageChannel, allUsersMap, userVars,
                 closeVars, recvChan, buffChan, cliVars>>
CMEnteredSilent(c) ==
  /\ hpc[c] = "entered"
  /\ roomId' = [roomId EXCEPT ![c] = hreq[c].room]
  /\ Return(c)
  /\ UNCHANGED <<mainVars, roomVars, messageChannel, allUsersMap, nick,
                 closeVars, recvChan, outVars, cliVars>>

CMEntered(c) ==
  /\ hpc[c] = "entered"
  /\ roomId' = [roomId EXCEPT ![c] = hreq[c].room]
  /\ Reply(c, "ENTER_OK")
  /\ Return(c)
  /\ UNCHANGED <<mainVars, roomVars, messageChannel, allUsersMap, nick,
                 closeVars, recvChan, buffChan, cliVars>>

\* Slip of CMLeave: the room is not told.
CMLeaveUnsent(c) ==
  /\ Handle(c, "leave")
  /\ IF roomId[c] # NoRoom
     THEN Goto(c, "left", LeaveMsg) /\ UNCHANGED sendChan
     ELSE Reply(c, "NOT_IN_ROOM") /\ UNCHANGED hVars
  /\ UNCHANGED allUsersMap

\* CMLeave, RoomManager.LeaveRoom: send to leavingChannel (see RoomLeaving).
CMLeave(c) ==
  /\ Handle(c, "leave")
  /\ IF roomId[c] # NoRoom
     THEN /\ Goto(c, "leaving", LeaveMsg)
          /\ UNCHANGED sendChan
     ELSE /\ Reply(c, "NOT_IN_ROOM")
          /\ UNCHANGED hVars
  /\ UNCHANGED allUsersMap

CMLeft(c) ==
  /\ hpc[c] = "left"
  /\ roomId' = [roomId EXCEPT ![c] = NoRoom]
  /\ Reply(c, "LEAVE_OK")
  /\ Return(c)
  /\ UNCHANGED <<mainVars, roomVars, messageChannel, allUsersMap, nick,
                 closeVars, recvChan, buffChan, cliVars>>

\* RoomManager.ChatInRoom finds the user's room: RoomId is that of a room or 0.
ChatInRoom(c) == roomId[c] # NoRoom

\* CMChat, ChatInRoom, Room.Broadcast: a chat outside a room, and one whose
\* frame cannot be built, is dropped without a reply.
CMChat(c) ==
  /\ Handle(c, "chat")
  /\ IF ChatInRoom(c) /\ nick[c] \notin LongNames
     THEN Goto(c, "sending", Head(recvChan[c]))
     ELSE UNCHANGED hVars
  /\ UNCHANGED <<allUsersMap, sendChan>>

\* Slip of CMChatSend: one place of the channel is never used.
CMChatSendEarly(c) ==
  /\ hpc[c] = "sending" /\ Len(messageChannel[roomId[c]]) + 1 < MsgQueueLen
  /\ messageChannel' = [messageChannel EXCEPT ![roomId[c]] =
                          Append(@, [by |-> nick[c], id |-> hreq[c].id])]
  /\ Return(c)
  /\ UNCHANGED <<mainVars, roomVars, allUsersMap, userVars, closeVars,
                 recvChan, outVars, cliVars>>

\* The send to messageChannel blocks while the channel is full.
CMChatSend(c) ==
  /\ hpc[c] = "sending" /\ Len(messageChannel[roomId[c]]) < MsgQueueLen
  /\ messageChannel' = [messageChannel EXCEPT ![roomId[c]] =
                          Append(@, [by |-> nick[c], id |-> hreq[c].id])]
  /\ Return(c)
  /\ UNCHANGED <<mainVars, roomVars, allUsersMap, userVars, closeVars,
                 recvChan, outVars, cliVars>>

\* CMCommandGM POPULAR of a room runs GetTopWord in this goroutine: pc
\* "popular" lasts as long as that call.
CMCommandPopular(c) ==
  /\ Handle(c, "popular")
  /\ IF Head(recvChan[c]).room \in Rooms
     THEN /\ Goto(c, "popular", Head(recvChan[c]))
          /\ UNCHANGED sendChan
     ELSE /\ Reply(c, "popular")
          /\ UNCHANGED hVars
  /\ UNCHANGED allUsersMap

CMCommandPopularEnd(c) ==
  /\ hpc[c] = "popular"
  /\ Reply(c, "popular")
  /\ Return(c)
  /\ UNCHANGED <<mainVars, roomVars, messageChannel, allUsersMap, userVars,
                 closeVars, recvChan, buffChan, cliVars>>

\* CMCommandGM STATS, GetUserStats: reads, then replies.
CMCommandStats(c) ==
  /\ Handle(c, "stats")
  /\ Reply(c, "stats")
  /\ UNCHANGED <<allUsersMap, hVars>>

\* handleLoop of a closed connection returns between two messages: it may
\* have handled any number of those that were waiting.
HandlerExit(c) ==
  /\ hpc[c] = "idle" /\ Closed(c)
  /\ hpc' = [hpc EXCEPT ![c] = "done"]
  /\ recvChan' = [recvChan EXCEPT ![c] = <<>>]
  /\ UNCHANGED <<mainVars, roomVars, messageChannel, allUsersMap, userVars,
                 hreq, closeVars, outVars, cliVars>>

-----------------------------------------------------------------------------
(* The goroutine that closes connection c, beside its handle loop.         *)

\* The first of readLoop and writeLoop that fails closes the connection:
\* what waits to be sent is lost.
Disconnect(c) ==
  /\ client[c] # "off" /\ ~Closed(c)
  /\ closer' = [closer EXCEPT ![c] = "logout"]
  /\ sendChan' = [sendChan EXCEPT ![c] = <<>>]
  /\ buffChan' = [buffChan EXCEPT ![c] = 0]
  /\ UNCHANGED <<mainVars, roomVars, messageChannel, allUsersMap, userVars,
                 hVars, croom, recvChan, cliVars>>

\* Slips of Logout: the nickname is deleted before the user leaves its room;
\* the room is not told.
LogoutDeleteFirst(c) ==
  /\ closer[c] = "logout"
  /\ croom' = [croom EXCEPT ![c] = roomId[c]]
  /\ closer' = [closer EXCEPT ![c] = IF roomId[c] = NoRoom THEN "done" ELSE "leaving"]
  /\ allUsersMap' = [allUsersMap EXCEPT ![nick[c]] = NoUser]
  /\ UNCHANGED <<mainVars, roomVars, messageChannel, userVars, hVars,
                 recvChan, outVars, cliVars>>
LogoutUnsent(c) ==
  /\ closer[c] = "logout"
  /\ closer' = [closer EXCEPT ![c] = IF roomId[c] = NoRoom THEN "done" ELSE "delete"]
  /\ UNCHANGED <<mainVars, roomVars, messageChannel, allUsersMap, userVars,
                 hVars, croom, recvChan, outVars, cliVars>>

\* Logout calls LeaveRoom, which reads RoomId: without a room nothing more
\* happens, with one the user leaves it (see RoomLeaving).
Logout(c) ==
  /\ closer[c] = "logout"
  /\ croom' = [croom EXCEPT ![c] = roomId[c]]
  /\ closer' = [closer EXCEPT ![c] = IF roomId[c] = NoRoom THEN "done" ELSE "leaving"]
  /\ UNCHANGED <<mainVars, roomVars, messageChannel, allUsersMap, userVars,
                 hVars, recvChan, outVars, cliVars>>

\* LeaveRoom returned true: the nickname is deleted.
LogoutDelete(c) ==
  /\ closer[c] = "delete"
  /\ closer' = [closer EXCEPT ![c] = "done"]
  /\ allUsersMap' = [allUsersMap EXCEPT ![nick[c]] = NoUser]
  /\ UNCHANGED <<mainVars, roomVars, messageChannel, userVars, hVars, croom,
                 recvChan, outVars, cliVars>>

-----------------------------------------------------------------------------
(* The goroutine of room r, Room.Start: a select over the four channels,   *)
(* then the body of the case.                                              *)

Work(r, p, x) == /\ room[r] = "select"
                 /\ room' = [room EXCEPT ![r] = p]
                 /\ job'  = [job EXCEPT ![r] = x]
\* Back to the select, or out of Start when a notice cannot be built.
NextCase(r, ok) == /\ room' = [room EXCEPT ![r] = IF ok THEN "select" ELSE "dead"]
                   /\ job'  = [job EXCEPT ![r] = NoUser]

RoomEntering(r, c) ==
  /\ hpc[c] = "entering" /\ hreq[c].room = r
  /\ Work(r, "enter", c)
  /\ hpc' = [hpc EXCEPT ![c] = "entered"]
  /\ UNCHANGED <<mainVars, usersMap, offlineMsg, messageChannel, allUsersMap,
                 userVars, hreq, closeVars, recvChan, outVars, cliVars>>

\* The map entry, the history, the notice to the others.
RoomEnter(r) ==
  /\ room[r] = "enter"
  /\ LET c == job[r]
         members == [usersMap[r] EXCEPT ![nick[c]] = IF @ = NoUser THEN c ELSE @]
     IN /\ usersMap' = [usersMap EXCEPT ![r] = members]
        /\ SendHistory(c, offlineMsg[r])
        /\ IF nick[c] \notin LongNames
           THEN Broadsend(members, nick[c])
           ELSE UNCHANGED buffChan
        /\ NextCase(r, nick[c] \notin LongNames)
  /\ UNCHANGED <<mainVars, offlineMsg, messageChannel, allUsersMap, userVars,
                 hVars, closeVars, recvChan, cliVars>>

\* A leave comes from the handler or from the closer of the connection.
RoomLeaving(r, c) ==
  /\ Work(r, "leave", c)
  /\ \/ /\ hpc[c] = "leaving" /\ roomId[c] = r
        /\ hpc' = [hpc EXCEPT ![c] = "left"]
        /\ UNCHANGED closer
     \/ /\ closer[c] = "leaving" /\ croom[c] = r
        /\ closer' = [closer EXCEPT ![c] = "delete"]
        /\ UNCHANGED hpc
  /\ UNCHANGED <<mainVars, usersMap, offlineMsg, messageChannel, allUsersMap,
                 userVars, hreq, croom, recvChan, outVars, cliVars>>

\* Slip of RoomLeave: the others are told, the entry stays.
RoomLeaveKeep(r) ==
  /\ room[r] = "leave"
  /\ IF nick[job[r]] \notin LongNames
     THEN Broadsend(usersMap[r], nick[job[r]])
     ELSE UNCHANGED buffChan
  /\ NextCase(r, nick[job[r]] \notin LongNames)
  /\ UNCHANGED <<mainVars, usersMap, offlineMsg, messageChannel, allUsersMap,
                 userVars, hVars, closeVars, recvChan, sendChan, cliVars>>

\* The entry under the nickname is deleted, whoever it is.
RoomLeave(r) ==
  /\ room[r] = "leave"
  /\ LET c == job[r]
         members == [usersMap[r] EXCEPT ![nick[c]] = NoUser]
     IN /\ usersMap' = [usersMap EXCEPT ![r] = members]
        /\ IF nick[c] \notin LongNames
           THEN Broadsend(members, nick[c])
           ELSE UNCHANGED buffChan
        /\ NextCase(r, nick[c] \notin LongNames)
  /\ UNCHANGED <<mainVars, offlineMsg, messageChannel, allUsersMap, userVars,
                 hVars, closeVars, recvChan, sendChan, cliVars>>

\* pc "record" lasts from the receive to the end of the case: Record runs
\* first, then the broadcast.
RoomMessage(r) ==
  /\ messageChannel[r] # <<>>
  /\ Work(r, "record", Head(messageChannel[r]))
  /\ messageChannel' = [messageChannel EXCEPT ![r] = Tail(@)]
  /\ UNCHANGED <<mainVars, usersMap, offlineMsg, allUsersMap, userVars, hVars,
                 closeVars, recvChan, outVars, cliVars>>

RoomBroadcast(r) ==
  /\ room[r] = "record"
  /\ Broadsend(usersMap[r], job[r].by)
  /\ offlineMsg' = [offlineMsg EXCEPT ![r] = Save(@, job[r])]
  /\ NextCase(r, TRUE)
  /\ UNCHANGED <<mainVars, usersMap, messageChannel, allUsersMap, userVars,
                 hVars, closeVars, recvChan, sendChan, cliVars>>

-----------------------------------------------------------------------------
(* The main goroutine: RoomManager.Close closes the rooms in the order of  *)
(* sync.Map.Range, one blocking send each, and then the process exits.     *)

Signal ==
  /\ Shutdown /\ main = "serve"
  /\ main' = "closing"
  /\ UNCHANGED <<mroom, roomVars, messageChannel, allUsersMap, userVars, hVars,
                 closeVars, recvChan, outVars, cliVars>>

\* Slip of CloseRoom: a room may be closed again.
CloseRoomAgain(r) ==
  /\ main = "closing" /\ mroom = NoRoom
  /\ mroom' = r
  /\ UNCHANGED <<main, roomVars, messageChannel, allUsersMap, userVars, hVars,
                 closeVars, recvChan, outVars, cliVars>>

CloseRoom(r) ==
  /\ main = "closing" /\ mroom = NoRoom /\ room[r] # "closed"
  /\ mroom' = r
  /\ UNCHANGED <<main, roomVars, messageChannel, allUsersMap, userVars, hVars,
                 closeVars, recvChan, outVars, cliVars>>

RoomClosed(r) ==
  /\ mroom = r /\ room[r] = "select"
  /\ room' = [room EXCEPT ![r] = "closed"]
  /\ mroom' = NoRoom
  /\ UNCHANGED <<main, job, usersMap, offlineMsg, messageChannel, allUsersMap,
                 userVars, hVars, closeVars, recvChan, outVars, cliVars>>

Exit ==
  /\ main = "closing" /\ mroom = NoRoom /\ \A r \in Rooms : room[r] = "closed"
  /\ main' = "exited"
  /\ UNCHANGED <<mroom, roomVars, messageChannel, allUsersMap, userVars, hVars,
                 closeVars, recvChan, outVars, cliVars>>

-----------------------------------------------------------------------------
\* Steps a scheduled goroutine takes once they are possible.
HandlerStep(c) ==
  \/ CMLogin(c) \/ CMLoginStored(c) \/ CMEnter(c) \/ CMEntered(c)
  \/ CMLeave(c) \/ CMLeft(c) \/ CMChat(c) \/ CMCommandPopular(c)
  \/ CMCommandPopularEnd(c) \/ CMCommandStats(c) \/ HandlerExit(c)
\* A send of the handle loop or of the closer that a room has to take.
BlockedSend(c) ==
  CMChatSend(c) \/ \E r \in Rooms : RoomEntering(r, c) \/ RoomLeaving(r, c)
CloserStep(c) == Logout(c) \/ LogoutDelete(c)
ReplyStep(c) ==
  \/ SMRespLogin(c) \/ SMRespLoginAgain(c) \/ SMRespEnter(c)
  \/ SMRespEnterAgain(c) \/ SMRespLeave(c) \/ SMDisplay(c)
RoomStep(r) == RoomEnter(r) \/ RoomLeave(r) \/ RoomBroadcast(r)
MainStep == (\E r \in Rooms : CloseRoom(r)) \/ Exit

\* What the world outside decides.
Environment(c) ==
  \/ \E n \in Names : Connect(c, n)
  \/ Type(c) \/ ClientAny(c) \/ Disconnect(c)

Running == main # "exited"

Next ==
  \/ /\ Running
     /\ \/ \E c \in Users : \/ Environment(c) \/ ReplyStep(c) \/ WriteBuff(c)
                            \/ HandlerStep(c) \/ BlockedSend(c) \/ CloserStep(c)
        \/ \E r \in Rooms : RoomStep(r) \/ RoomMessage(r) \/ RoomClosed(r)
        \/ MainStep \/ Signal
  \/ /\ ~Running                  \* the process is gone
     /\ UNCHANGED vars

Spec == Init /\ [][Next]_vars

(* Fairness.  A runnable goroutine is eventually scheduled (weak fairness  *)
(* of steps that stay possible).  A goroutine blocked in a channel send is *)
(* served in turn: Go queues the blocked senders of a channel first-in     *)
(* first-out and picks uniformly among the ready cases of a select, so a   *)
(* send that can be taken again and again is taken (strong fairness).      *)
(* The handle loop and the closer of one connection share their conjuncts, *)
(* which assumes less.  Nothing is assumed of writeLoop's buffers and of   *)
(* main; nothing makes a client connect, type or disconnect.               *)
Fairness ==
  /\ \A c \in Users : /\ WF_vars(Running /\ (HandlerStep(c) \/ CloserStep(c)))
                      /\ WF_vars(Running /\ ReplyStep(c))
                      /\ SF_vars(Running /\ BlockedSend(c))
  /\ \A r \in Rooms : /\ WF_vars(Running /\ RoomStep(r))
                      /\ SF_vars(Running /\ RoomMessage(r))

FairSpec == Spec /\ Fairness

\* What the shutdown needs: main and the rooms, nothing of clients, handlers
\* and closers.
ShutdownSpec ==
  /\ Spec
  /\ \A r \in Rooms : WF_vars(Running /\ RoomStep(r)) /\ SF_vars(Running /\ RoomClosed(r))
  /\ WF_vars(Running /\ MainStep)

-----------------------------------------------------------------------------
(* Correctness properties.                                                 *)

\* c is in room r, or will be when the room goroutine ends its case.
In(c, r) ==
  \/ Member(c, r) /\ ~(room[r] = "leave" /\ job[r] = c)
  \/ room[r] = "enter" /\ job[r] = c

\* A connected user that got a nickname is the one registered under it, so
\* no two connected users have the same one ("the nickname must be unique",
\* room.go:42), whatever requests the clients send and however logins and
\* logouts of the same name overlap.
NickUnique ==
  \A c \in Users : ~Closed(c) /\ nick[c] # NoName => allUsersMap[nick[c]] = c

\* A user of the console client is in at most one room, although a room
\* learns of a leave before it has dropped the user and of an enter before
\* the handler has stored the room id (server.go:64-65, 77-78).
OneRoom ==
  \A c \in Users \ Foreign, r, s \in Rooms : In(c, r) /\ In(c, s) => r = s

\* Between two requests, the room id kept for a connected user of the console
\* client names every room that counts it as a member: no broadcast of a room
\* it left.
MemberKnows ==
  \A c \in Users \ Foreign, r \in Rooms :
    ~Closed(c) /\ hpc[c] = "idle" /\ In(c, r) => roomId[c] = r

\* A room lists a user of the console client under a nickname that still is
\* that user's: a name is not given away (room.go:51) while a room broadcasts to
\* its former owner.
MemberOwnsName ==
  \A c \in Users \ Foreign, r \in Rooms :
    \A n \in Keys : usersMap[r][n] = c /\ In(c, r) => allUsersMap[n] = c

\* Nothing of connection c runs any more.
Gone(c) == closer[c] = "done" /\ hpc[c] = "done"
             /\ \A r \in Rooms : job[r] # c

\* Logout and LeaveRoom (room.go:48-54, 69-83): a user that is gone has left
\* nothing behind, no nickname and no place in a room, provided its Logout
\* found a room id, whatever its handler was doing meanwhile and however
\* many leaves the room was sent.  Without a room id everything stays: the
\* nickname, and the user itself if its enter was still being handled.
LeftBehind ==
  \A c \in Users \ Foreign : Gone(c) /\ croom[c] # NoRoom =>
    /\ \A n \in Names : allUsersMap[n] # c
    /\ \A r \in Rooms : ~Member(c, r)

\* Requests of kind op of c and their answers, wherever they are.
UnderWay(c, op, answers) ==
  Cardinality({ i \in DOMAIN recvChan[c] : recvChan[c][i].op = op })
    + Cardinality({ i \in DOMAIN sendChan[c] : sendChan[c][i] \in answers })
    + (IF hreq[c].op = op THEN 1 ELSE 0)

\* The console waits for an answer that is on its way: a login and an enter
\* are answered exactly once, and neither the history nor the chats in front
\* push the answer out of packetSendChan.  A leave is answered at most once:
\* it can be lost before it is sent (client.go:110), and a client that does
\* not read can lose the answer; but the answer is never NOT_IN_ROOM, at
\* which the console would wait for ever (client.go:215).
OneOutstanding ==
  \A c \in Users \ Foreign : ~Closed(c) =>
    LET login == UnderWay(c, "login", {"LOGIN_OK", "NICK_NAME_EXIST"})
        enter == UnderWay(c, "enter", {"ENTER_OK", "INVALID_ROOM_ID"})
        leave == UnderWay(c, "leave", {"LEAVE_OK"})
    IN /\ login = (IF client[c] = "loginWait" THEN 1 ELSE 0)
       /\ enter = (IF client[c] = "enterWait" THEN 1 ELSE 0)
       /\ leave <= (IF client[c] = "leaveWait" THEN 1 ELSE 0)
       /\ \A i \in DOMAIN sendChan[c] : sendChan[c][i] # "NOT_IN_ROOM"

\* A room whose goroutine returned because a notice could not be built
\* (room.go:232, 248), and a server that shuts down: waits that start then
\* are not promised to end.
Stopping == main # "serve" \/ \E r \in Rooms : room[r] = "dead"

\* The two goroutines of a connection come to rest: a handler returns to its
\* loop, and the OnClose of a connection ends (TCPConn.Close calls it, and
\* serve's WaitGroup waits for it).  The waits for a room to take an enter, a
\* leave or a chat end, with messageChannel full too, although the room serves
\* one sender at a time and both goroutines may send it the same user.
ConnectionSettles ==
  \A c \in Users :
    hpc[c] \notin {"idle", "done"} \/ closer[c] = "logout"
      ~> (hpc[c] \in {"idle", "done"} /\ closer[c] \in {"open", "done"}) \/ Stopping

\* A user who disconnects while it is settled in a room, with no request
\* under way, is dropped by the room and loses its nickname.
CleanLogout ==
  \A c \in Users :
    closer[c] = "logout" /\ hpc[c] = "idle" /\ recvChan[c] = <<>> /\ roomId[c] # NoRoom
      ~> (allUsersMap[nick[c]] # c /\ \A r \in Rooms : ~Member(c, r)) \/ Stopping

\* A console that asked for a room gets to type, unless it disconnects or
\* its user keeps asking for rooms that do not exist.
EnterAnswered ==
  \A c \in Users :
    client[c] = "enterWait" ~> client[c] = "typing" \/ Closed(c) \/ Stopping

\* Main waits for every room in turn: it exits, with handlers blocked on
\* rooms already closed, unless a room's goroutine is gone.
ShutdownCompletes ==
  main = "closing" ~> main = "exited" \/ \E r \in Rooms : room[r] = "dead"

\* The room manager as module Lobby sees it.  A client of another make may
\* enter one room after the other without leaving: Lobby sees its names only.
RoomOf(c) ==
  IF c \notin Foreign /\ \E r \in Rooms : In(c, r)
  THEN CHOOSE r \in Rooms : In(c, r) ELSE NoRoom

L == INSTANCE Lobby WITH owner <- allUsersMap, where <- [c \in Users |-> RoomOf(c)]

\* Handlers, closers and rooms together do what module Lobby allows: names
\* are taken when free, users join with a name and out of any other room,
\* and a name is freed when its owner is out of the rooms.
ImplementsLobby == L!Spec

-----------------------------------------------------------------------------
(* What the source says and the code does not do.                          *)

\* "EnterRoom" (room.go:56): a connected user whose enter was confirmed, and
\* who has no request under way, is a member of the room it is told it is in.
SettledIsMember ==
  \A c \in Users :
    ~Closed(c) /\ hpc[c] = "idle" /\ roomId[c] # NoRoom => In(c, roomId[c])
===============================================================================
