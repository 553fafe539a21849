--------------------------- MODULE ChatServerProofs ---------------------------
(***************************************************************************)
(* Proofs about ChatServer for any number of connections, names and rooms, *)
(* any capacities, and clients of any make.                                *)
(***************************************************************************)
EXTENDS ChatServer, FiniteSetTheorems, TLAPS

\* The data that goes with the pc of a handle loop, of a closer and of a room.
PcOK ==
  /\ \A c \in Users :
       /\ hpc[c] \in {"idle", "done"} => hreq[c] = NoMsg
       /\ hpc[c] = "named" => hreq[c] \in { LoginMsg(n) : n \in Keys }
       /\ hpc[c] \in {"entering", "entered"} => hreq[c] \in { EnterMsg(r) : r \in Rooms }
       /\ hpc[c] = "sending" => /\ hreq[c] \in { ChatMsg(i) : i \in 1 .. MaxChat }
                                /\ roomId[c] \in Rooms
       /\ hpc[c] \in {"leaving", "left"} => hreq[c] = LeaveMsg
       /\ hpc[c] = "popular" => hreq[c].op = "popular"
       /\ closer[c] \in {"open", "logout"} => croom[c] = NoRoom
       /\ closer[c] \in {"leaving", "delete"} => croom[c] \in Rooms
  /\ \A r \in Rooms : /\ room[r] \in {"enter", "leave"} => job[r] \in Users
                      /\ room[r] = "record" => job[r] \in Chats

Typed == TypeOK /\ PcOK

-----------------------------------------------------------------------------
(* The messages and the helpers the actions are made of.                   *)

\* A message is known by its op.
LEMMA MsgKinds ==
  ASSUME NEW m \in Msgs
  PROVE  /\ m.op = "login" => m \in { LoginMsg(n) : n \in Keys } /\ m.name \in Keys
         /\ m.op = "enter" => m \in { EnterMsg(r) : r \in RoomIds } /\ m.room \in RoomIds
         /\ m.op = "chat" => m \in { ChatMsg(i) : i \in 1 .. MaxChat }
                            /\ m.id \in 1 .. MaxChat
         /\ m.op = "popular" => m.room \in RoomIds
BY DEF Msgs, LoginMsg, EnterMsg, ChatMsg, PopularMsg, LeaveMsg, StatsMsg

\* A login, an enter, a leave and the rest of what a client sends.
LEMMA MsgTypes ==
  /\ \A n \in Keys : LoginMsg(n) \in Msgs
  /\ \A r \in RoomIds : EnterMsg(r) \in Msgs /\ PopularMsg(r) \in Msgs
  /\ \A i \in 1 .. MaxChat : ChatMsg(i) \in Msgs
  /\ LeaveMsg \in Msgs /\ StatsMsg \in Msgs
BY DEF Msgs

\* What a client may type is a message, and a chat has the next identifier.
LEMMA CommandTypes ==
  ASSUME TypeOK, NEW c \in Users, NEW m \in Commands(c)
  PROVE  m \in Msgs /\ (m.op = "chat" => m.id \in 1 .. MaxChat)
<1>1. m \in Msgs
  <2>1. CASE "chat" \in Ops /\ lastId < MaxChat /\ m = ChatMsg(lastId + 1)
    <3>1. lastId + 1 \in 1 .. MaxChat
      BY <2>1, BoundsAssumption DEF TypeOK
    <3>2. QED
      BY <2>1, <3>1, MsgTypes
  <2>2. CASE m = LeaveMsg \/ m = StatsMsg \/ \E r \in RoomIds : m = PopularMsg(r)
    BY <2>2, MsgTypes
  <2>3. QED
    BY <2>1, <2>2 DEF Commands
<1>2. QED
  BY <1>1, MsgKinds

\* Queues of messages and of replies keep their type.
LEMMA ClientSendType ==
  ASSUME TypeOK, NEW c \in Users, NEW m \in Msgs, ClientSend(c, m)
  PROVE  recvChan' \in [Users -> Seq(Msgs)]
BY DEF TypeOK, ClientSend

LEMMA ReplyType ==
  ASSUME TypeOK, NEW c \in Users, NEW m \in Replies, Reply(c, m)
  PROVE  sendChan' \in [Users -> Seq(Replies)]
BY DEF TypeOK, Reply

LEMMA KeysFinite == IsFiniteSet(Keys)
BY NamesAssumption, FS_AddElement, FS_Union, FS_Singleton DEF Keys

\* A broadcast leaves every connection at most BuffCap buffers.
LEMMA BroadsendType ==
  ASSUME TypeOK, NEW members, NEW except, Broadsend(members, except)
  PROVE  buffChan' \in [Users -> 0 .. BuffCap]
<1>1. ASSUME NEW c \in Users
      PROVE  Copies(members, c, except) \in Nat
  <2>1. Cardinality({ n \in Keys : members[n] = c }) \in Nat
    BY KeysFinite, FS_Subset, FS_CardinalityType
  <2>2. QED
    BY <2>1 DEF Copies
<1>2. QED
  BY <1>1, BoundsAssumption DEF TypeOK, Broadsend

\* The history is appended to the replies.
LEMMA HistoryType ==
  ASSUME TypeOK, NEW c \in Users, NEW o, SendHistory(c, o)
  PROVE  sendChan' \in [Users -> Seq(Replies)]
<1> DEFINE k == Cardinality(Stored(o))
           packets == [i \in 1 .. HistoryTaken(c, k) |-> "history"]
<1>1. k \in Nat
  <2>1. IsFiniteSet(1 .. MaxOffline)
    BY BoundsAssumption, FS_Interval
  <2>2. Stored(o) \subseteq 1 .. MaxOffline
    BY DEF Stored
  <2>3. QED
    BY <2>1, <2>2, FS_Subset, FS_CardinalityType
<1>2. HistoryTaken(c, k) \in Nat
  BY <1>1, BoundsAssumption DEF HistoryTaken, TypeOK
<1>3. packets \in Seq(Replies)
  BY <1>2 DEF Replies
<1>4. QED
  BY <1>3 DEF TypeOK, SendHistory

-----------------------------------------------------------------------------
(* The actions that need more than their definition.                       *)

\* What the handle loop takes is a message, of the kind its handler is for.
LEMMA HandleType ==
  ASSUME TypeOK, NEW c \in Users, NEW op, Handle(c, op)
  PROVE  /\ recvChan' \in [Users -> Seq(Msgs)]
         /\ Head(recvChan[c]) \in Msgs /\ Head(recvChan[c]).op = op
         /\ hpc[c] = "idle"
BY DEF TypeOK, Handle

\* What a message and a pc that go together are.
Fits(p, m, c) ==
  /\ p \in {"idle", "named", "entering", "leaving", "sending", "popular"}
  /\ m \in Msgs \cup {NoMsg}
  /\ p = "idle" => m = NoMsg
  /\ p = "named" => m \in { LoginMsg(n) : n \in Keys }
  /\ p = "leaving" => m = LeaveMsg
  /\ p = "popular" => m.op = "popular"
  /\ p = "entering" => m \in { EnterMsg(r) : r \in Rooms }
  /\ p = "sending" => m \in { ChatMsg(i) : i \in 1 .. MaxChat } /\ roomId[c] \in Rooms

\* A handler that goes to a pc with a fitting message keeps Typed.
LEMMA TurnTyped ==
  ASSUME Typed, NEW c \in Users, NEW p, NEW m, Goto(c, p, m), Fits(p, m, c),
         recvChan' \in [Users -> Seq(Msgs)], sendChan' \in [Users -> Seq(Replies)],
         allUsersMap' \in [Keys -> Users \cup {NoUser}],
         UNCHANGED <<mainVars, roomVars, messageChannel, userVars, closeVars,
                     buffChan, cliVars>>
  PROVE  Typed'
<1>1. hpc' \in [Users -> {"idle", "named", "entering", "entered", "leaving",
                          "left", "sending", "popular", "done"}]
  BY DEF Goto, Fits, Typed, TypeOK
<1>2. hreq' \in [Users -> Msgs \cup {NoMsg}]
  BY DEF Goto, Fits, Typed, TypeOK
<1>3. TypeOK'
  BY <1>1, <1>2 DEF Typed, TypeOK, mainVars, roomVars, userVars, closeVars, cliVars
<1>4. ASSUME NEW d \in Users
      PROVE  /\ hpc'[d] \in {"idle", "done"} => hreq'[d] = NoMsg
             /\ hpc'[d] = "named" => hreq'[d] \in { LoginMsg(n) : n \in Keys }
             /\ hpc'[d] \in {"leaving", "left"} => hreq'[d] = LeaveMsg
             /\ hpc'[d] = "popular" => hreq'[d].op = "popular"
             /\ hpc'[d] \in {"entering", "entered"}
                  => hreq'[d] \in { EnterMsg(r) : r \in Rooms }
             /\ hpc'[d] = "sending" => /\ hreq'[d] \in { ChatMsg(i) : i \in 1 .. MaxChat }
                                       /\ roomId'[d] \in Rooms
  <2>1. CASE d = c
    BY <2>1 DEF Goto, Fits, Typed, TypeOK, userVars
  <2>2. CASE d # c
    <3>1. hpc'[d] = hpc[d] /\ hreq'[d] = hreq[d] /\ roomId'[d] = roomId[d]
      BY <2>2 DEF Goto, Typed, TypeOK, userVars
    <3>2. QED
      BY <3>1 DEF Typed, PcOK
  <2>3. QED
    BY <2>1, <2>2
<1>5. PcOK'
  BY <1>4 DEF Typed, PcOK, roomVars, closeVars
<1>6. QED
  BY <1>3, <1>5 DEF Typed

\* A message handled in one step keeps Typed.
LEMMA NoTurnTyped ==
  ASSUME Typed, recvChan' \in [Users -> Seq(Msgs)], sendChan' \in [Users -> Seq(Replies)],
         UNCHANGED <<mainVars, roomVars, messageChannel, allUsersMap, userVars,
                     hVars, closeVars, buffChan, cliVars>>
  PROVE  Typed'
BY DEF Typed, TypeOK, PcOK, mainVars, roomVars, userVars, hVars, closeVars, cliVars

\* A login: the nickname is stored, or the refusal queued.
LEMMA CMLoginTyped ==
  ASSUME Typed, NEW c \in Users, CMLogin(c)
  PROVE  Typed'
<1> DEFINE m == Head(recvChan[c])
<1>1. recvChan' \in [Users -> Seq(Msgs)] /\ m \in Msgs /\ m.op = "login"
  BY HandleType DEF CMLogin, Typed
<1>2. sendChan' \in [Users -> Seq(Replies)]
  BY ReplyType DEF CMLogin, Typed, TypeOK, Replies
<1>3. CASE allUsersMap[m.name] = NoUser
  <2>1. Fits("named", m, c)
    BY <1>1, <1>3, MsgKinds DEF Fits, Typed, TypeOK
  <2>2. allUsersMap' \in [Keys -> Users \cup {NoUser}]
    <3>1. m.name \in Keys
      BY <1>1, MsgKinds DEF Keys
    <3>2. allUsersMap' = [allUsersMap EXCEPT ![m.name] = c]
      BY <1>3 DEF CMLogin
    <3>3. QED
      BY <3>1, <3>2 DEF Typed, TypeOK
  <2>3. Goto(c, "named", m)
    BY <1>3 DEF CMLogin
  <2>4. UNCHANGED <<mainVars, roomVars, messageChannel, userVars, closeVars,
                    buffChan, cliVars>>
    BY DEF CMLogin, Handle
  <2>5. QED
    BY <1>1, <1>2, <2>1, <2>2, <2>3, <2>4, TurnTyped
<1>4. CASE ~(allUsersMap[m.name] = NoUser)
  BY <1>1, <1>2, <1>4, NoTurnTyped DEF CMLogin, Handle
<1>5. QED
  BY <1>3, <1>4

\* A login that succeeded: the user gets the nickname.
LEMMA CMLoginStoredTyped ==
  ASSUME Typed, NEW c \in Users, CMLoginStored(c)
  PROVE  Typed'
<1>1. hreq[c].name \in Keys
  BY DEF CMLoginStored, Typed, PcOK, LoginMsg, Keys
<1>2. nick' \in [Users -> Keys]
  BY <1>1 DEF CMLoginStored, Typed, TypeOK
<1>3. sendChan' \in [Users -> Seq(Replies)]
  BY ReplyType DEF CMLoginStored, Typed, Replies
<1>4. QED
  BY <1>2, <1>3 DEF CMLoginStored, Return, Goto, Typed, TypeOK, PcOK, mainVars,
            roomVars, userVars, hVars, closeVars, outVars, cliVars

\* An enter: the handler waits for the room, or the refusal is queued.
LEMMA CMEnterTyped ==
  ASSUME Typed, NEW c \in Users, CMEnter(c)
  PROVE  Typed'
<1> DEFINE m == Head(recvChan[c])
<1>1. recvChan' \in [Users -> Seq(Msgs)] /\ m \in Msgs /\ m.op = "enter"
  BY HandleType DEF CMEnter, Typed
<1>2. sendChan' \in [Users -> Seq(Replies)]
  BY ReplyType DEF CMEnter, Typed, TypeOK, Replies
<1>3. CASE m.room \in Rooms
  <2>1. Fits("entering", m, c)
    BY <1>1, <1>3, MsgKinds DEF Fits, Typed, TypeOK, EnterMsg
  <2>2. allUsersMap' \in [Keys -> Users \cup {NoUser}]
    BY <1>1, <1>3, MsgKinds DEF CMEnter, Typed, TypeOK, Keys
  <2>3. Goto(c, "entering", m)
    BY <1>3 DEF CMEnter
  <2>4. UNCHANGED <<mainVars, roomVars, messageChannel, userVars, closeVars,
                    buffChan, cliVars>>
    BY DEF CMEnter, Handle
  <2>5. QED
    BY <1>1, <1>2, <2>1, <2>2, <2>3, <2>4, TurnTyped
<1>4. CASE ~(m.room \in Rooms)
  BY <1>1, <1>2, <1>4, NoTurnTyped DEF CMEnter, Handle
<1>5. QED
  BY <1>3, <1>4

\* A leave: the handler waits for the room, or the refusal is queued.
LEMMA CMLeaveTyped ==
  ASSUME Typed, NEW c \in Users, CMLeave(c)
  PROVE  Typed'
<1> DEFINE m == Head(recvChan[c])
<1>1. recvChan' \in [Users -> Seq(Msgs)] /\ m \in Msgs /\ m.op = "leave"
  BY HandleType DEF CMLeave, Typed
<1>2. sendChan' \in [Users -> Seq(Replies)]
  BY ReplyType DEF CMLeave, Typed, TypeOK, Replies
<1>3. CASE roomId[c] # NoRoom
  <2>1. Fits("leaving", LeaveMsg, c)
    BY <1>1, <1>3, MsgKinds, MsgTypes DEF Fits, Typed, TypeOK
  <2>2. allUsersMap' \in [Keys -> Users \cup {NoUser}]
    BY <1>1, <1>3, MsgKinds DEF CMLeave, Typed, TypeOK, Keys
  <2>3. Goto(c, "leaving", LeaveMsg)
    BY <1>3 DEF CMLeave
  <2>4. UNCHANGED <<mainVars, roomVars, messageChannel, userVars, closeVars,
                    buffChan, cliVars>>
    BY DEF CMLeave, Handle
  <2>5. QED
    BY <1>1, <1>2, <2>1, <2>2, <2>3, <2>4, TurnTyped
<1>4. CASE ~(roomId[c] # NoRoom)
  BY <1>1, <1>2, <1>4, NoTurnTyped DEF CMLeave, Handle
<1>5. QED
  BY <1>3, <1>4

\* A chat: the handler waits for messageChannel, or the chat is dropped.
LEMMA CMChatTyped ==
  ASSUME Typed, NEW c \in Users, CMChat(c)
  PROVE  Typed'
<1> DEFINE m == Head(recvChan[c])
<1>1. recvChan' \in [Users -> Seq(Msgs)] /\ m \in Msgs /\ m.op = "chat"
  BY HandleType DEF CMChat, ChatInRoom, Typed
<1>2. sendChan' \in [Users -> Seq(Replies)]
  BY ReplyType DEF CMChat, ChatInRoom, Typed, TypeOK, Replies
<1>3. CASE roomId[c] # NoRoom /\ nick[c] \notin LongNames
  <2>1. Fits("sending", m, c)
    BY <1>1, <1>3, MsgKinds DEF Fits, Typed, TypeOK
  <2>2. allUsersMap' \in [Keys -> Users \cup {NoUser}]
    BY <1>1, <1>3, MsgKinds DEF CMChat, ChatInRoom, Typed, TypeOK, Keys
  <2>3. Goto(c, "sending", m)
    BY <1>3 DEF CMChat, ChatInRoom
  <2>4. UNCHANGED <<mainVars, roomVars, messageChannel, userVars, closeVars,
                    buffChan, cliVars>>
    BY DEF CMChat, ChatInRoom, Handle
  <2>5. QED
    BY <1>1, <1>2, <2>1, <2>2, <2>3, <2>4, TurnTyped
<1>4. CASE ~(roomId[c] # NoRoom /\ nick[c] \notin LongNames)
  BY <1>1, <1>2, <1>4, NoTurnTyped DEF CMChat, ChatInRoom, Handle
<1>5. QED
  BY <1>3, <1>4

\* The chat is queued in the room of its author.
LEMMA CMChatSendTyped ==
  ASSUME Typed, NEW c \in Users, CMChatSend(c)
  PROVE  Typed'
<1>1. roomId[c] \in Rooms /\ hreq[c].id \in 1 .. MaxChat
  BY DEF CMChatSend, Typed, PcOK, ChatMsg
<1>2. [by |-> nick[c], id |-> hreq[c].id] \in Chats
  BY <1>1 DEF Chats, Typed, TypeOK
<1>3. messageChannel' \in [Rooms -> Seq(Chats)]
  BY <1>1, <1>2 DEF CMChatSend, Typed, TypeOK
<1>4. QED
  BY <1>3 DEF CMChatSend, Return, Goto, Typed, TypeOK, PcOK, mainVars,
            roomVars, userVars, hVars, closeVars, outVars, cliVars

\* POPULAR: the handler computes, or answers for an unknown room.
LEMMA CMCommandPopularTyped ==
  ASSUME Typed, NEW c \in Users, CMCommandPopular(c)
  PROVE  Typed'
<1> DEFINE m == Head(recvChan[c])
<1>1. recvChan' \in [Users -> Seq(Msgs)] /\ m \in Msgs /\ m.op = "popular"
  BY HandleType DEF CMCommandPopular, Typed
<1>2. sendChan' \in [Users -> Seq(Replies)]
  BY ReplyType DEF CMCommandPopular, Typed, TypeOK, Replies
<1>3. CASE m.room \in Rooms
  <2>1. Fits("popular", m, c)
    BY <1>1, <1>3, MsgKinds DEF Fits, Typed, TypeOK
  <2>2. allUsersMap' \in [Keys -> Users \cup {NoUser}]
    BY <1>1, <1>3, MsgKinds DEF CMCommandPopular, Typed, TypeOK, Keys
  <2>3. Goto(c, "popular", m)
    BY <1>3 DEF CMCommandPopular
  <2>4. UNCHANGED <<mainVars, roomVars, messageChannel, userVars, closeVars,
                    buffChan, cliVars>>
    BY DEF CMCommandPopular, Handle
  <2>5. QED
    BY <1>1, <1>2, <2>1, <2>2, <2>3, <2>4, TurnTyped
<1>4. CASE ~(m.room \in Rooms)
  BY <1>1, <1>2, <1>4, NoTurnTyped DEF CMCommandPopular, Handle
<1>5. QED
  BY <1>3, <1>4

\* A foreign client sends.
LEMMA ClientAnyTyped ==
  ASSUME Typed, NEW c \in Users, ClientAny(c)
  PROVE  Typed'
<1>1. PICK m \in Msgs : ClientSend(c, m)
  BY MsgTypes, MsgKinds, CommandTypes DEF ClientAny, Typed
<1>2. lastId' = lastId + 1 /\ lastId < MaxChat
  BY DEF ClientAny
<1>3. recvChan' \in [Users -> Seq(Msgs)] /\ lastId' \in 0 .. MaxChat
  BY <1>1, <1>2, ClientSendType, BoundsAssumption DEF Typed, TypeOK
<1>4. QED
  BY <1>3 DEF ClientAny, Typed, TypeOK, PcOK, mainVars,
            roomVars, userVars, hVars, closeVars, outVars, cliVars

\* A room ends its entering case.
LEMMA RoomEnterTyped ==
  ASSUME Typed, NEW r \in Rooms, RoomEnter(r)
  PROVE  Typed'
<1>1. job[r] \in Users
  BY DEF RoomEnter, Typed, PcOK
<1>2. sendChan' \in [Users -> Seq(Replies)]
  BY <1>1, HistoryType DEF RoomEnter, Typed
<1>3. buffChan' \in [Users -> 0 .. BuffCap]
  BY BroadsendType DEF RoomEnter, Typed, TypeOK
<1>4. usersMap' \in [Rooms -> [Keys -> Users \cup {NoUser}]]
  BY <1>1 DEF RoomEnter, Typed, TypeOK
<1>5. PICK p \in {"select", "dead"} : /\ room' = [room EXCEPT ![r] = p]
                                     /\ job' = [job EXCEPT ![r] = NoUser]
  BY DEF RoomEnter, NextCase
<1>6. TypeOK'
  BY <1>2, <1>3, <1>4, <1>5 DEF RoomEnter, Typed, TypeOK,
            mainVars, userVars, hVars, closeVars, cliVars
<1>7. PcOK'
  BY <1>5 DEF RoomEnter, Typed, TypeOK, PcOK, userVars, hVars, closeVars
<1>8. QED
  BY <1>6, <1>7 DEF Typed

\* A room ends its message case.
LEMMA RoomBroadcastTyped ==
  ASSUME Typed, NEW r \in Rooms, RoomBroadcast(r)
  PROVE  Typed'
<1>1. job[r] \in Chats
  BY DEF RoomBroadcast, Typed, PcOK
<1>2. buffChan' \in [Users -> 0 .. BuffCap]
  BY BroadsendType DEF RoomBroadcast, Typed
<1>3. offlineMsg' \in [Rooms -> [1 .. MaxOffline -> Chats \cup {NoChat}]]
  <2>1. Save(offlineMsg[r], job[r]) \in [1 .. MaxOffline -> Chats \cup {NoChat}]
    BY <1>1, BoundsAssumption DEF Save, Typed, TypeOK
  <2>2. QED
    BY <2>1 DEF RoomBroadcast, Typed, TypeOK
<1>4. QED
  BY <1>2, <1>3 DEF RoomBroadcast, NextCase, Typed, TypeOK, PcOK, mainVars,
            roomVars, userVars, hVars, closeVars, outVars, cliVars

-----------------------------------------------------------------------------
(* The invariant that carries the types.                                   *)

\* Initially no goroutine handles anything, and every queue is empty.
LEMMA TypedInit ==
  ASSUME Init
  PROVE  Typed
BY BoundsAssumption DEF Init, Typed, TypeOK, PcOK, Keys

\* No step of any goroutine, and nothing a client does, breaks Typed.
LEMMA TypedNext ==
  ASSUME Typed, [Next]_vars
  PROVE  Typed'
<1> USE DEF mainVars, roomVars, userVars, hVars, closeVars, outVars, cliVars
<1>1. ASSUME NEW c \in Users, Environment(c)
      PROVE  Typed'
  <2>1. ASSUME NEW n \in Names, Connect(c, n)
        PROVE  Typed'
    BY ZenonT(40), <2>1, ClientSendType, MsgTypes DEF Connect, Keys, Typed, TypeOK, PcOK
  <2>2. CASE Type(c)
    <3>1. PICK m \in Commands(c) :
            /\ ClientSend(c, m)
            /\ client' = [client EXCEPT ![c] = IF m = LeaveMsg THEN "leaveWait" ELSE @]
            /\ lastId' = IF m.op = "chat" THEN m.id ELSE lastId
      BY <2>2 DEF Type
    <3>2. recvChan' \in [Users -> Seq(Msgs)] /\ lastId' \in 0 .. MaxChat
      BY <3>1, ClientSendType, CommandTypes, BoundsAssumption DEF Typed, TypeOK
    <3>3. client' \in [Users -> {"off", "loginWait", "enterWait", "typing",
                                 "leaveWait", "foreign"}]
      BY <3>1 DEF Typed, TypeOK
    <3>4. TypeOK'
      BY <2>2, <3>2, <3>3 DEF Type, Typed, TypeOK
    <3>5. PcOK'
      BY <2>2 DEF Type, Typed, PcOK
    <3>6. QED
      BY <3>4, <3>5 DEF Typed
  <2>3. CASE ClientAny(c)
    BY <2>3, ClientAnyTyped
  <2>4. CASE Disconnect(c)
    <3>1. TypeOK'
      BY <2>4, BoundsAssumption DEF Disconnect, Typed, TypeOK
    <3>2. PcOK'
      BY <2>4 DEF Disconnect, Closed, Typed, TypeOK, PcOK
    <3>3. QED
      BY <3>1, <3>2 DEF Typed
  <2> QED
    BY <1>1, <2>1, <2>2, <2>3, <2>4 DEF Environment
<1>2. ASSUME NEW c \in Users, ReplyStep(c)
      PROVE  Typed'
  <2>1. CASE SMRespLogin(c)
    BY <2>1, ClientSendType, MsgTypes DEF SMRespLogin, TakeReply, Typed, TypeOK, PcOK
  <2>2. CASE SMRespLoginAgain(c)
    <3>1. PICK n \in Keys : ClientSend(c, LoginMsg(n))
      BY <2>2 DEF SMRespLoginAgain, Keys
    <3>2. recvChan' \in [Users -> Seq(Msgs)]
      BY <3>1, ClientSendType, MsgTypes DEF Typed
    <3>3. TakeReply(c, "NICK_NAME_EXIST") /\ UNCHANGED client
      BY <2>2 DEF SMRespLoginAgain
    <3>4. QED
      BY <3>2, <3>3 DEF TakeReply, Typed, TypeOK, PcOK
  <2>3. CASE SMRespEnter(c)
    BY <2>3 DEF SMRespEnter, TakeReply, Typed, TypeOK, PcOK
  <2>4. CASE SMRespEnterAgain(c)
    BY <2>4, ClientSendType, MsgTypes DEF SMRespEnterAgain, TakeReply, Typed, TypeOK, PcOK
  <2>5. CASE SMRespLeave(c)
    BY <2>5, ClientSendType, MsgTypes DEF SMRespLeave, TakeReply, Typed, TypeOK, PcOK
  <2>6. CASE SMDisplay(c)
    BY <2>6 DEF SMDisplay, TakeReply, Typed, TypeOK, PcOK
  <2> QED
    BY <1>2, <2>1, <2>2, <2>3, <2>4, <2>5, <2>6 DEF ReplyStep
<1>3. ASSUME NEW c \in Users, WriteBuff(c)
      PROVE  Typed'
  BY <1>3, BoundsAssumption DEF WriteBuff, Typed, TypeOK, PcOK
<1>4. ASSUME NEW c \in Users, HandlerStep(c)
      PROVE  Typed'
  <2>1. CASE CMLogin(c)
    BY <2>1, CMLoginTyped
  <2>2. CASE CMLoginStored(c)
    BY <2>2, CMLoginStoredTyped
  <2>3. CASE CMEnter(c)
    BY <2>3, CMEnterTyped
  <2>4. CASE CMEntered(c)
    BY <2>4, ReplyType DEF CMEntered, Return, Goto, Replies, EnterMsg, Typed, TypeOK, PcOK
  <2>5. CASE CMLeave(c)
    BY <2>5, CMLeaveTyped
  <2>6. CASE CMLeft(c)
    BY <2>6, ReplyType DEF CMLeft, Return, Goto, Replies, Typed, TypeOK, PcOK
  <2>7. CASE CMChat(c)
    BY <2>7, CMChatTyped
  <2>8. CASE CMCommandPopular(c)
    BY <2>8, CMCommandPopularTyped
  <2>9. CASE CMCommandPopularEnd(c)
    BY <2>9, ReplyType DEF CMCommandPopularEnd, Return, Goto, Replies, Typed, TypeOK, PcOK
  <2>10. CASE CMCommandStats(c)
    BY <2>10, ReplyType DEF CMCommandStats, Handle, Replies, Typed, TypeOK, PcOK
  <2>11. CASE HandlerExit(c)
    BY <2>11 DEF HandlerExit, Typed, TypeOK, PcOK
  <2> QED
    BY <1>4, <2>1, <2>2, <2>3, <2>4, <2>5, <2>6, <2>7, <2>8, <2>9,
       <2>10, <2>11 DEF HandlerStep
<1>5. ASSUME NEW c \in Users, BlockedSend(c)
      PROVE  Typed'
  <2>1. CASE CMChatSend(c)
    BY <2>1, CMChatSendTyped
  <2>2. ASSUME NEW r \in Rooms, RoomEntering(r, c)
        PROVE  Typed'
    BY <2>2 DEF RoomEntering, Work, Typed, TypeOK, PcOK
  <2>3. ASSUME NEW r \in Rooms, RoomLeaving(r, c)
        PROVE  Typed'
    <3>1. TypeOK'
      BY <2>3 DEF RoomLeaving, Work, Typed, TypeOK
    <3>2. PcOK'
      BY <2>3 DEF RoomLeaving, Work, Typed, TypeOK, PcOK
    <3>3. QED
      BY <3>1, <3>2 DEF Typed
  <2> QED
    BY <1>5, <2>1, <2>2, <2>3 DEF BlockedSend
<1>6. ASSUME NEW c \in Users, CloserStep(c)
      PROVE  Typed'
  <2>1. CASE Logout(c)
    BY <2>1 DEF Logout, Typed, TypeOK, PcOK
  <2>2. CASE LogoutDelete(c)
    BY <2>2 DEF LogoutDelete, Typed, TypeOK, PcOK
  <2> QED
    BY <1>6, <2>1, <2>2 DEF CloserStep
<1>7. ASSUME NEW r \in Rooms, RoomStep(r)
      PROVE  Typed'
  <2>1. CASE RoomEnter(r)
    BY <2>1, RoomEnterTyped
  <2>2. CASE RoomLeave(r)
    BY <2>2, BroadsendType DEF RoomLeave, NextCase, Typed, TypeOK, PcOK
  <2>3. CASE RoomBroadcast(r)
    BY <2>3, RoomBroadcastTyped
  <2> QED
    BY <1>7, <2>1, <2>2, <2>3 DEF RoomStep
<1>8. ASSUME NEW r \in Rooms, RoomMessage(r)
      PROVE  Typed'
  BY <1>8 DEF RoomMessage, Work, Typed, TypeOK, PcOK
<1>9. ASSUME NEW r \in Rooms, RoomClosed(r)
      PROVE  Typed'
  BY <1>9 DEF RoomClosed, Typed, TypeOK, PcOK
<1>10. ASSUME MainStep
      PROVE  Typed'
  <2>1. ASSUME NEW r \in Rooms, CloseRoom(r)
        PROVE  Typed'
    BY <2>1 DEF CloseRoom, Typed, TypeOK, PcOK
  <2>2. CASE Exit
    BY <2>2 DEF Exit, Typed, TypeOK, PcOK
  <2> QED
    BY <1>10, <2>1, <2>2 DEF MainStep
<1>11. ASSUME Signal
      PROVE  Typed'
  BY <1>11 DEF Signal, Typed, TypeOK, PcOK
<1>12. CASE UNCHANGED vars
  BY <1>12 DEF vars, Typed, TypeOK, PcOK
<1> QED
  BY <1>1, <1>2, <1>3, <1>4, <1>5, <1>6, <1>7, <1>8, <1>9, <1>10, <1>11, <1>12 DEF Next

\* Every variable keeps its type, with the pc of each handle loop and room
\* goroutine that of what it works on, in every run of the server.
THEOREM TypeInvariant == Spec => []TypeOK
<1>1. Init => Typed
  BY TypedInit
<1>2. Typed /\ [Next]_vars => Typed'
  BY TypedNext
<1>3. Typed => TypeOK
  BY DEF Typed
<1>4. QED
  BY <1>1, <1>2, <1>3, PTL DEF Spec

-----------------------------------------------------------------------------
(* Unique nicknames.  NickUnique is not inductive: a login stores the name  *)
(* in the map before the user gets it, and the map entry of a user that     *)
(* leaves has to be known to be its own when it is deleted.                 *)

\* OnClose has deleted the nickname of c: LeaveRoom found a room (room.go:50).
Released(c) == closer[c] = "done" /\ croom[c] # NoRoom

\* Until then a user owns the map entry of its nickname and of the name it is
\* about to get, also when its OnClose has ended and left the nickname.
Owns ==
  \A c \in Users : ~Released(c) =>
    /\ nick[c] # NoName => allUsersMap[nick[c]] = c
    /\ hpc[c] = "named" /\ hreq[c].name # NoName => allUsersMap[hreq[c].name] = c

\* A step that gives no name and takes none keeps Owns.
LEMMA OwnsFrame ==
  ASSUME Owns, UNCHANGED <<nick, allUsersMap>>,
         \A d \in Users : /\ Released(d) => Released(d)'
                          /\ hpc'[d] = "named" => hpc[d] = "named" /\ hreq'[d] = hreq[d]
  PROVE  Owns'
BY DEF Owns

\* A login takes a name nobody owns.
LEMMA CMLoginOwns ==
  ASSUME Typed, Owns, NEW c \in Users, CMLogin(c)
  PROVE  Owns'
<1> DEFINE m == Head(recvChan[c])
<1>1. m \in Msgs /\ m.op = "login"
  BY HandleType DEF CMLogin, Typed
<1>2. m.name \in Keys /\ nick' = nick /\ \A d \in Users : Released(d)' <=> Released(d)
  BY <1>1, MsgKinds DEF CMLogin, Handle, Keys, Released, userVars, closeVars
<1>3. CASE allUsersMap[m.name] = NoUser
  <2>1. /\ allUsersMap' = [allUsersMap EXCEPT ![m.name] = c]
        /\ hpc' = [hpc EXCEPT ![c] = "named"] /\ hreq' = [hreq EXCEPT ![c] = m]
    BY <1>3 DEF CMLogin, Goto
  <2>2. ASSUME NEW d \in Users, ~Released(d), nick[d] # NoName
        PROVE  allUsersMap'[nick[d]] = d
    <3>1. allUsersMap[nick[d]] = d /\ nick[d] \in Keys
      BY <2>2 DEF Owns, Typed, TypeOK
    <3>2. nick[d] # m.name
      BY <3>1, <1>3, UsersAssumption
    <3>3. QED
      BY <2>1, <3>1, <3>2 DEF Typed, TypeOK
  <2>3. ASSUME NEW d \in Users, ~Released(d), hpc'[d] = "named",
               hreq'[d].name # NoName
        PROVE  allUsersMap'[hreq'[d].name] = d
    <3>1. CASE d = c
      BY <1>2, <2>1, <3>1 DEF Typed, TypeOK
    <3>2. CASE d # c
      <4>1. hpc[d] = "named" /\ hreq'[d] = hreq[d]
        BY <2>1, <2>3, <3>2 DEF Typed, TypeOK
      <4>2. allUsersMap[hreq[d].name] = d
        BY <2>3, <4>1 DEF Owns
      <4>3. hreq[d].name # m.name
        BY <1>3, <4>2, UsersAssumption
      <4>4. hreq[d].name \in Keys
        BY <4>1 DEF Typed, PcOK, LoginMsg, Keys
      <4>5. QED
        BY <1>2, <2>1, <4>1, <4>2, <4>3, <4>4 DEF Typed, TypeOK
    <3>3. QED
      BY <3>1, <3>2
  <2>4. QED
    BY <1>2, <2>2, <2>3 DEF Owns
<1>4. CASE allUsersMap[m.name] # NoUser
  <2>1. UNCHANGED <<allUsersMap, hpc, hreq>>
    BY <1>4 DEF CMLogin, hVars
  <2>2. QED
    BY <1>2, <2>1, OwnsFrame
<1>5. QED
  BY <1>3, <1>4

\* A user gets the name whose entry it has stored.
LEMMA CMLoginStoredOwns ==
  ASSUME Typed, Owns, NEW c \in Users, CMLoginStored(c)
  PROVE  Owns'
<1>1. /\ hpc[c] = "named" /\ nick' = [nick EXCEPT ![c] = hreq[c].name]
      /\ hpc' = [hpc EXCEPT ![c] = "idle"] /\ hreq' = [hreq EXCEPT ![c] = NoMsg]
      /\ UNCHANGED <<allUsersMap, closer, croom>>
  BY DEF CMLoginStored, Return, Goto, closeVars
<1>2. ASSUME NEW d \in Users, ~Released(d)
      PROVE  /\ nick'[d] # NoName => allUsersMap[nick'[d]] = d
             /\ hpc'[d] = "named" /\ hreq'[d].name # NoName
                  => allUsersMap[hreq'[d].name] = d
  <2>1. CASE d = c
    BY <1>1, <1>2, <2>1 DEF Owns, Typed, TypeOK
  <2>2. CASE d # c
    BY <1>1, <1>2, <2>2 DEF Owns, Typed, TypeOK
  <2>3. QED
    BY <2>1, <2>2
<1>3. QED
  BY <1>1, <1>2 DEF Owns, Released

\* A logout deletes an entry of nobody else.
LEMMA LogoutDeleteOwns ==
  ASSUME Typed, Owns, NEW c \in Users, LogoutDelete(c)
  PROVE  Owns'
<1>1. /\ closer[c] = "delete" /\ closer' = [closer EXCEPT ![c] = "done"]
      /\ allUsersMap' = [allUsersMap EXCEPT ![nick[c]] = NoUser]
      /\ UNCHANGED <<nick, hpc, hreq, croom>>
  BY DEF LogoutDelete, userVars, hVars
<1>2. ASSUME NEW d \in Users, ~Released(d)'
      PROVE  d # c /\ ~Released(d)
  <2>1. croom[c] # NoRoom
    BY <1>1, RoomsAssumption DEF Typed, PcOK
  <2>2. QED
    BY <1>1, <1>2, <2>1 DEF Released, Typed, TypeOK
<1>3. ASSUME NEW d \in Users, NEW n \in Names, d # c, allUsersMap[n] = d
      PROVE  allUsersMap'[n] = d
  <2>1. nick[c] # NoName => allUsersMap[nick[c]] = c
    BY <1>1 DEF Owns, Released
  <2>2. n # nick[c]
    BY <1>3, <2>1, NamesAssumption
  <2>3. QED
    BY <1>1, <1>3, <2>2 DEF Typed, TypeOK, Keys
<1>4. ASSUME NEW d \in Users, ~Released(d)', nick[d] # NoName
      PROVE  allUsersMap'[nick[d]] = d
  <2>1. d # c /\ allUsersMap[nick[d]] = d /\ nick[d] \in Names
    BY <1>2, <1>4 DEF Owns, Typed, TypeOK, Keys
  <2>2. QED
    BY <1>3, <2>1
<1>5. ASSUME NEW d \in Users, ~Released(d)', hpc[d] = "named", hreq[d].name # NoName
      PROVE  allUsersMap'[hreq[d].name] = d
  <2>1. d # c /\ allUsersMap[hreq[d].name] = d
    BY <1>2, <1>5 DEF Owns
  <2>2. hreq[d].name \in Names
    BY <1>5 DEF Typed, PcOK, LoginMsg, Keys
  <2>3. QED
    BY <1>3, <2>1, <2>2
<1>6. QED
  BY <1>1, <1>4, <1>5 DEF Owns

\* No step breaks Owns: names change hands in three actions only.
LEMMA OwnsNext ==
  ASSUME Typed, Owns, [Next]_vars
  PROVE  Owns'
<1> USE DEF Released, mainVars, roomVars, userVars, hVars, closeVars, outVars, cliVars
<1>1. ASSUME NEW c \in Users, Environment(c)
      PROVE  Owns'
  <2>1. ASSUME NEW n \in Names, Connect(c, n)
        PROVE  Owns'
    BY <2>1, OwnsFrame DEF Connect
  <2>2. CASE Type(c)
    BY <2>2, OwnsFrame DEF Type
  <2>3. CASE ClientAny(c)
    BY <2>3, OwnsFrame DEF ClientAny
  <2>4. CASE Disconnect(c)
    BY <2>4, OwnsFrame DEF Disconnect, Closed, Typed, TypeOK
  <2> QED
    BY <1>1, <2>1, <2>2, <2>3, <2>4 DEF Environment
<1>2. ASSUME NEW c \in Users, ReplyStep(c)
      PROVE  Owns'
  <2>1. PICK m \in Replies : TakeReply(c, m)
    BY <1>2 DEF ReplyStep, SMRespLogin, SMRespLoginAgain, SMRespEnter,
               SMRespEnterAgain, SMRespLeave, SMDisplay, Replies
  <2>2. QED
    BY <2>1, OwnsFrame DEF TakeReply
<1>3. ASSUME NEW c \in Users, WriteBuff(c)
      PROVE  Owns'
  BY <1>3, OwnsFrame DEF WriteBuff
<1>4. ASSUME NEW c \in Users, HandlerStep(c)
      PROVE  Owns'
  <2>1. CASE CMLogin(c)
    BY <2>1, CMLoginOwns
  <2>2. CASE CMLoginStored(c)
    BY <2>2, CMLoginStoredOwns
  <2>3. CASE CMEnter(c)
    BY <2>3, OwnsFrame DEF CMEnter, Handle, Goto, Typed, TypeOK
  <2>4. CASE CMEntered(c)
    BY <2>4, OwnsFrame DEF CMEntered, Return, Goto, Typed, TypeOK
  <2>5. CASE CMLeave(c)
    BY <2>5, OwnsFrame DEF CMLeave, Handle, Goto, Typed, TypeOK
  <2>6. CASE CMLeft(c)
    BY <2>6, OwnsFrame DEF CMLeft, Return, Goto, Typed, TypeOK
  <2>7. CASE CMChat(c)
    BY <2>7, OwnsFrame DEF CMChat, Handle, Goto, Typed, TypeOK
  <2>8. CASE CMCommandPopular(c)
    BY <2>8, OwnsFrame DEF CMCommandPopular, Handle, Goto, Typed, TypeOK
  <2>9. CASE CMCommandPopularEnd(c)
    BY <2>9, OwnsFrame DEF CMCommandPopularEnd, Return, Goto, Typed, TypeOK
  <2>10. CASE CMCommandStats(c)
    BY <2>10, OwnsFrame DEF CMCommandStats, Handle, Typed, TypeOK
  <2>11. CASE HandlerExit(c)
    BY <2>11, OwnsFrame DEF HandlerExit, Typed, TypeOK
  <2> QED
    BY <1>4, <2>1, <2>2, <2>3, <2>4, <2>5, <2>6, <2>7, <2>8, <2>9,
       <2>10, <2>11 DEF HandlerStep
<1>5. ASSUME NEW c \in Users, BlockedSend(c)
      PROVE  Owns'
  <2>1. CASE CMChatSend(c)
    BY <2>1, OwnsFrame DEF CMChatSend, Return, Goto, Typed, TypeOK
  <2>2. ASSUME NEW r \in Rooms, RoomEntering(r, c)
        PROVE  Owns'
    BY <2>2, OwnsFrame DEF RoomEntering, Work, Typed, TypeOK
  <2>3. ASSUME NEW r \in Rooms, RoomLeaving(r, c)
        PROVE  Owns'
    BY <2>3, OwnsFrame DEF RoomLeaving, Work, Typed, TypeOK
  <2> QED
    BY <1>5, <2>1, <2>2, <2>3 DEF BlockedSend
<1>6. ASSUME NEW c \in Users, CloserStep(c)
      PROVE  Owns'
  <2>1. CASE Logout(c)
    BY <2>1, OwnsFrame DEF Logout, Typed, TypeOK
  <2>2. CASE LogoutDelete(c)
    BY <2>2, LogoutDeleteOwns
  <2> QED
    BY <1>6, <2>1, <2>2 DEF CloserStep
<1>7. ASSUME NEW r \in Rooms, RoomStep(r)
      PROVE  Owns'
  <2>1. CASE RoomEnter(r)
    BY <2>1, OwnsFrame DEF RoomEnter
  <2>2. CASE RoomLeave(r)
    BY <2>2, OwnsFrame DEF RoomLeave
  <2>3. CASE RoomBroadcast(r)
    BY <2>3, OwnsFrame DEF RoomBroadcast
  <2> QED
    BY <1>7, <2>1, <2>2, <2>3 DEF RoomStep
<1>8. ASSUME NEW r \in Rooms, RoomMessage(r)
      PROVE  Owns'
  BY <1>8, OwnsFrame DEF RoomMessage, Work
<1>9. ASSUME NEW r \in Rooms, RoomClosed(r)
      PROVE  Owns'
  BY <1>9, OwnsFrame DEF RoomClosed
<1>10. ASSUME MainStep
      PROVE  Owns'
  <2>1. ASSUME NEW r \in Rooms, CloseRoom(r)
        PROVE  Owns'
    BY <2>1, OwnsFrame DEF CloseRoom
  <2>2. CASE Exit
    BY <2>2, OwnsFrame DEF Exit
  <2> QED
    BY <1>10, <2>1, <2>2 DEF MainStep
<1>11. ASSUME Signal
      PROVE  Owns'
  BY <1>11, OwnsFrame DEF Signal
<1>12. CASE UNCHANGED vars
  BY <1>12, OwnsFrame DEF vars
<1> QED
  BY <1>1, <1>2, <1>3, <1>4, <1>5, <1>6, <1>7, <1>8, <1>9, <1>10, <1>11, <1>12 DEF Next

\* However the requests, the logins and the logouts of any number of clients
\* interleave, and whatever clients send, a connected user that has a nickname
\* is the one registered under it: no two connected users share one
\* (room.go:43-46, 49-54; server.go:45-56).
THEOREM NickUniqueness == Spec => []NickUnique
<1>1. Init => Typed /\ Owns
  BY TypedInit DEF Init, Owns
<1>2. Typed /\ Owns /\ [Next]_vars => (Typed /\ Owns)'
  BY TypedNext, OwnsNext
<1>3. Typed /\ Owns => NickUnique
  BY DEF Owns, Released, NickUnique, Closed
<1>4. QED
  BY <1>1, <1>2, <1>3, PTL DEF Spec
===============================================================================
