---------------------------- MODULE ChatRoomsProofs ----------------------------
(***************************************************************************)
(* Proofs about ChatServer: where the users of the console client are, for *)
(* any number of connections, names and rooms, any capacities, and clients *)
(* of any make beside them; from it, that ChatServer implements module     *)
(* Lobby; and that the console client is answered.                         *)
(***************************************************************************)
EXTENDS ChatServerProofs

Console == Users \ Foreign

-----------------------------------------------------------------------------
(* The inductive invariant.  OneRoom and its companions hold because the   *)
(* console client waits for its answers: an enter reaches the handle loop  *)
(* only when no room can list the user any more.  So the invariant follows *)
(* the conversation of each client, by what the client is doing, through   *)
(* both streams and the handle loop (Conversation), and relates it to the  *)
(* rooms and to the nicknames (Place).                                     *)

Only(s, S)   == \A i \in 1 .. Len(s) : s[i] \in S
Once(s, x)   == \A i, j \in 1 .. Len(s) : s[i] = x /\ s[j] = x => i = j
AtEnd(s, x)  == \A i \in 1 .. Len(s) : s[i] = x => i = Len(s)
Asks(kinds)  == { m \in Msgs : m.op \in kinds }
Queries      == {"history", "stats", "popular"}

\* Not connected yet.
OffOK(c) ==
  /\ recvChan[c] = <<>> /\ sendChan[c] = <<>> /\ hpc[c] = "idle" /\ ~Closed(c)
  /\ nick[c] = NoName /\ roomId[c] = NoRoom

\* One login is on its way, or its answer.  The user has a nickname once the
\* answer says so.
LoginOK(c) ==
  /\ roomId[c] = NoRoom /\ hpc[c] \in {"idle", "named", "done"}
  /\ Only(recvChan[c], { LoginMsg(n) : n \in Names })
  /\ Only(sendChan[c], IF nick[c] = NoName THEN {"NICK_NAME_EXIST"} ELSE {"LOGIN_OK"})
  /\ Len(recvChan[c]) # 0 => /\ Len(recvChan[c]) = 1 /\ Len(sendChan[c]) = 0
                             /\ nick[c] = NoName
  /\ Len(sendChan[c]) # 0 => Len(sendChan[c]) = 1
  /\ hpc[c] = "named" => /\ Len(recvChan[c]) = 0 /\ Len(sendChan[c]) = 0
                         /\ nick[c] = NoName /\ hreq[c].name \in Names

\* One enter is on its way, or its answer with the history in front of it or
\* behind it.  The user has no room before the answer is sent.
EnterOK(c) ==
  /\ hpc[c] \in {"idle", "entering", "entered", "done"}
  /\ Only(recvChan[c], { EnterMsg(r) : r \in RoomIds })
  /\ Len(recvChan[c]) # 0 =>
       /\ Len(recvChan[c]) = 1 /\ Len(sendChan[c]) = 0
       /\ roomId[c] = NoRoom /\ hpc[c] \notin {"entering", "entered"}
  /\ hpc[c] \in {"entering", "entered"} => roomId[c] = NoRoom
  /\ hpc[c] = "entering" => Len(sendChan[c]) = 0
  /\ hpc[c] = "entered" => Only(sendChan[c], {"history"})
  /\ roomId[c] = NoRoom /\ hpc[c] # "entered" =>
       /\ Only(sendChan[c], {"INVALID_ROOM_ID"})
       /\ Len(sendChan[c]) # 0 => Len(sendChan[c]) = 1
  /\ roomId[c] # NoRoom =>
       Only(sendChan[c], {"ENTER_OK", "history"}) /\ Once(sendChan[c], "ENTER_OK")

\* In a room: no login, enter or leave is under way.
TypingOK(c) ==
  /\ roomId[c] # NoRoom /\ hpc[c] \in {"idle", "sending", "popular", "done"}
  /\ Only(recvChan[c], Asks({"chat", "stats", "popular"}))
  /\ Only(sendChan[c], Queries)

\* A leave is the last request, or its answer the last reply: behind it
\* nothing is under way.
LeaveOK(c) ==
  /\ hpc[c] \in {"idle", "sending", "popular", "leaving", "left", "done"}
  /\ Only(recvChan[c], Asks({"chat", "stats", "popular", "leave"}))
  /\ AtEnd(recvChan[c], LeaveMsg)
  /\ hpc[c] \in {"leaving", "left"} => Len(recvChan[c]) = 0
  /\ Only(sendChan[c], IF roomId[c] = NoRoom THEN Queries \cup {"LEAVE_OK"} ELSE Queries)
  /\ AtEnd(sendChan[c], "LEAVE_OK")
  /\ roomId[c] = NoRoom => Len(recvChan[c]) = 0 /\ hpc[c] \in {"idle", "done"}

Conversation(c) ==
  /\ client[c] # "foreign"
  /\ hpc[c] = "done" => Closed(c)
  /\ Closed(c) => sendChan[c] = <<>>
  /\ client[c] \notin {"off", "loginWait"} => nick[c] # NoName
  /\ client[c] = "off" => OffOK(c)
  /\ client[c] = "loginWait" => LoginOK(c)
  /\ client[c] = "enterWait" => EnterOK(c)
  /\ client[c] = "typing" => TypingOK(c)
  /\ client[c] = "leaveWait" => LeaveOK(c)

\* A room that has c, or is about to, is the one of its room id, except
\* between the two halves of an enter; the entry is under its nickname.
RoomOK(c) ==
  /\ \A r \in Rooms : In(c, r) => \/ roomId[c] = r /\ hpc[c] # "left"
                                  \/ hpc[c] = "entered" /\ hreq[c].room = r
  /\ \A r \in Rooms : \A n \in Keys : usersMap[r][n] = c => n = nick[c] /\ n # NoName

\* A closer that found a room id: no enter is under way, and once a room has
\* its leave the user is in no room.
CloserOK(c) ==
  croom[c] # NoRoom =>
    /\ client[c] \in {"enterWait", "typing", "leaveWait"}
    /\ client[c] = "enterWait" => Len(recvChan[c]) = 0 /\ hpc[c] \in {"idle", "done"}
    /\ roomId[c] \in {croom[c], NoRoom}
    /\ closer[c] \in {"delete", "done"} => \A r \in Rooms : ~In(c, r)

\* The names registered for c: its nickname, or the one it is about to get.
NamesOK(c) ==
  \A n \in Keys : allUsersMap[n] = c =>
    /\ ~Released(c) /\ n # NoName
    /\ n = nick[c] \/ (hpc[c] = "named" /\ n = hreq[c].name)

Place(c) == RoomOK(c) /\ CloserOK(c) /\ NamesOK(c)

Tracked == \A c \in Console : Conversation(c) /\ Place(c)

-----------------------------------------------------------------------------
(* What Only, Once and AtEnd are after a step of a queue.                   *)

LEMMA EmptyQueue ==
  ASSUME NEW T, NEW s \in Seq(T)
  PROVE  s = <<>> <=> Len(s) = 0
OBVIOUS

LEMMA Appended ==
  ASSUME NEW T, NEW s \in Seq(T), NEW m \in T, NEW S, NEW x
  PROVE  LET t == Append(s, m)
         IN  /\ t \in Seq(T) /\ Len(t) = Len(s) + 1
             /\ Only(s, S) /\ m \in S => Only(t, S)
             /\ Only(s, S) /\ x \notin S => Once(t, x) /\ AtEnd(t, x)
             /\ Once(s, x) /\ m # x => Once(t, x)
BY DEF Only, Once, AtEnd

LEMMA Taken ==
  ASSUME NEW T, NEW s \in Seq(T), s # <<>>, NEW S, NEW x
  PROVE  LET t == Tail(s)
         IN  /\ t \in Seq(T) /\ Len(t) = Len(s) - 1
             /\ Only(s, S) => Only(t, S) /\ Head(s) \in S
             /\ Once(s, x) => Once(t, x)
             /\ Once(s, x) /\ Head(s) = x => Only(t, T \ {x})
             /\ AtEnd(s, x) => AtEnd(t, x) /\ (Head(s) = x => Len(s) = 1)
<1>1. Len(s) \in Nat /\ Len(s) > 0 /\ Head(s) = s[1]
  OBVIOUS
<1>2. /\ Tail(s) \in Seq(T) /\ Len(Tail(s)) = Len(s) - 1
      /\ \A i \in 1 .. Len(Tail(s)) : Tail(s)[i] = s[i + 1] /\ i + 1 \in 1 .. Len(s)
  BY <1>1
<1>3. \A i \in 1 .. Len(Tail(s)) : Tail(s)[i] \in T
  BY <1>2
<1>4. Only(s, S) => Only(Tail(s), S) /\ Head(s) \in S
  BY <1>1, <1>2 DEF Only
<1>5. Once(s, x) => Once(Tail(s), x)
  BY <1>1, <1>2 DEF Once
<1>6. Once(s, x) /\ Head(s) = x => Only(Tail(s), T \ {x})
  <2>1. ASSUME Once(s, x), Head(s) = x, NEW i \in 1 .. Len(Tail(s))
        PROVE  Tail(s)[i] # x
    BY <1>1, <1>2, <2>1 DEF Once
  <2>2. QED
    BY <1>3, <2>1 DEF Only
<1>7. AtEnd(s, x) => AtEnd(Tail(s), x) /\ (Head(s) = x => Len(s) = 1)
  <2>1. ASSUME AtEnd(s, x), NEW i \in 1 .. Len(Tail(s)), Tail(s)[i] = x
        PROVE  i = Len(Tail(s))
    <3>1. s[i + 1] = x /\ i + 1 \in 1 .. Len(s)
      BY <1>2, <2>1
    <3>2. i + 1 = Len(s)
      BY <2>1, <3>1 DEF AtEnd
    <3>3. i \in Int /\ Len(s) \in Int /\ Len(Tail(s)) = Len(s) - 1
      BY <1>1, <1>2, <2>1
    <3>4. QED
      BY <3>2, <3>3
  <2>2. ASSUME AtEnd(s, x), Head(s) = x
        PROVE  Len(s) = 1
    <3>1. 1 \in 1 .. Len(s) /\ s[1] = x
      BY <1>1, <2>2
    <3>2. QED
      BY <2>2, <3>1 DEF AtEnd
  <2>3. QED
    BY <2>1, <2>2 DEF AtEnd
<1>8. QED
  BY <1>2, <1>4, <1>5, <1>6, <1>7


-----------------------------------------------------------------------------
(* The steps of the others.                                                *)

Local(d) == <<client[d], recvChan[d], sendChan[d], hpc[d], hreq[d], nick[d], roomId[d],
              closer[d], croom[d]>>

\* A step that takes user d into no room and gives it no name.
GivesNothing(d) ==
  /\ \A r \in Rooms : In(d, r)' => In(d, r)
  /\ \A r \in Rooms : \A n \in Keys : usersMap'[r][n] = d => usersMap[r][n] = d
  /\ \A n \in Keys : allUsersMap'[n] = d => allUsersMap[n] = d

\* What is known of d survives a step that leaves d alone.
LEMMA ConversationFrame ==
  ASSUME NEW d \in Users, Conversation(d), UNCHANGED Local(d)
  PROVE  Conversation(d)'
BY DEF Conversation, OffOK, LoginOK, EnterOK, TypingOK, LeaveOK, Closed, Local

LEMMA PlaceFrame ==
  ASSUME NEW d \in Users, Place(d), UNCHANGED Local(d), GivesNothing(d)
  PROVE  Place(d)'
<1> USE DEF Local, GivesNothing
<1>1. RoomOK(d)'
  BY DEF Place, RoomOK
<1>2. CloserOK(d)'
  BY DEF Place, CloserOK
<1>3. NamesOK(d)'
  BY DEF Place, NamesOK, Released
<1>4. QED
  BY <1>1, <1>2, <1>3 DEF Place

\* A step that moves no user between rooms and no name.
LEMMA QuietStep ==
  ASSUME NEW d \in Users, UNCHANGED <<room, job, usersMap, allUsersMap>>
  PROVE  GivesNothing(d) /\ \A r \in Rooms : In(d, r)' <=> In(d, r)
BY DEF GivesNothing, In, Member

\* Moving a room goroutine out of its select touches only the user it took.
LEMMA WorkIn ==
  ASSUME Typed, NEW r \in Rooms, NEW c \in Users, NEW d \in Users, d # c,
         Work(r, "enter", c) \/ Work(r, "leave", c), UNCHANGED usersMap
  PROVE  \A s \in Rooms : In(d, s)' <=> In(d, s)
<1>1. PICK p \in {"enter", "leave"} :
        room' = [room EXCEPT ![r] = p] /\ job' = [job EXCEPT ![r] = c] /\ room[r] = "select"
  BY DEF Work
<1>2. ASSUME NEW s \in Rooms
      PROVE  In(d, s)' <=> In(d, s)
  <2>1. CASE s = r
    BY <1>1, <2>1 DEF In, Member, Typed, TypeOK
  <2>2. CASE s # r
    BY <1>1, <2>2 DEF In, Member, Typed, TypeOK
  <2>3. QED
    BY <2>1, <2>2
<1>3. QED
  BY <1>2

\* What EXCEPT needs to know of the variables with an entry for each user.
LEMMA Domains ==
  ASSUME Typed
  PROVE  /\ DOMAIN client = Users /\ DOMAIN recvChan = Users /\ DOMAIN sendChan = Users
         /\ DOMAIN hpc = Users /\ DOMAIN hreq = Users /\ DOMAIN nick = Users
         /\ DOMAIN roomId = Users /\ DOMAIN closer = Users /\ DOMAIN croom = Users
         /\ DOMAIN allUsersMap = Keys
BY DEF Typed, TypeOK

\* What client, handle loop and closer of c do.
Actor(c) ==
  Environment(c) \/ ReplyStep(c) \/ WriteBuff(c) \/ HandlerStep(c) \/ BlockedSend(c)
    \/ CloserStep(c)

\* They leave every other user as it is, and give it no room and no name.
LEMMA ActorSpares ==
  ASSUME Typed, NEW c \in Users, Actor(c), NEW d \in Users, d # c
  PROVE  UNCHANGED Local(d) /\ GivesNothing(d)
<1> USE DEF Local, mainVars, roomVars, userVars, hVars, closeVars, outVars, cliVars
<1>1. CASE Environment(c)
  <2>1. SUFFICES UNCHANGED <<room, job, usersMap, allUsersMap>> /\ UNCHANGED Local(d)
    BY QuietStep
  <2>2. ASSUME NEW n \in Names, Connect(c, n)
        PROVE  UNCHANGED <<room, job, usersMap, allUsersMap>> /\ UNCHANGED Local(d)
    BY <2>2, Domains DEF Connect, ClientSend
  <2>3. CASE Type(c)
    BY <2>3, Domains DEF Type, ClientSend
  <2>4. CASE ClientAny(c)
    BY <2>4, Domains DEF ClientAny, ClientSend
  <2>5. CASE Disconnect(c)
    BY <2>5 DEF Disconnect, Typed, TypeOK
  <2>6. QED
    BY <1>1, <2>2, <2>3, <2>4, <2>5 DEF Environment
<1>2. CASE ReplyStep(c)
  <2>1. PICK m \in Replies : TakeReply(c, m)
    BY <1>2 DEF ReplyStep, SMRespLogin, SMRespLoginAgain, SMRespEnter,
               SMRespEnterAgain, SMRespLeave, SMDisplay, Replies
  <2>2. recvChan'[d] = recvChan[d] /\ client'[d] = client[d]
    BY <1>2 DEF ReplyStep, SMRespLogin, SMRespLoginAgain, SMRespEnter,
               SMRespEnterAgain, SMRespLeave, SMDisplay, ClientSend, Typed, TypeOK
  <2>3. UNCHANGED <<room, job, usersMap, allUsersMap>> /\ UNCHANGED Local(d)
    BY <2>1, <2>2 DEF TakeReply, Typed, TypeOK
  <2>4. QED
    BY <2>3, QuietStep
<1>3. CASE WriteBuff(c)
  BY <1>3, QuietStep DEF WriteBuff
<1>4. CASE HandlerStep(c)
  <2>1. CASE CMLogin(c)
    <3>1. UNCHANGED Local(d)
      BY <2>1, Domains DEF CMLogin, Handle, Goto, Reply
    <3>2. UNCHANGED <<room, job, usersMap>>
      BY <2>1 DEF CMLogin, Handle
    <3>3. \A s \in Rooms : In(d, s)' <=> In(d, s)
      BY <3>2 DEF In, Member
    <3>4. \A n \in Keys : allUsersMap'[n] = d => allUsersMap[n] = d
      BY <2>1 DEF CMLogin, Typed, TypeOK
    <3>5. QED
      BY <3>1, <3>2, <3>3, <3>4 DEF GivesNothing
  <2>2. CASE HandlerStep(c) /\ ~CMLogin(c)
    <3>1. SUFFICES /\ UNCHANGED <<room, job, usersMap, allUsersMap>>
                   /\ UNCHANGED Local(d)
      BY QuietStep
    <3>2. CASE CMLoginStored(c) \/ CMEntered(c) \/ CMLeft(c) \/ CMCommandPopularEnd(c)
      BY <3>2, Domains DEF CMLoginStored, CMEntered, CMLeft, CMCommandPopularEnd,
                  Return, Goto, Reply
    <3>3. CASE CMEnter(c) \/ CMLeave(c) \/ CMChat(c) \/ CMCommandPopular(c)
                 \/ CMCommandStats(c)
      BY <3>3, Domains DEF CMEnter, CMLeave, CMChat, CMCommandPopular, CMCommandStats,
                  Handle, Goto, Reply
    <3>4. CASE HandlerExit(c)
      BY <3>4, Domains DEF HandlerExit
    <3>5. QED
      BY <2>2, <3>2, <3>3, <3>4 DEF HandlerStep
  <2>3. QED
    BY <1>4, <2>1, <2>2
<1>5. CASE BlockedSend(c)
  <2>1. CASE CMChatSend(c)
    <3>1. UNCHANGED Local(d)
      BY <2>1 DEF CMChatSend, Return, Goto, Typed, TypeOK
    <3>2. UNCHANGED <<room, job, usersMap, allUsersMap>>
      BY <2>1 DEF CMChatSend
    <3>3. QED
      BY <3>1, <3>2, QuietStep
  <2>2. ASSUME NEW r \in Rooms, RoomEntering(r, c)
        PROVE  UNCHANGED Local(d) /\ GivesNothing(d)
    BY <2>2, WorkIn DEF RoomEntering, GivesNothing, Typed, TypeOK
  <2>3. ASSUME NEW r \in Rooms, RoomLeaving(r, c)
        PROVE  UNCHANGED Local(d) /\ GivesNothing(d)
    BY <2>3, WorkIn DEF RoomLeaving, GivesNothing, Typed, TypeOK
  <2>4. QED
    BY <1>5, <2>1, <2>2, <2>3 DEF BlockedSend
<1>6. CASE CloserStep(c)
  <2>1. UNCHANGED Local(d)
    BY <1>6 DEF CloserStep, Logout, LogoutDelete, Typed, TypeOK
  <2>2. UNCHANGED <<room, job, usersMap>>
    BY <1>6 DEF CloserStep, Logout, LogoutDelete
  <2>3. \A s \in Rooms : In(d, s)' <=> In(d, s)
    BY <2>2 DEF In, Member
  <2>4. \A n \in Keys : allUsersMap'[n] = d => allUsersMap[n] = d
    BY <1>6, UsersAssumption DEF CloserStep, Logout, LogoutDelete, Typed, TypeOK
  <2>5. QED
    BY <2>1, <2>2, <2>3, <2>4 DEF GivesNothing
<1>7. QED
  BY <1>1, <1>2, <1>3, <1>4, <1>5, <1>6 DEF Actor

\* What the goroutine of room r and main do, apart from a room's entering case.
Rest(r) == RoomLeave(r) \/ RoomBroadcast(r) \/ RoomMessage(r) \/ RoomClosed(r)

\* A room that has ended a case, or taken a chat, has nobody more than before.
LEMMA RoomIn ==
  ASSUME Typed, NEW r \in Rooms, NEW d \in Users, NEW p \in {"select", "record", "closed", "dead"},
         room' = [room EXCEPT ![r] = p], \A s \in Rooms \ {r} : job'[s] = job[s],
         \A s \in Rooms \ {r} : usersMap'[s] = usersMap[s],
         Member(d, r)' => In(d, r)
  PROVE  \A s \in Rooms : In(d, s)' => In(d, s)
<1>1. ASSUME NEW s \in Rooms
      PROVE  In(d, s)' => In(d, s)
  <2>1. CASE s = r
    BY <2>1 DEF In, Typed, TypeOK
  <2>2. CASE s # r
    BY <2>2 DEF In, Member, Typed, TypeOK
  <2>3. QED
    BY <2>1, <2>2
<1>2. QED
  BY <1>1

\* They leave every user as it is, in no room it was not in before.  The entry
\* of a leaving user is under its nickname, so it goes with the leave.
LEMMA RestSpares ==
  ASSUME Typed, NEW r \in Rooms, Rest(r), NEW d \in Users,
         \A n \in Keys : usersMap[r][n] = d /\ job[r] = d => n = nick[d]
  PROVE  UNCHANGED Local(d) /\ GivesNothing(d)
<1> USE DEF mainVars, roomVars, userVars, hVars, closeVars, outVars, cliVars
<1>1. UNCHANGED Local(d) /\ UNCHANGED allUsersMap
  BY DEF Rest, RoomLeave, RoomBroadcast, RoomMessage, RoomClosed, Local
<1>2. CASE RoomLeave(r)
  <2>1. PICK p \in {"select", "dead"} : /\ room' = [room EXCEPT ![r] = p]
                                       /\ job' = [job EXCEPT ![r] = NoUser]
    BY <1>2 DEF RoomLeave, NextCase
  <2>2. /\ usersMap' = [usersMap EXCEPT ![r] = [usersMap[r] EXCEPT ![nick[job[r]]] = NoUser]]
        /\ room[r] = "leave" /\ job[r] \in Users
    BY <1>2 DEF RoomLeave, Typed, PcOK
  <2>3. \A s \in Rooms : \A n \in Keys : usersMap'[s][n] = d => usersMap[s][n] = d
    BY <2>2, UsersAssumption DEF Typed, TypeOK
  <2>4. Member(d, r)' => In(d, r)
    BY <2>2, UsersAssumption DEF Member, In, Typed, TypeOK
  <2>5. \A s \in Rooms \ {r} : job'[s] = job[s] /\ usersMap'[s] = usersMap[s]
    BY <2>1, <2>2 DEF Typed, TypeOK
  <2>6. QED
    BY <1>1, <2>1, <2>3, <2>4, <2>5, RoomIn DEF GivesNothing
<1>3. CASE RoomBroadcast(r) \/ RoomMessage(r) \/ RoomClosed(r)
  <2>1. PICK p \in {"select", "record", "closed"} : room' = [room EXCEPT ![r] = p]
    BY <1>3 DEF RoomBroadcast, NextCase, RoomMessage, Work, RoomClosed
  <2>2. usersMap' = usersMap /\ \A s \in Rooms \ {r} : job'[s] = job[s]
    BY <1>3 DEF RoomBroadcast, NextCase, RoomMessage, Work, RoomClosed, Typed, TypeOK
  <2>3. room[r] # "leave"
    BY <1>3 DEF RoomBroadcast, RoomMessage, Work, RoomClosed
  <2>4. Member(d, r)' => In(d, r)
    BY <2>2, <2>3 DEF Member, In
  <2>5. QED
    BY <1>1, <2>1, <2>2, <2>4, RoomIn DEF GivesNothing
<1>4. QED
  BY <1>2, <1>3 DEF Rest

\* The history put behind a queue of replies.
LEMMA HistoryBehind ==
  ASSUME NEW s \in Seq(Replies), NEW k \in Nat, NEW S, NEW x
  PROVE  LET t == s \o [i \in 1 .. k |-> "history"]
         IN  /\ Len(t) = Len(s) + k
             /\ Only(s, S) /\ "history" \in S => Only(t, S)
             /\ Once(s, x) /\ x # "history" => Once(t, x)
             /\ k = 0 /\ s = <<>> => t = <<>>
<1> DEFINE h == [i \in 1 .. k |-> "history"]
<1>1. h \in Seq(Replies) /\ Len(h) = k /\ \A i \in 1 .. k : h[i] = "history"
  BY DEF Replies
<1> HIDE DEF h
<1>2. Len(s) \in Nat /\ Len(s \o h) = Len(s) + k
  BY <1>1
<1>3. \A i \in 1 .. Len(s \o h) : \/ /\ i \in 1 .. Len(s) /\ (s \o h)[i] = s[i]
                                  \/ /\ i \notin 1 .. Len(s) /\ (s \o h)[i] = "history"
  <2>1. ASSUME NEW i \in 1 .. Len(s \o h), i \notin 1 .. Len(s)
        PROVE  (s \o h)[i] = "history"
    <3>1. (s \o h)[i] = h[i - Len(s)] /\ i - Len(s) \in 1 .. k
      BY <1>1, <1>2, <2>1
    <3>2. QED
      BY <1>1, <3>1
  <2>2. \A i \in 1 .. Len(s) : (s \o h)[i] = s[i]
    BY <1>1
  <2>3. QED
    BY <2>1, <2>2
<1>4. Only(s, S) /\ "history" \in S => Only(s \o h, S)
  BY <1>3 DEF Only
<1>5. Once(s, x) /\ x # "history" => Once(s \o h, x)
  <2>1. ASSUME Once(s, x), x # "history", NEW i \in 1 .. Len(s \o h),
               NEW j \in 1 .. Len(s \o h), (s \o h)[i] = x, (s \o h)[j] = x
        PROVE  i = j
    <3>1. i \in 1 .. Len(s) /\ s[i] = x /\ j \in 1 .. Len(s) /\ s[j] = x
      BY <1>3, <2>1
    <3>2. QED
      BY <2>1, <3>1 DEF Once
  <2>2. QED
    BY <2>1 DEF Once
<1>6. k = 0 /\ s = <<>> => s \o h = <<>>
  <2>1. ASSUME k = 0, s = <<>>
        PROVE  s \o h = <<>>
    <3>1. s \o h \in Seq(Replies) /\ Len(s \o h) = 0
      BY <1>1, <1>2, <2>1
    <3>2. QED
      BY <3>1, EmptyQueue
  <2>2. QED
    BY <2>1
<1>7. QED
  BY <1>2, <1>4, <1>5, <1>6 DEF h

\* What a user that a room has taken, or has as a member, is doing.
LEMMA InRoom ==
  ASSUME Typed, NEW c \in Users, Conversation(c), Place(c), NEW r \in Rooms, In(c, r)
  PROVE  /\ client[c] \in {"enterWait", "typing", "leaveWait"}
         /\ nick[c] # NoName
         /\ \/ hpc[c] = "entered" /\ client[c] = "enterWait" /\ hreq[c].room = r
            \/ hpc[c] # "entered" /\ roomId[c] = r
<1>1. \/ roomId[c] = r /\ roomId[c] # NoRoom /\ hpc[c] # "left"
      \/ hpc[c] = "entered" /\ hreq[c].room = r
  BY RoomsAssumption DEF Place, RoomOK
<1>2. client[c] \notin {"off", "loginWait"}
  BY <1>1 DEF Conversation, OffOK, LoginOK
<1>3. client[c] \in {"enterWait", "typing", "leaveWait"}
  BY <1>2 DEF Typed, TypeOK, Conversation
<1>4. hpc[c] = "entered" => client[c] = "enterWait" /\ roomId[c] = NoRoom
  BY <1>3 DEF Conversation, EnterOK, TypingOK, LeaveOK
<1>5. QED
  BY <1>1, <1>2, <1>3, <1>4 DEF Conversation

\* The entering case of a room: its user gets an entry and the history.
LEMMA RoomEnterIn ==
  ASSUME Typed, NEW r \in Rooms, RoomEnter(r), NEW d \in Users
  PROVE  \A s \in Rooms : In(d, s)' => In(d, s)
<1>1. PICK p \in {"select", "dead"} : /\ room' = [room EXCEPT ![r] = p]
                                     /\ job' = [job EXCEPT ![r] = NoUser]
  BY DEF RoomEnter, NextCase
<1>2. /\ usersMap' = [usersMap EXCEPT ![r] = [usersMap[r] EXCEPT ![nick[job[r]]] =
                                                IF @ = NoUser THEN job[r] ELSE @]]
      /\ room[r] = "enter" /\ job[r] \in Users
  BY DEF RoomEnter, Typed, PcOK
<1>3. Member(d, r)' => In(d, r)
  <2>1. CASE d = job[r]
    BY <1>2, <2>1 DEF In
  <2>2. CASE d # job[r]
    BY <1>2, <2>2 DEF Member, In, Typed, TypeOK
  <2>3. QED
    BY <2>1, <2>2
<1>4. \A s \in Rooms \ {r} : job'[s] = job[s] /\ usersMap'[s] = usersMap[s]
  BY <1>1, <1>2 DEF Typed, TypeOK
<1>5. QED
  BY <1>1, <1>3, <1>4, RoomIn

LEMMA RoomEnterSpares ==
  ASSUME Typed, NEW r \in Rooms, RoomEnter(r), NEW d \in Users, d # job[r]
  PROVE  UNCHANGED Local(d) /\ GivesNothing(d)
<1> USE DEF mainVars, roomVars, userVars, hVars, closeVars, outVars, cliVars
<1>1. UNCHANGED Local(d) /\ UNCHANGED allUsersMap
  BY Domains DEF RoomEnter, SendHistory, Local
<1>2. usersMap' = [usersMap EXCEPT ![r] = [usersMap[r] EXCEPT ![nick[job[r]]] =
                                              IF @ = NoUser THEN job[r] ELSE @]]
  BY DEF RoomEnter
<1>3. \A s \in Rooms : \A n \in Keys : usersMap'[s][n] = d => usersMap[s][n] = d
  BY <1>2 DEF Typed, TypeOK
<1>4. QED
  BY <1>1, <1>3, RoomEnterIn DEF GivesNothing

LEMMA RoomEnterTracked ==
  ASSUME Typed, NEW r \in Rooms, RoomEnter(r), NEW c \in Console, c = job[r],
         Conversation(c), Place(c)
  PROVE  (Conversation(c) /\ Place(c))'
<1> DEFINE k == HistoryTaken(c, Cardinality(Stored(offlineMsg[r])))
<1>1. /\ UNCHANGED <<client, recvChan, hpc, hreq, nick, roomId, closer, croom, allUsersMap>>
      /\ sendChan' = [sendChan EXCEPT ![c] = @ \o [i \in 1 .. k |-> "history"]]
      /\ In(c, r) /\ c \in Users
  BY DEF RoomEnter, SendHistory, In, Console, userVars, hVars, closeVars, cliVars
<1>2. k \in Nat /\ (Closed(c) => k = 0)
  <2>1. Cardinality(Stored(offlineMsg[r])) \in Nat
    <3>1. IsFiniteSet(1 .. MaxOffline)
      BY BoundsAssumption, FS_Interval
    <3>2. QED
      BY <3>1, FS_Subset, FS_CardinalityType DEF Stored
  <2>2. QED
    BY <1>1, <2>1, BoundsAssumption DEF HistoryTaken, Typed, TypeOK
<1> HIDE DEF k
<1>3. /\ sendChan'[c] = sendChan[c] \o [i \in 1 .. k |-> "history"]
      /\ sendChan[c] \in Seq(Replies)
  BY <1>1 DEF Typed, TypeOK
<1>4. /\ client[c] \in {"enterWait", "typing", "leaveWait"} /\ nick[c] # NoName
      /\ \/ hpc[c] = "entered" /\ client[c] = "enterWait"
         \/ hpc[c] # "entered" /\ roomId[c] = r
  BY <1>1, InRoom
<1>5. /\ \A S : Only(sendChan[c], S) /\ "history" \in S => Only(sendChan'[c], S)
      /\ Once(sendChan[c], "ENTER_OK") => Once(sendChan'[c], "ENTER_OK")
      /\ k = 0 /\ sendChan[c] = <<>> => sendChan'[c] = <<>>
  BY ZenonT(40), <1>2, <1>3, HistoryBehind
<1>6. Conversation(c)'
  <2>1. CASE client[c] = "enterWait"
    BY SMTT(30), <1>1, <1>2, <1>4, <1>5, <2>1, RoomsAssumption DEF Conversation, EnterOK, Closed
  <2>2. CASE client[c] = "typing"
    BY <1>1, <1>2, <1>4, <1>5, <2>2, RoomsAssumption DEF Conversation, TypingOK, Closed, Queries
  <2>3. CASE client[c] = "leaveWait"
    <3>1. LeaveOK(c) /\ roomId[c] # NoRoom
      BY <1>4, <2>3, RoomsAssumption DEF Conversation
    <3>2. Only(sendChan'[c], Queries)
      BY <1>5, <3>1 DEF LeaveOK, Queries
    <3>3. AtEnd(sendChan'[c], "LEAVE_OK")
      BY <3>2 DEF Only, AtEnd, Queries
    <3>4. LeaveOK(c)'
      BY <1>1, <3>1, <3>2, <3>3 DEF LeaveOK
    <3>5. QED
      BY <1>1, <1>2, <1>5, <2>3, <3>4 DEF Conversation, Closed
  <2>4. QED
    BY <1>4, <2>1, <2>2, <2>3
<1>7. Place(c)'
  <2>1. usersMap' = [usersMap EXCEPT ![r] = [usersMap[r] EXCEPT ![nick[c]] =
                                                IF @ = NoUser THEN c ELSE @]]
    BY DEF RoomEnter
  <2>2. RoomOK(c)'
    BY <1>1, <1>4, <2>1, RoomEnterIn DEF Place, RoomOK, Typed, TypeOK
  <2>3. CloserOK(c)'
    BY <1>1, RoomEnterIn DEF Place, CloserOK
  <2>4. NamesOK(c)'
    BY <1>1 DEF Place, NamesOK, Released
  <2>5. QED
    BY <2>2, <2>3, <2>4 DEF Place
<1>8. QED
  BY <1>6, <1>7

-----------------------------------------------------------------------------
(* The steps of a console user itself: its client.                         *)

\* A request put on its stream, a reply put on its.
LEMMA Sent ==
  ASSUME Typed, NEW c \in Users, NEW m \in Msgs, ClientSend(c, m), NEW S, NEW x
  PROVE  /\ Len(recvChan[c]) = 0 => Len(recvChan'[c]) = 1
         /\ Only(recvChan[c], S) /\ m \in S => Only(recvChan'[c], S)
         /\ Only(recvChan[c], S) /\ x \notin S => AtEnd(recvChan'[c], x)
<1>1. recvChan[c] \in Seq(Msgs) /\ Len(recvChan[c]) \in Nat
  BY DEF Typed, TypeOK
<1>2. recvChan'[c] = IF Len(recvChan[c]) >= PipeCap THEN recvChan[c]
                     ELSE Append(recvChan[c], m)
  BY Domains DEF ClientSend
<1>3. CASE recvChan'[c] = recvChan[c] /\ Len(recvChan[c]) >= PipeCap
  <2>1. Len(recvChan[c]) # 0
    BY <1>1, <1>3, BoundsAssumption
  <2>2. Only(recvChan[c], S) /\ x \notin S => AtEnd(recvChan[c], x)
    BY DEF Only, AtEnd
  <2>3. QED
    BY <1>1, <1>3, <2>1, <2>2
<1>4. CASE recvChan'[c] = Append(recvChan[c], m)
  BY <1>1, <1>4, Appended
<1>5. QED
  BY <1>2, <1>3, <1>4

LEMMA Replied ==
  ASSUME Typed, NEW c \in Users, NEW m \in Replies, Reply(c, m), NEW S, NEW x
  PROVE  /\ Closed(c) => sendChan'[c] = sendChan[c]
         /\ ~Closed(c) /\ Len(sendChan[c]) < SendCap =>
              sendChan'[c] = Append(sendChan[c], m)
         /\ Len(sendChan[c]) = 0 /\ Len(sendChan'[c]) # 0 => Len(sendChan'[c]) = 1
         /\ Only(sendChan[c], S) /\ m \in S => Only(sendChan'[c], S)
         /\ Only(sendChan[c], S) /\ x \notin S =>
              Once(sendChan'[c], x) /\ AtEnd(sendChan'[c], x)
<1>1. sendChan[c] \in Seq(Replies) /\ Len(sendChan[c]) \in Nat
  BY DEF Typed, TypeOK
<1>2. sendChan'[c] = IF Closed(c) \/ Len(sendChan[c]) >= SendCap THEN sendChan[c]
                     ELSE Append(sendChan[c], m)
  BY Domains DEF Reply
<1>3. CASE sendChan'[c] = sendChan[c] /\ (Closed(c) \/ Len(sendChan[c]) >= SendCap)
  <2>1. Only(sendChan[c], S) /\ x \notin S => Once(sendChan[c], x) /\ AtEnd(sendChan[c], x)
    BY DEF Only, Once, AtEnd
  <2>2. QED
    BY <1>1, <1>3, <2>1, BoundsAssumption
<1>4. CASE sendChan'[c] = Append(sendChan[c], m) /\ ~Closed(c)
  BY <1>1, <1>4, Appended
<1>5. QED
  BY <1>2, <1>3, <1>4

LEMMA ClientStates ==
  ASSUME Typed, NEW c \in Users, Conversation(c)
  PROVE  client[c] \in {"off", "loginWait", "enterWait", "typing", "leaveWait"}
BY DEF Typed, TypeOK, Conversation

\* Where a user is does not depend on what its client does, except that an
\* open connection has no room id in its closer.
LEMMA ClientPlace ==
  ASSUME Typed, NEW c \in Users, Place(c), ~Closed(c),
         UNCHANGED <<room, job, usersMap, allUsersMap, hpc, hreq, nick, roomId, croom>>,
         closer' = closer \/ closer' = [closer EXCEPT ![c] = "logout"]
  PROVE  Place(c)'
<1>1. croom[c] = NoRoom /\ closer'[c] \in {"open", "logout"} /\ closer[c] = "open"
  BY Domains DEF Closed, Typed, PcOK
<1>2. \A r \in Rooms : In(c, r)' <=> In(c, r)
  BY QuietStep
<1>3. QED
  BY <1>1, <1>2 DEF Place, RoomOK, CloserOK, NamesOK, Released

LEMMA ConnectTracked ==
  ASSUME Typed, NEW c \in Console, NEW n \in Names, Connect(c, n), Conversation(c), Place(c)
  PROVE  (Conversation(c) /\ Place(c))'
<1> USE DEF mainVars, roomVars, userVars, hVars, closeVars, outVars, cliVars
<1>1. /\ c \in Users /\ client[c] = "off" /\ ~Closed(c) /\ client'[c] = "loginWait"
      /\ ClientSend(c, LoginMsg(n))
      /\ UNCHANGED <<room, job, usersMap, allUsersMap, hpc, hreq, nick, roomId, closer, croom,
                     sendChan>>
  BY Domains DEF Connect, Console
<1>2. OffOK(c)
  BY <1>1 DEF Conversation
<1>3. Len(recvChan[c]) = 0 /\ Len(sendChan[c]) = 0 /\ Len(recvChan'[c]) = 1
  BY <1>1, <1>2, Sent, MsgTypes DEF OffOK, Keys
<1>4. Only(recvChan'[c], { LoginMsg(i) : i \in Names })
  <2>1. Only(recvChan[c], { LoginMsg(i) : i \in Names })
    BY <1>3 DEF Only
  <2>2. QED
    BY <1>1, <2>1, Sent, MsgTypes DEF Keys
<1>5. LoginOK(c)'
  BY <1>1, <1>2, <1>3, <1>4 DEF OffOK, LoginOK, Only
<1>6. Conversation(c)'
  BY <1>1, <1>5 DEF Conversation, Closed
<1>7. Place(c)'
  BY <1>1, ClientPlace
<1>8. QED
  BY <1>6, <1>7

LEMMA DisconnectTracked ==
  ASSUME Typed, NEW c \in Console, Disconnect(c), Conversation(c), Place(c)
  PROVE  (Conversation(c) /\ Place(c))'
<1> USE DEF mainVars, roomVars, userVars, hVars, closeVars, outVars, cliVars
<1>1. /\ c \in Users /\ client[c] # "off" /\ ~Closed(c) /\ sendChan'[c] = <<>>
      /\ closer'[c] = "logout" /\ closer' = [closer EXCEPT ![c] = "logout"]
      /\ UNCHANGED <<room, job, usersMap, allUsersMap, hpc, hreq, nick, roomId, croom,
                     recvChan, client>>
  BY Domains DEF Disconnect, Console
<1>2. /\ \A S : Only(<<>>, S)
      /\ \A x : Once(<<>>, x) /\ AtEnd(<<>>, x)
  BY DEF Only, Once, AtEnd
<1>3. Len(sendChan'[c]) = 0 /\ Len(sendChan[c]) \in Nat /\ Len(recvChan[c]) \in Nat
  BY <1>1 DEF Typed, TypeOK
<1>4. Conversation(c)'
  <2>1. CASE client[c] = "loginWait"
    <3>1. Only(sendChan'[c], IF nick[c] = NoName THEN {"NICK_NAME_EXIST"} ELSE {"LOGIN_OK"})
      BY <1>1, <1>2
    <3>2. LoginOK(c)
      BY <2>1 DEF Conversation
    <3>3. LoginOK(c)'
      BY <1>1, <1>3, <3>1, <3>2 DEF LoginOK
    <3>4. QED
      BY <1>1, <2>1, <3>3 DEF Conversation
  <2>2. CASE client[c] = "enterWait"
    BY <1>1, <1>2, <2>2, <1>3 DEF Conversation, EnterOK
  <2>3. CASE client[c] = "typing"
    BY <1>1, <1>2, <2>3, <1>3 DEF Conversation, TypingOK
  <2>4. CASE client[c] = "leaveWait"
    BY <1>1, <1>2, <2>4, <1>3 DEF Conversation, LeaveOK
  <2>5. QED
    BY <1>1, <2>1, <2>2, <2>3, <2>4, ClientStates
<1>5. Place(c)'
  BY <1>1, ClientPlace
<1>6. QED
  BY <1>4, <1>5

\* What a reply at the front of its stream says of the client that waits.
LEMMA FrontReply ==
  ASSUME Typed, NEW c \in Users, Conversation(c), sendChan[c] # <<>>
  PROVE  /\ ~Closed(c) /\ client[c] # "off"
         /\ Head(sendChan[c]) = "LOGIN_OK" =>
              client[c] = "loginWait" /\ nick[c] # NoName
         /\ Head(sendChan[c]) = "NICK_NAME_EXIST" =>
              client[c] = "loginWait" /\ nick[c] = NoName
         /\ Head(sendChan[c]) = "ENTER_OK" =>
              client[c] = "enterWait" /\ roomId[c] # NoRoom /\ hpc[c] # "entered"
         /\ Head(sendChan[c]) = "INVALID_ROOM_ID" =>
              client[c] = "enterWait" /\ roomId[c] = NoRoom /\ hpc[c] # "entered"
         /\ Head(sendChan[c]) = "LEAVE_OK" =>
              client[c] = "leaveWait" /\ roomId[c] = NoRoom
         /\ Head(sendChan[c]) \in {"history", "stats", "popular"} => client[c] # "loginWait"
         /\ Head(sendChan[c]) # "NOT_IN_ROOM"
<1> DEFINE m == Head(sendChan[c])
<1>1. ~Closed(c) /\ client[c] # "off"
  BY DEF Conversation, OffOK
<1>2. ASSUME NEW S, Only(sendChan[c], S)
      PROVE  m \in S
  BY <1>2, Taken DEF Typed, TypeOK
<1>3. CASE client[c] = "loginWait"
  <2>1. m \in IF nick[c] = NoName THEN {"NICK_NAME_EXIST"} ELSE {"LOGIN_OK"}
    BY <1>2, <1>3 DEF Conversation, LoginOK
  <2>2. QED
    BY <1>1, <1>3, <2>1
<1>4. CASE client[c] = "enterWait"
  <2>1. EnterOK(c)
    BY <1>4 DEF Conversation
  <2>2. CASE hpc[c] = "entered"
    <3>1. m \in {"history"}
      BY <1>2, <2>1, <2>2 DEF EnterOK
    <3>2. QED
      BY <1>1, <1>4, <3>1
  <2>3. CASE hpc[c] # "entered" /\ roomId[c] = NoRoom
    <3>1. m \in {"INVALID_ROOM_ID"}
      BY <1>2, <2>1, <2>3 DEF EnterOK
    <3>2. QED
      BY <1>1, <1>4, <2>3, <3>1
  <2>4. CASE hpc[c] # "entered" /\ roomId[c] # NoRoom
    <3>1. m \in {"ENTER_OK", "history"}
      BY <1>2, <2>1, <2>4 DEF EnterOK
    <3>2. QED
      BY <1>1, <1>4, <2>4, <3>1
  <2>5. QED
    BY <2>2, <2>3, <2>4
<1>5. CASE client[c] = "typing"
  <2>1. m \in Queries
    BY <1>2, <1>5 DEF Conversation, TypingOK
  <2>2. QED
    BY <1>1, <1>5, <2>1 DEF Queries
<1>6. CASE client[c] = "leaveWait"
  <2>1. m \in IF roomId[c] = NoRoom THEN Queries \cup {"LEAVE_OK"} ELSE Queries
    BY <1>2, <1>6 DEF Conversation, LeaveOK
  <2>2. QED
    BY <1>1, <1>6, <2>1 DEF Queries
<1>7. QED
  BY <1>1, <1>3, <1>4, <1>5, <1>6, ClientStates

\* The client has taken a reply: what is left behind it.
LEMMA ReplyTaken ==
  ASSUME Typed, NEW c \in Users, NEW m \in Replies, TakeReply(c, m), NEW S, NEW x
  PROVE  /\ ~Closed(c) /\ sendChan[c] # <<>> /\ Head(sendChan[c]) = m
         /\ UNCHANGED <<room, job, usersMap, allUsersMap, hpc, hreq, nick, roomId, closer,
                        croom>>
         /\ Len(sendChan'[c]) \in Nat /\ Len(sendChan[c]) # 0
         /\ Len(sendChan[c]) = 1 => Len(sendChan'[c]) = 0
         /\ Only(sendChan[c], S) => Only(sendChan'[c], S)
         /\ Once(sendChan[c], x) => Once(sendChan'[c], x)
         /\ Once(sendChan[c], x) /\ m = x => Only(sendChan'[c], Replies \ {x})
         /\ AtEnd(sendChan[c], x) => AtEnd(sendChan'[c], x)
         /\ AtEnd(sendChan[c], x) /\ m = x => Len(sendChan'[c]) = 0
<1>1. /\ ~Closed(c) /\ sendChan[c] # <<>> /\ Head(sendChan[c]) = m
      /\ sendChan'[c] = Tail(sendChan[c])
      /\ UNCHANGED <<room, job, usersMap, allUsersMap, hpc, hreq, nick, roomId, closer, croom>>
  BY Domains DEF TakeReply, roomVars, userVars, hVars, closeVars
<1>2. sendChan[c] \in Seq(Replies)
  BY DEF Typed, TypeOK
<1>3. /\ Tail(sendChan[c]) \in Seq(Replies) /\ Len(Tail(sendChan[c])) = Len(sendChan[c]) - 1
      /\ Only(sendChan[c], S) => Only(Tail(sendChan[c]), S)
      /\ Once(sendChan[c], x) => Once(Tail(sendChan[c]), x)
      /\ Once(sendChan[c], x) /\ m = x => Only(Tail(sendChan[c]), Replies \ {x})
      /\ AtEnd(sendChan[c], x) => AtEnd(Tail(sendChan[c]), x)
      /\ AtEnd(sendChan[c], x) /\ m = x => Len(sendChan[c]) = 1
  BY <1>1, <1>2, Taken
<1>4. Len(sendChan[c]) \in Nat /\ Len(Tail(sendChan[c])) \in Nat
  BY <1>2, <1>3
<1>5. QED
  BY <1>1, <1>3, <1>4

\* The client asks for a room: nothing else of its is under way.
LEMMA AsksRoom ==
  ASSUME Typed, NEW c \in Users, NEW r \in RoomIds, ClientSend(c, EnterMsg(r)),
         Len(recvChan[c]) = 0, Len(sendChan'[c]) = 0,
         UNCHANGED <<hpc, hreq, nick, roomId, closer>>, ~Closed(c), roomId[c] = NoRoom,
         hpc[c] = "idle", nick[c] # NoName, client'[c] = "enterWait"
  PROVE  Conversation(c)'
<1>1. Only(recvChan'[c], { EnterMsg(s) : s \in RoomIds }) /\ Len(recvChan'[c]) = 1
  <2>1. Only(recvChan[c], { EnterMsg(s) : s \in RoomIds })
    BY DEF Only
  <2>2. QED
    BY <2>1, Sent, MsgTypes
<1>2. Only(sendChan'[c], {"INVALID_ROOM_ID"})
  BY DEF Only
<1>3. EnterOK(c)'
  BY <1>1, <1>2 DEF EnterOK
<1>4. QED
  BY <1>3 DEF Conversation, Closed

LEMMA ReplyTracked ==
  ASSUME Typed, NEW c \in Console, ReplyStep(c), Conversation(c), Place(c)
  PROVE  (Conversation(c) /\ Place(c))'
<1>1. PICK m \in Replies : TakeReply(c, m)
  BY DEF ReplyStep, SMRespLogin, SMRespLoginAgain, SMRespEnter,
               SMRespEnterAgain, SMRespLeave, SMDisplay, Replies
<1>2. /\ c \in Users /\ ~Closed(c) /\ sendChan[c] # <<>> /\ Head(sendChan[c]) = m
      /\ UNCHANGED <<room, job, usersMap, allUsersMap, hpc, hreq, nick, roomId, closer, croom>>
      /\ Len(sendChan'[c]) \in Nat /\ Len(sendChan[c]) # 0
      /\ Len(sendChan[c]) = 1 => Len(sendChan'[c]) = 0
  BY <1>1, ReplyTaken DEF Console
<1>3. Place(c)'
  BY <1>2, ClientPlace
<1>4. ASSUME SMRespLogin(c)
      PROVE  Conversation(c)'
  <2>1. /\ m = "LOGIN_OK" /\ client'[c] = "enterWait"
        /\ \E r \in RoomIds : ClientSend(c, EnterMsg(r))
    BY <1>2, <1>4, Domains DEF SMRespLogin, TakeReply
  <2>2. LoginOK(c) /\ nick[c] # NoName
    BY <1>2, <2>1, FrontReply DEF Conversation
  <2>3. /\ Len(recvChan[c]) = 0 /\ Len(sendChan'[c]) = 0 /\ roomId[c] = NoRoom
        /\ hpc[c] = "idle"
    BY <1>2, <2>2 DEF LoginOK, Conversation
  <2>4. QED
    BY <1>2, <2>1, <2>2, <2>3, AsksRoom
<1>5. ASSUME SMRespLoginAgain(c)
      PROVE  Conversation(c)'
  <2>1. /\ m = "NICK_NAME_EXIST" /\ client'[c] = client[c]
        /\ \E n \in Names : ClientSend(c, LoginMsg(n))
    BY <1>2, <1>5 DEF SMRespLoginAgain, TakeReply
  <2>2. LoginOK(c) /\ nick[c] = NoName /\ client[c] = "loginWait"
    BY <1>2, <2>1, FrontReply DEF Conversation
  <2>3. Len(recvChan[c]) = 0 /\ Len(sendChan'[c]) = 0 /\ hpc[c] = "idle"
    BY <1>2, <2>2 DEF LoginOK, Conversation
  <2>4. Only(recvChan'[c], { LoginMsg(n) : n \in Names }) /\ Len(recvChan'[c]) = 1
    BY <1>2, <2>1, <2>2, <2>3, Sent, MsgTypes DEF LoginOK, Keys
  <2>5. LoginOK(c)'
    BY <1>2, <2>2, <2>3, <2>4 DEF LoginOK, Only
  <2>6. QED
    BY <1>2, <2>1, <2>2, <2>5 DEF Conversation, Closed
<1>6. ASSUME SMRespEnter(c)
      PROVE  Conversation(c)'
  <2>1. m = "ENTER_OK" /\ client'[c] = "typing" /\ recvChan'[c] = recvChan[c]
    BY <1>2, <1>6, Domains DEF SMRespEnter, TakeReply
  <2>2. EnterOK(c) /\ roomId[c] # NoRoom /\ hpc[c] # "entered" /\ client[c] = "enterWait"
    BY <1>2, <2>1, FrontReply DEF Conversation
  <2>3. Len(recvChan[c]) = 0 /\ hpc[c] = "idle"
    BY <1>2, <2>2 DEF EnterOK, Conversation
  <2>4. Only(sendChan'[c], {"ENTER_OK", "history"}) /\ Only(sendChan'[c], Replies \ {"ENTER_OK"})
    BY <1>1, <1>2, <2>1, <2>2, ReplyTaken DEF EnterOK
  <2>5. Only(sendChan'[c], Queries) /\ Only(recvChan'[c], Asks({"chat", "stats", "popular"}))
    BY <2>1, <2>3, <2>4 DEF Only, Queries
  <2>6. QED
    BY <1>2, <2>1, <2>2, <2>3, <2>5 DEF Conversation, TypingOK, Closed
<1>7. ASSUME SMRespEnterAgain(c)
      PROVE  Conversation(c)'
  <2>1. /\ m = "INVALID_ROOM_ID" /\ client'[c] = client[c]
        /\ \E r \in RoomIds : ClientSend(c, EnterMsg(r))
    BY <1>2, <1>7 DEF SMRespEnterAgain, TakeReply
  <2>2. EnterOK(c) /\ roomId[c] = NoRoom /\ hpc[c] # "entered" /\ client[c] = "enterWait"
    BY <1>2, <2>1, FrontReply DEF Conversation
  <2>3. /\ Len(recvChan[c]) = 0 /\ Len(sendChan'[c]) = 0
        /\ hpc[c] = "idle" /\ nick[c] # NoName
    BY <1>2, <2>2 DEF EnterOK, Conversation
  <2>4. QED
    BY <1>2, <2>1, <2>2, <2>3, AsksRoom
<1>8. ASSUME SMRespLeave(c)
      PROVE  Conversation(c)'
  <2>1. /\ m = "LEAVE_OK" /\ client'[c] = "enterWait"
        /\ \E r \in RoomIds : ClientSend(c, EnterMsg(r))
    BY <1>2, <1>8, Domains DEF SMRespLeave, TakeReply
  <2>2. LeaveOK(c) /\ roomId[c] = NoRoom /\ client[c] = "leaveWait"
    BY <1>2, <2>1, FrontReply DEF Conversation
  <2>3. Len(sendChan'[c]) = 0
    BY <1>1, <1>2, <2>1, <2>2, ReplyTaken DEF LeaveOK
  <2>4. Len(recvChan[c]) = 0 /\ hpc[c] = "idle" /\ nick[c] # NoName
    BY <1>2, <2>2 DEF LeaveOK, Conversation
  <2>5. QED
    BY <1>2, <2>1, <2>2, <2>3, <2>4, AsksRoom
<1>9. ASSUME SMDisplay(c)
      PROVE  Conversation(c)'
  <2>1. client'[c] = client[c] /\ recvChan'[c] = recvChan[c]
    BY <1>9 DEF SMDisplay
  <2>2. m \in {"history", "popular", "stats", "NOT_IN_ROOM"}
    BY <1>2, <1>9 DEF SMDisplay, TakeReply, Console
  <2>3. client[c] \in {"enterWait", "typing", "leaveWait"}
    BY <1>2, <2>2, FrontReply, ClientStates
  <2>4. ASSUME NEW S, Only(sendChan[c], S)
        PROVE  Only(sendChan'[c], S)
    BY <1>1, <1>2, <2>4, ReplyTaken
  <2>5. ASSUME NEW x
        PROVE  /\ Once(sendChan[c], x) => Once(sendChan'[c], x)
               /\ AtEnd(sendChan[c], x) => AtEnd(sendChan'[c], x)
    BY <1>1, <1>2, ReplyTaken
  <2>6. CASE client[c] = "enterWait"
    BY <1>2, <2>1, <2>4, <2>5, <2>6 DEF Conversation, EnterOK, Closed
  <2>7. CASE client[c] = "typing"
    BY <1>2, <2>1, <2>4, <2>7 DEF Conversation, TypingOK, Closed
  <2>8. CASE client[c] = "leaveWait"
    BY <1>2, <2>1, <2>4, <2>5, <2>8 DEF Conversation, LeaveOK, Closed
  <2>9. QED
    BY <2>3, <2>6, <2>7, <2>8
<1>10. QED
  BY <1>3, <1>4, <1>5, <1>6, <1>7, <1>8, <1>9 DEF ReplyStep

LEMMA TypeTracked ==
  ASSUME Typed, NEW c \in Console, Type(c), Conversation(c), Place(c)
  PROVE  (Conversation(c) /\ Place(c))'
<1> USE DEF mainVars, roomVars, userVars, hVars, closeVars, outVars, cliVars
<1>1. PICK m \in Commands(c) :
        /\ ClientSend(c, m)
        /\ client' = [client EXCEPT ![c] = IF m = LeaveMsg THEN "leaveWait" ELSE @]
  BY DEF Type
<1>2. /\ c \in Users /\ client[c] = "typing" /\ ~Closed(c)
      /\ client'[c] = IF m = LeaveMsg THEN "leaveWait" ELSE client[c]
      /\ UNCHANGED <<room, job, usersMap, allUsersMap, hpc, hreq, nick, roomId, closer, croom,
                     sendChan>>
  BY <1>1, Domains DEF Type, Console
<1>3. TypingOK(c)
  BY <1>2 DEF Conversation
<1>4. m \in Msgs /\ m \in Asks({"chat", "stats", "popular", "leave"})
  <2>1. m \in Msgs
    BY <1>2, CommandTypes DEF Typed
  <2>2. m.op \in {"chat", "stats", "popular", "leave"}
    BY DEF Commands, ChatMsg, StatsMsg, PopularMsg, LeaveMsg
  <2>3. QED
    BY <2>1, <2>2 DEF Asks
<1>5. m # LeaveMsg => m \in Asks({"chat", "stats", "popular"})
  BY <1>4 DEF Commands, ChatMsg, StatsMsg, PopularMsg, LeaveMsg, Asks
<1>6. Place(c)'
  BY <1>2, ClientPlace
<1>7. CASE m # LeaveMsg
  <2>1. Only(recvChan'[c], Asks({"chat", "stats", "popular"}))
    BY <1>1, <1>2, <1>3, <1>4, <1>5, <1>7, Sent DEF TypingOK
  <2>2. TypingOK(c)'
    BY <1>2, <1>3, <2>1 DEF TypingOK
  <2>3. QED
    BY <1>2, <1>6, <1>7, <2>2 DEF Conversation, Closed
<1>8. CASE m = LeaveMsg
  <2>1. Only(recvChan[c], Asks({"chat", "stats", "popular", "leave"}))
    BY <1>3 DEF TypingOK, Only, Asks
  <2>2. Only(recvChan'[c], Asks({"chat", "stats", "popular", "leave"}))
    BY <1>1, <1>2, <1>4, <2>1, Sent
  <2>3. LeaveMsg \notin Asks({"chat", "stats", "popular"})
    BY DEF LeaveMsg, Asks
  <2>4. AtEnd(recvChan'[c], LeaveMsg)
    BY <1>1, <1>2, <1>3, <1>4, <2>3, Sent DEF TypingOK
  <2>5. AtEnd(sendChan[c], "LEAVE_OK")
    BY <1>3 DEF TypingOK, Only, AtEnd, Queries
  <2>6. LeaveOK(c)'
    BY <1>2, <1>3, <2>2, <2>4, <2>5 DEF TypingOK, LeaveOK
  <2>7. QED
    BY <1>2, <1>6, <1>8, <2>6 DEF Conversation, Closed
<1>9. QED
  BY <1>7, <1>8

-----------------------------------------------------------------------------
(* The steps of a console user itself: its handle loop.                    *)

\* The handle loop has taken a request: what is left behind it.
LEMMA RequestTaken ==
  ASSUME Typed, NEW c \in Users, NEW op, Handle(c, op), NEW S, NEW x
  PROVE  /\ hpc[c] = "idle" /\ Len(recvChan[c]) # 0
         /\ Head(recvChan[c]) \in Msgs /\ Head(recvChan[c]).op = op
         /\ UNCHANGED <<room, job, usersMap, nick, roomId, closer, croom, client>>
         /\ Len(recvChan'[c]) \in Nat
         /\ Len(recvChan[c]) = 1 => Len(recvChan'[c]) = 0
         /\ Only(recvChan[c], S) => Only(recvChan'[c], S) /\ Head(recvChan[c]) \in S
         /\ AtEnd(recvChan[c], x) => AtEnd(recvChan'[c], x)
         /\ AtEnd(recvChan[c], x) /\ Head(recvChan[c]) = x => Len(recvChan'[c]) = 0
<1>1. /\ hpc[c] = "idle" /\ recvChan[c] # <<>> /\ Head(recvChan[c]).op = op
      /\ recvChan'[c] = Tail(recvChan[c])
      /\ UNCHANGED <<room, job, usersMap, nick, roomId, closer, croom, client>>
  BY Domains DEF Handle, roomVars, userVars, closeVars, cliVars
<1>2. recvChan[c] \in Seq(Msgs)
  BY DEF Typed, TypeOK
<1>3. /\ Tail(recvChan[c]) \in Seq(Msgs) /\ Len(Tail(recvChan[c])) = Len(recvChan[c]) - 1
      /\ Only(recvChan[c], S) => Only(Tail(recvChan[c]), S) /\ Head(recvChan[c]) \in S
      /\ AtEnd(recvChan[c], x) => AtEnd(Tail(recvChan[c]), x)
      /\ AtEnd(recvChan[c], x) /\ Head(recvChan[c]) = x => Len(recvChan[c]) = 1
  BY <1>1, <1>2, Taken
<1>4. /\ Len(recvChan[c]) \in Nat /\ Len(Tail(recvChan[c])) \in Nat /\ Len(recvChan[c]) # 0
      /\ Head(recvChan[c]) \in Msgs
  BY <1>1, <1>2, <1>3
<1>5. QED
  BY <1>1, <1>3, <1>4

\* What a request says of the client that sent it.
LEMMA FrontRequest ==
  ASSUME Typed, NEW c \in Users, NEW op, Handle(c, op), Conversation(c)
  PROVE  /\ op = "login" =>
              /\ client[c] = "loginWait" /\ LoginOK(c) /\ nick[c] = NoName
              /\ Len(recvChan[c]) = 1 /\ Len(sendChan[c]) = 0
              /\ Head(recvChan[c]).name \in Names
         /\ op = "enter" =>
              /\ client[c] = "enterWait" /\ EnterOK(c) /\ roomId[c] = NoRoom
              /\ Len(recvChan[c]) = 1 /\ Len(sendChan[c]) = 0
         /\ op = "leave" =>
              /\ client[c] = "leaveWait" /\ LeaveOK(c) /\ roomId[c] # NoRoom
              /\ Head(recvChan[c]) = LeaveMsg
         /\ op \in {"chat", "stats", "popular"} =>
              /\ roomId[c] # NoRoom
              /\ \/ client[c] = "typing" /\ TypingOK(c)
                 \/ client[c] = "leaveWait" /\ LeaveOK(c)
<1> DEFINE m == Head(recvChan[c])
<1>1. m \in Msgs /\ m.op = op /\ Len(recvChan[c]) # 0 /\ hpc[c] = "idle"
  BY RequestTaken
<1>2. ASSUME NEW S, Only(recvChan[c], S)
      PROVE  m \in S
  BY <1>2, RequestTaken
<1>3. op = "leave" => m = LeaveMsg
  BY <1>1 DEF Msgs, LoginMsg, EnterMsg, ChatMsg, PopularMsg, LeaveMsg, StatsMsg
<1>4. CASE client[c] = "off"
  <2>1. recvChan[c] = <<>> /\ recvChan[c] \in Seq(Msgs)
    BY <1>4 DEF Conversation, OffOK, Typed, TypeOK
  <2>2. QED
    BY <1>1, <2>1, EmptyQueue
<1>5. CASE client[c] = "loginWait"
  <2>1. LoginOK(c)
    BY <1>5 DEF Conversation
  <2>2. m \in { LoginMsg(n) : n \in Names }
    BY <1>2, <2>1 DEF LoginOK
  <2>3. op = "login" /\ m.name \in Names
    BY <1>1, <2>2 DEF LoginMsg
  <2>4. QED
    BY <1>1, <1>5, <2>1, <2>3 DEF LoginOK
<1>6. CASE client[c] = "enterWait"
  <2>1. EnterOK(c)
    BY <1>6 DEF Conversation
  <2>2. m \in { EnterMsg(r) : r \in RoomIds }
    BY <1>2, <2>1 DEF EnterOK
  <2>3. op = "enter"
    BY <1>1, <2>2 DEF EnterMsg
  <2>4. QED
    BY <1>1, <1>6, <2>1, <2>3 DEF EnterOK
<1>7. CASE client[c] = "typing"
  <2>1. TypingOK(c)
    BY <1>7 DEF Conversation
  <2>2. m \in Asks({"chat", "stats", "popular"})
    BY <1>2, <2>1 DEF TypingOK
  <2>3. op \in {"chat", "stats", "popular"}
    BY <1>1, <2>2 DEF Asks
  <2>4. QED
    BY <1>1, <1>7, <2>1, <2>3 DEF TypingOK
<1>8. CASE client[c] = "leaveWait"
  <2>1. LeaveOK(c)
    BY <1>8 DEF Conversation
  <2>2. m \in Asks({"chat", "stats", "popular", "leave"}) /\ roomId[c] # NoRoom
    BY <1>1, <1>2, <2>1 DEF LeaveOK
  <2>3. op \in {"chat", "stats", "popular", "leave"}
    BY <1>1, <2>2 DEF Asks
  <2>4. QED
    BY <1>1, <1>3, <1>8, <2>1, <2>2, <2>3
<1>9. QED
  BY <1>4, <1>5, <1>6, <1>7, <1>8, ClientStates

\* A step of the handle loop that is no half of an enter, a leave or a login
\* does not change where the user is.
LEMMA HandlerPlace ==
  ASSUME Typed, NEW c \in Users, Place(c),
         UNCHANGED <<room, job, usersMap, allUsersMap, nick, roomId, closer, croom, client>>,
         hpc[c] \notin {"named", "entered"}, hpc'[c] # "left",
         croom[c] # NoRoom => \/ client[c] # "enterWait"
                              \/ Len(recvChan'[c]) = 0 /\ hpc'[c] \in {"idle", "done"}
  PROVE  Place(c)'
<1>1. \A r \in Rooms : In(c, r)' <=> In(c, r)
  BY QuietStep
<1>2. RoomOK(c)'
  BY <1>1 DEF Place, RoomOK
<1>3. CloserOK(c)'
  BY <1>1 DEF Place, CloserOK
<1>4. NamesOK(c)'
  BY DEF Place, NamesOK, Released
<1>5. QED
  BY <1>2, <1>3, <1>4 DEF Place

LEMMA CMLoginTracked ==
  ASSUME Typed, NEW c \in Console, CMLogin(c), Conversation(c), Place(c)
  PROVE  (Conversation(c) /\ Place(c))'
<1> DEFINE m == Head(recvChan[c])
<1>1. c \in Users /\ Handle(c, "login")
  BY DEF CMLogin, Console
<1>2. /\ client[c] = "loginWait" /\ LoginOK(c) /\ nick[c] = NoName
      /\ Len(recvChan[c]) = 1 /\ Len(sendChan[c]) = 0 /\ m.name \in Names
  BY <1>1, FrontRequest
<1>3. /\ hpc[c] = "idle" /\ m \in Msgs /\ Len(recvChan'[c]) = 0
      /\ UNCHANGED <<room, job, usersMap, nick, roomId, closer, croom, client>>
  BY <1>1, <1>2, RequestTaken
<1>4. roomId[c] = NoRoom /\ Only(recvChan'[c], { LoginMsg(n) : n \in Names })
  BY <1>1, <1>2, RequestTaken DEF LoginOK
<1>5. CASE allUsersMap[m.name] = NoUser
  <2>1. /\ allUsersMap' = [allUsersMap EXCEPT ![m.name] = c]
        /\ hpc'[c] = "named" /\ hreq'[c] = m /\ sendChan' = sendChan
    BY <1>1, <1>5, Domains DEF CMLogin, Goto
  <2>2. LoginOK(c)'
    BY <1>2, <1>3, <1>4, <2>1 DEF LoginOK
  <2>3. Conversation(c)'
    BY <1>2, <1>3, <2>1, <2>2 DEF Conversation, Closed
  <2>4. \A r \in Rooms : In(c, r)' <=> In(c, r)
    BY <1>3 DEF In, Member
  <2>5. RoomOK(c)'
    BY <1>3, <1>4, <2>1, <2>4, RoomsAssumption DEF Place, RoomOK
  <2>6. croom[c] = NoRoom
    BY <1>2 DEF Place, CloserOK
  <2>7. CloserOK(c)'
    BY <1>3, <2>6 DEF CloserOK
  <2>8. \A n \in Keys : allUsersMap[n] # c
    BY <1>2, <1>3 DEF Place, NamesOK
  <2>9. NamesOK(c)'
    BY <1>2, <1>3, <2>1, <2>6, <2>8, NamesAssumption DEF NamesOK, Released, Typed, TypeOK
  <2>10. QED
    BY <2>3, <2>5, <2>7, <2>9 DEF Place
<1>6. CASE allUsersMap[m.name] # NoUser
  <2>1. Reply(c, "NICK_NAME_EXIST") /\ UNCHANGED <<allUsersMap, hpc, hreq>>
    BY <1>6 DEF CMLogin, hVars
  <2>2. /\ Only(sendChan'[c], {"NICK_NAME_EXIST"})
        /\ Len(sendChan'[c]) # 0 => Len(sendChan'[c]) = 1
        /\ Closed(c) => sendChan'[c] = sendChan[c]
    <3>1. Only(sendChan[c], {"NICK_NAME_EXIST"})
      BY <1>2 DEF Only
    <3>2. "NICK_NAME_EXIST" \in Replies
      BY DEF Replies
    <3>3. QED
      BY <1>1, <1>2, <2>1, <3>1, <3>2, Replied
  <2>3. LoginOK(c)'
    BY <1>2, <1>3, <1>4, <2>1, <2>2 DEF LoginOK
  <2>4. Conversation(c)'
    BY <1>2, <1>3, <2>1, <2>2, <2>3 DEF Conversation, Closed
  <2>5. Place(c)'
    BY <1>1, <1>2, <1>3, <2>1, HandlerPlace
  <2>6. QED
    BY <2>4, <2>5
<1>7. QED
  BY <1>5, <1>6

LEMMA CMLoginStoredTracked ==
  ASSUME Typed, NEW c \in Console, CMLoginStored(c), Conversation(c), Place(c)
  PROVE  (Conversation(c) /\ Place(c))'
<1>1. /\ c \in Users /\ hpc[c] = "named" /\ nick'[c] = hreq[c].name
      /\ Reply(c, "LOGIN_OK") /\ hpc'[c] = "idle"
      /\ UNCHANGED <<room, job, usersMap, allUsersMap, roomId, closer, croom, client, recvChan>>
  BY Domains DEF CMLoginStored, Return, Goto, Console, roomVars, closeVars, cliVars
<1>2. client[c] = "loginWait" /\ LoginOK(c)
  BY <1>1, ClientStates DEF Conversation, OffOK, EnterOK, TypingOK, LeaveOK
<1>3. /\ nick[c] = NoName /\ nick'[c] \in Names /\ nick'[c] # NoName /\ roomId[c] = NoRoom
      /\ Len(recvChan[c]) = 0 /\ Len(sendChan[c]) = 0
  BY <1>1, <1>2, NamesAssumption DEF LoginOK
<1>4. /\ Only(sendChan'[c], {"LOGIN_OK"})
      /\ Len(sendChan'[c]) # 0 => Len(sendChan'[c]) = 1
      /\ Closed(c) => sendChan'[c] = sendChan[c]
  <2>1. Only(sendChan[c], {"LOGIN_OK"})
    BY <1>3 DEF Only
  <2>2. "LOGIN_OK" \in Replies
    BY DEF Replies
  <2>3. QED
    BY <1>1, <1>3, <2>1, <2>2, Replied
<1>5. LoginOK(c)'
  BY <1>1, <1>2, <1>3, <1>4 DEF LoginOK
<1>6. Conversation(c)'
  BY <1>1, <1>2, <1>4, <1>5 DEF Conversation, Closed
<1>7. \A r \in Rooms : ~In(c, r) /\ ~In(c, r)'
  BY <1>1, <1>3, QuietStep, RoomsAssumption DEF Place, RoomOK
<1>8. RoomOK(c)'
  BY <1>1, <1>3, <1>7 DEF Place, RoomOK
<1>9. CloserOK(c)'
  BY <1>1, <1>2 DEF Place, CloserOK
<1>10. NamesOK(c)'
  BY <1>1, <1>3 DEF Place, NamesOK, Released
<1>11. QED
  BY <1>6, <1>8, <1>9, <1>10 DEF Place

LEMMA CMEnterTracked ==
  ASSUME Typed, NEW c \in Console, CMEnter(c), Conversation(c), Place(c)
  PROVE  (Conversation(c) /\ Place(c))'
<1>1. c \in Users /\ Handle(c, "enter") /\ UNCHANGED allUsersMap
  BY DEF CMEnter, Console
<1>2. /\ client[c] = "enterWait" /\ EnterOK(c) /\ roomId[c] = NoRoom
      /\ Len(recvChan[c]) = 1 /\ Len(sendChan[c]) = 0
  BY <1>1, FrontRequest
<1>3. /\ hpc[c] = "idle" /\ Len(recvChan'[c]) = 0
      /\ UNCHANGED <<room, job, usersMap, nick, roomId, closer, croom, client>>
  BY <1>1, <1>2, RequestTaken
<1>4. Only(recvChan'[c], { EnterMsg(r) : r \in RoomIds })
  BY <1>1, <1>2, RequestTaken DEF EnterOK
<1>5. \/ /\ hpc'[c] = "entering" /\ sendChan' = sendChan
      \/ /\ Reply(c, "INVALID_ROOM_ID") /\ hpc' = hpc
  BY <1>1, Domains DEF CMEnter, Goto, hVars
<1>6. croom[c] = NoRoom
  BY <1>2, <1>3 DEF Place, CloserOK
<1>7. Place(c)'
  BY <1>1, <1>3, <1>5, <1>6, HandlerPlace
<1>8. CASE hpc'[c] = "entering" /\ sendChan' = sendChan
  <2>1. EnterOK(c)'
    BY <1>2, <1>3, <1>4, <1>8 DEF EnterOK
  <2>2. QED
    BY <1>2, <1>3, <1>7, <1>8, <2>1 DEF Conversation, Closed
<1>9. CASE Reply(c, "INVALID_ROOM_ID") /\ hpc' = hpc
  <2>1. /\ Only(sendChan'[c], {"INVALID_ROOM_ID"})
        /\ Len(sendChan'[c]) # 0 => Len(sendChan'[c]) = 1
        /\ Closed(c) => sendChan'[c] = sendChan[c]
    <3>1. Only(sendChan[c], {"INVALID_ROOM_ID"})
      BY <1>2 DEF Only
    <3>2. "INVALID_ROOM_ID" \in Replies
      BY DEF Replies
    <3>3. QED
      BY <1>1, <1>2, <1>9, <3>1, <3>2, Replied
  <2>2. EnterOK(c)'
    BY <1>2, <1>3, <1>4, <1>9, <2>1 DEF EnterOK
  <2>3. Conversation(c)'
    BY <1>2, <1>3, <1>9, <2>1, <2>2 DEF Conversation, Closed
  <2>4. QED
    BY <1>7, <2>3
<1>10. QED
  BY <1>5, <1>8, <1>9

LEMMA CMEnteredTracked ==
  ASSUME Typed, NEW c \in Console, CMEntered(c), Conversation(c), Place(c)
  PROVE  (Conversation(c) /\ Place(c))'
<1>1. /\ c \in Users /\ hpc[c] = "entered" /\ roomId'[c] = hreq[c].room
      /\ Reply(c, "ENTER_OK") /\ hpc'[c] = "idle"
      /\ UNCHANGED <<room, job, usersMap, allUsersMap, nick, closer, croom, client, recvChan>>
  BY Domains DEF CMEntered, Return, Goto, Console, roomVars, closeVars, cliVars
<1>2. client[c] = "enterWait" /\ EnterOK(c)
  BY <1>1, ClientStates DEF Conversation, OffOK, LoginOK, TypingOK, LeaveOK
<1>3. /\ roomId[c] = NoRoom /\ Len(recvChan[c]) = 0 /\ Only(sendChan[c], {"history"})
      /\ roomId'[c] \in Rooms /\ roomId'[c] # NoRoom
  BY <1>1, <1>2, RoomsAssumption DEF EnterOK, Typed, PcOK, EnterMsg
<1>4. /\ Only(sendChan'[c], {"ENTER_OK", "history"}) /\ Once(sendChan'[c], "ENTER_OK")
      /\ Closed(c) => sendChan'[c] = sendChan[c]
  <2>1. Only(sendChan[c], {"ENTER_OK", "history"})
    BY <1>3 DEF Only
  <2>2. "ENTER_OK" \in Replies
    BY DEF Replies
  <2>3. QED
    BY <1>1, <1>3, <2>1, <2>2, Replied
<1>5. EnterOK(c)'
  BY <1>1, <1>2, <1>3, <1>4 DEF EnterOK
<1>6. Conversation(c)'
  BY <1>1, <1>2, <1>4, <1>5 DEF Conversation, Closed
<1>7. \A r \in Rooms : In(c, r)' => In(c, r) /\ roomId'[c] = r
  BY <1>1, <1>3, QuietStep, RoomsAssumption DEF Place, RoomOK
<1>8. RoomOK(c)'
  BY <1>1, <1>7 DEF Place, RoomOK
<1>9. croom[c] = NoRoom
  BY <1>1, <1>2 DEF Place, CloserOK
<1>10. CloserOK(c)' /\ NamesOK(c)'
  BY <1>1, <1>9 DEF Place, CloserOK, NamesOK, Released
<1>11. QED
  BY <1>6, <1>8, <1>10 DEF Place

LEMMA CMLeaveTracked ==
  ASSUME Typed, NEW c \in Console, CMLeave(c), Conversation(c), Place(c)
  PROVE  (Conversation(c) /\ Place(c))'
<1>1. c \in Users /\ Handle(c, "leave") /\ UNCHANGED allUsersMap
  BY DEF CMLeave, Console
<1>2. /\ client[c] = "leaveWait" /\ LeaveOK(c) /\ roomId[c] # NoRoom
      /\ Head(recvChan[c]) = LeaveMsg
  BY <1>1, FrontRequest
<1>3. /\ hpc[c] = "idle" /\ Len(recvChan'[c]) = 0
      /\ UNCHANGED <<room, job, usersMap, nick, roomId, closer, croom, client>>
  BY <1>1, <1>2, RequestTaken DEF LeaveOK
<1>4. hpc'[c] = "leaving" /\ sendChan' = sendChan
  BY <1>1, <1>2, Domains DEF CMLeave, Goto
<1>5. /\ Only(recvChan'[c], Asks({"chat", "stats", "popular", "leave"}))
      /\ AtEnd(recvChan'[c], LeaveMsg)
  BY <1>1, <1>2, RequestTaken DEF LeaveOK
<1>6. LeaveOK(c)'
  BY <1>2, <1>3, <1>4, <1>5 DEF LeaveOK
<1>7. Conversation(c)'
  BY <1>2, <1>3, <1>4, <1>6 DEF Conversation, Closed
<1>8. Place(c)'
  BY <1>1, <1>2, <1>3, <1>4, HandlerPlace
<1>9. QED
  BY <1>7, <1>8

LEMMA CMLeftTracked ==
  ASSUME Typed, NEW c \in Console, CMLeft(c), Conversation(c), Place(c)
  PROVE  (Conversation(c) /\ Place(c))'
<1>1. /\ c \in Users /\ hpc[c] = "left" /\ roomId'[c] = NoRoom
      /\ Reply(c, "LEAVE_OK") /\ hpc'[c] = "idle"
      /\ UNCHANGED <<room, job, usersMap, allUsersMap, nick, closer, croom, client, recvChan>>
  BY Domains DEF CMLeft, Return, Goto, Console, roomVars, closeVars, cliVars
<1>2. client[c] = "leaveWait" /\ LeaveOK(c)
  BY <1>1, ClientStates DEF Conversation, OffOK, LoginOK, EnterOK, TypingOK
<1>3. roomId[c] # NoRoom /\ Len(recvChan[c]) = 0 /\ Only(sendChan[c], Queries)
  BY <1>1, <1>2 DEF LeaveOK
<1>4. /\ Only(sendChan'[c], Queries \cup {"LEAVE_OK"}) /\ AtEnd(sendChan'[c], "LEAVE_OK")
      /\ Closed(c) => sendChan'[c] = sendChan[c]
  <2>1. Only(sendChan[c], Queries \cup {"LEAVE_OK"})
    BY <1>3 DEF Only
  <2>2. "LEAVE_OK" \in Replies /\ "LEAVE_OK" \notin Queries
    BY DEF Replies, Queries
  <2>3. QED
    BY <1>1, <1>3, <2>1, <2>2, Replied
<1>5. LeaveOK(c)'
  BY <1>1, <1>2, <1>3, <1>4 DEF LeaveOK
<1>6. Conversation(c)'
  BY <1>1, <1>2, <1>4, <1>5 DEF Conversation, Closed
<1>7. \A r \in Rooms : ~In(c, r)'
  BY <1>1, QuietStep DEF Place, RoomOK
<1>8. RoomOK(c)' /\ CloserOK(c)' /\ NamesOK(c)'
  BY <1>1, <1>2, <1>7 DEF Place, RoomOK, CloserOK, NamesOK, Released
<1>9. QED
  BY <1>6, <1>8 DEF Place

\* A chat and a query, and their answers, while the user is in a room.
LEMMA BusyTracked ==
  ASSUME Typed, NEW c \in Users, Conversation(c), Place(c), roomId[c] # NoRoom,
         \/ client[c] = "typing" /\ TypingOK(c)
         \/ client[c] = "leaveWait" /\ LeaveOK(c) /\ hpc[c] \notin {"leaving", "left"},
         hpc[c] \in {"idle", "sending", "popular"}, hpc'[c] \in {"idle", "sending", "popular"},
         UNCHANGED <<room, job, usersMap, allUsersMap, nick, roomId, closer, croom, client>>,
         \A S : Only(recvChan[c], S) => Only(recvChan'[c], S),
         AtEnd(recvChan[c], LeaveMsg) => AtEnd(recvChan'[c], LeaveMsg),
         sendChan' = sendChan \/ \E m \in {"stats", "popular"} : Reply(c, m)
  PROVE  (Conversation(c) /\ Place(c))'
<1>1. /\ Only(sendChan[c], Queries) => Only(sendChan'[c], Queries)
      /\ Closed(c) => sendChan'[c] = sendChan[c]
  <2>1. CASE sendChan' = sendChan
    BY <2>1
  <2>2. ASSUME NEW m \in {"stats", "popular"}, Reply(c, m)
        PROVE  /\ Only(sendChan[c], Queries) => Only(sendChan'[c], Queries)
               /\ Closed(c) => sendChan'[c] = sendChan[c]
    <3>1. m \in Replies /\ m \in Queries
      BY DEF Replies, Queries
    <3>2. QED
      BY <2>2, <3>1, Replied
  <2>3. QED
    BY <2>1, <2>2
<1>2. CASE client[c] = "typing" /\ TypingOK(c)
  <2>1. TypingOK(c)'
    BY <1>1, <1>2 DEF TypingOK
  <2>2. QED
    BY <1>1, <1>2, <2>1, HandlerPlace DEF Conversation, Closed
<1>3. CASE client[c] = "leaveWait" /\ LeaveOK(c)
  <2>1. AtEnd(sendChan'[c], "LEAVE_OK") /\ Only(sendChan'[c], Queries)
    BY <1>1, <1>3 DEF LeaveOK, Only, AtEnd, Queries
  <2>2. LeaveOK(c)'
    BY <1>3, <2>1 DEF LeaveOK
  <2>3. QED
    BY <1>1, <1>3, <2>2, HandlerPlace DEF Conversation, Closed
<1>4. QED
  BY <1>2, <1>3

LEMMA QueryTracked ==
  ASSUME Typed, NEW c \in Console, Conversation(c), Place(c),
         CMChat(c) \/ CMCommandPopular(c) \/ CMCommandStats(c)
  PROVE  (Conversation(c) /\ Place(c))'
<1>1. PICK op \in {"chat", "stats", "popular"} : Handle(c, op)
  BY DEF CMChat, CMCommandPopular, CMCommandStats
<1>2. /\ c \in Users /\ hpc[c] = "idle" /\ roomId[c] # NoRoom
      /\ \/ client[c] = "typing" /\ TypingOK(c)
         \/ client[c] = "leaveWait" /\ LeaveOK(c)
      /\ UNCHANGED <<room, job, usersMap, nick, roomId, closer, croom, client>>
  BY <1>1, FrontRequest, RequestTaken DEF Console
<1>3. ASSUME NEW S, Only(recvChan[c], S)
      PROVE  Only(recvChan'[c], S)
  BY <1>1, <1>2, <1>3, RequestTaken
<1>4. AtEnd(recvChan[c], LeaveMsg) => AtEnd(recvChan'[c], LeaveMsg)
  BY <1>1, <1>2, RequestTaken
<1>5. /\ hpc'[c] \in {"idle", "sending", "popular"} /\ UNCHANGED allUsersMap
      /\ sendChan' = sendChan \/ \E m \in {"stats", "popular"} : Reply(c, m)
  BY <1>2, Domains DEF CMChat, CMCommandPopular, CMCommandStats, Goto, hVars
<1>6. QED
  BY <1>2, <1>3, <1>4, <1>5, BusyTracked

LEMMA QueryEndTracked ==
  ASSUME Typed, NEW c \in Console, Conversation(c), Place(c),
         CMCommandPopularEnd(c) \/ CMChatSend(c)
  PROVE  (Conversation(c) /\ Place(c))'
<1>1. /\ c \in Users /\ hpc[c] \in {"popular", "sending"} /\ hpc'[c] = "idle"
      /\ UNCHANGED <<room, job, usersMap, allUsersMap, nick, roomId, closer, croom, client,
                     recvChan>>
      /\ sendChan' = sendChan \/ Reply(c, "popular")
  BY Domains DEF CMCommandPopularEnd, CMChatSend, Return, Goto, Console, roomVars, userVars,
                 closeVars, outVars, cliVars
<1>2. /\ \/ client[c] = "typing" /\ TypingOK(c)
         \/ client[c] = "leaveWait" /\ LeaveOK(c)
      /\ roomId[c] # NoRoom
  BY <1>1, ClientStates DEF Conversation, OffOK, LoginOK, EnterOK, TypingOK, LeaveOK
<1>3. QED
  BY <1>1, <1>2, BusyTracked

LEMMA HandlerExitTracked ==
  ASSUME Typed, NEW c \in Console, HandlerExit(c), Conversation(c), Place(c)
  PROVE  (Conversation(c) /\ Place(c))'
<1>1. /\ c \in Users /\ hpc[c] = "idle" /\ Closed(c) /\ hpc'[c] = "done"
      /\ recvChan'[c] = <<>>
      /\ UNCHANGED <<room, job, usersMap, allUsersMap, nick, roomId, closer, croom, client,
                     sendChan>>
  BY Domains DEF HandlerExit, Console, roomVars, userVars, closeVars, outVars, cliVars
<1>2. Len(recvChan'[c]) = 0
  BY <1>1
<1>3. /\ \A S : Only(<<>>, S)
      /\ \A x : AtEnd(<<>>, x)
  BY DEF Only, AtEnd
<1>4. Place(c)'
  BY <1>1, <1>2, HandlerPlace
<1>5. CASE client[c] = "loginWait"
  <2>1. LoginOK(c)
    BY <1>5 DEF Conversation
  <2>2. Only(recvChan'[c], { LoginMsg(n) : n \in Names })
    BY <1>1 DEF Only
  <2>3. LoginOK(c)'
    BY <1>1, <1>2, <2>1, <2>2 DEF LoginOK
  <2>4. QED
    BY <1>1, <1>4, <1>5, <2>3 DEF Conversation, Closed
<1>6. CASE client[c] = "enterWait"
  <2>1. EnterOK(c)
    BY <1>6 DEF Conversation
  <2>2. Only(recvChan'[c], { EnterMsg(r) : r \in RoomIds })
    BY <1>1 DEF Only
  <2>3. EnterOK(c)'
    BY <1>1, <1>2, <2>1, <2>2 DEF EnterOK
  <2>4. QED
    BY <1>1, <1>4, <1>6, <2>3 DEF Conversation, Closed
<1>7. CASE client[c] = "typing"
  BY <1>1, <1>3, <1>4, <1>7 DEF Conversation, TypingOK, Closed
<1>8. CASE client[c] = "leaveWait"
  BY <1>1, <1>2, <1>3, <1>4, <1>8 DEF Conversation, LeaveOK, Closed
<1>9. client[c] # "off"
  BY <1>1 DEF Conversation, OffOK
<1>10. QED
  BY <1>5, <1>6, <1>7, <1>8, <1>9, <1>1, ClientStates

-----------------------------------------------------------------------------
(* The steps of a console user itself: the rooms it enters and leaves, and *)
(* its closer.                                                             *)

LEMMA RoomEnteringTracked ==
  ASSUME Typed, NEW c \in Console, NEW r \in Rooms, RoomEntering(r, c),
         Conversation(c), Place(c)
  PROVE  (Conversation(c) /\ Place(c))'
<1>1. /\ c \in Users /\ hpc[c] = "entering" /\ hreq[c].room = r /\ hpc'[c] = "entered"
      /\ UNCHANGED <<usersMap, allUsersMap, hreq, nick, roomId, closer, croom, client,
                     recvChan, sendChan>>
  BY Domains DEF RoomEntering, Console, userVars, closeVars, outVars, cliVars
<1>2. /\ room[r] = "select" /\ room' = [room EXCEPT ![r] = "enter"]
      /\ job' = [job EXCEPT ![r] = c]
  BY DEF RoomEntering, Work
<1>3. client[c] = "enterWait" /\ EnterOK(c)
  BY <1>1, ClientStates DEF Conversation, OffOK, LoginOK, TypingOK, LeaveOK
<1>4. roomId[c] = NoRoom /\ Len(sendChan[c]) = 0 /\ Len(recvChan[c]) = 0
  BY <1>1, <1>3 DEF EnterOK
<1>5. Only(sendChan'[c], {"history"})
  BY <1>1, <1>4 DEF Only
<1>6. EnterOK(c)'
  BY <1>1, <1>3, <1>4, <1>5 DEF EnterOK
<1>7. Conversation(c)'
  BY <1>1, <1>3, <1>6 DEF Conversation, Closed
<1>8. ASSUME NEW s \in Rooms, In(c, s)'
      PROVE  s = r
  <2>1. CASE s # r
    <3>1. In(c, s)
      BY <1>1, <1>2, <1>8, <2>1 DEF In, Member, Typed, TypeOK
    <3>2. QED
      BY <1>1, <1>4, <3>1, RoomsAssumption DEF Place, RoomOK
  <2>2. QED
    BY <2>1
<1>9. RoomOK(c)'
  BY <1>1, <1>8 DEF Place, RoomOK
<1>10. croom[c] = NoRoom
  BY <1>1, <1>3 DEF Place, CloserOK
<1>11. CloserOK(c)' /\ NamesOK(c)'
  BY <1>1, <1>10 DEF Place, CloserOK, NamesOK, Released
<1>12. QED
  BY <1>7, <1>9, <1>11 DEF Place

LEMMA RoomLeavingTracked ==
  ASSUME Typed, NEW c \in Console, NEW r \in Rooms, RoomLeaving(r, c),
         Conversation(c), Place(c)
  PROVE  (Conversation(c) /\ Place(c))'
<1>1. /\ c \in Users
      /\ UNCHANGED <<usersMap, allUsersMap, hreq, nick, roomId, croom, client,
                     recvChan, sendChan>>
  BY DEF RoomLeaving, Console, userVars, outVars, cliVars
<1>2. /\ room[r] = "select" /\ room' = [room EXCEPT ![r] = "leave"]
      /\ job' = [job EXCEPT ![r] = c]
  BY DEF RoomLeaving, Work
<1>3. ASSUME NEW s \in Rooms, In(c, s)'
      PROVE  s # r /\ In(c, s)
  <2>1. s # r
    BY <1>2, <1>3 DEF In, Typed, TypeOK
  <2>2. In(c, s)
    BY <1>1, <1>2, <1>3, <2>1 DEF In, Member, Typed, TypeOK
  <2>3. QED
    BY <2>1, <2>2
<1>4. CASE hpc[c] = "leaving" /\ roomId[c] = r /\ hpc'[c] = "left" /\ closer' = closer
  <2>1. client[c] = "leaveWait" /\ LeaveOK(c)
    BY <1>1, <1>4, ClientStates DEF Conversation, OffOK, LoginOK, EnterOK, TypingOK
  <2>2. LeaveOK(c)'
    BY <1>1, <1>4, <2>1 DEF LeaveOK
  <2>3. Conversation(c)'
    BY <1>1, <1>4, <2>1, <2>2 DEF Conversation, Closed
  <2>4. \A s \in Rooms : ~In(c, s)'
    BY <1>3, <1>4 DEF Place, RoomOK
  <2>5. RoomOK(c)' /\ CloserOK(c)' /\ NamesOK(c)'
    BY <1>1, <1>4, <2>1, <2>4 DEF Place, RoomOK, CloserOK, NamesOK, Released
  <2>6. QED
    BY <2>3, <2>5 DEF Place
<1>5. CASE /\ closer[c] = "leaving" /\ croom[c] = r /\ closer'[c] = "delete" /\ hpc' = hpc
  <2>1. Conversation(c)'
    BY <1>1, <1>5 DEF Conversation, OffOK, LoginOK, EnterOK, TypingOK, LeaveOK, Closed
  <2>2. /\ croom[c] # NoRoom /\ roomId[c] \in {r, NoRoom}
        /\ client[c] \in {"enterWait", "typing", "leaveWait"}
        /\ client[c] = "enterWait" => hpc[c] \in {"idle", "done"}
    BY <1>5, RoomsAssumption DEF Place, CloserOK
  <2>3. hpc[c] # "entered"
    BY <2>2 DEF Conversation, TypingOK, LeaveOK
  <2>4. \A s \in Rooms : ~In(c, s)'
    BY <1>3, <2>2, <2>3, RoomsAssumption DEF Place, RoomOK
  <2>5. RoomOK(c)' /\ CloserOK(c)' /\ NamesOK(c)'
    BY <1>1, <1>5, <2>4 DEF Place, RoomOK, CloserOK, NamesOK, Released
  <2>6. QED
    BY <2>1, <2>5 DEF Place
<1>6. QED
  BY <1>1, <1>4, <1>5, Domains DEF RoomLeaving

LEMMA LogoutTracked ==
  ASSUME Typed, NEW c \in Console, Logout(c), Conversation(c), Place(c)
  PROVE  (Conversation(c) /\ Place(c))'
<1>1. /\ c \in Users /\ closer[c] = "logout" /\ croom'[c] = roomId[c]
      /\ closer'[c] = IF roomId[c] = NoRoom THEN "done" ELSE "leaving"
      /\ UNCHANGED <<room, job, usersMap, allUsersMap, hpc, hreq, nick, roomId, client,
                     recvChan, sendChan>>
  BY Domains DEF Logout, Console, roomVars, userVars, hVars, outVars, cliVars
<1>2. Conversation(c)'
  BY <1>1 DEF Conversation, OffOK, LoginOK, EnterOK, TypingOK, LeaveOK, Closed
<1>3. \A r \in Rooms : In(c, r)' <=> In(c, r)
  BY <1>1, QuietStep
<1>4. roomId[c] # NoRoom =>
        /\ client[c] \in {"enterWait", "typing", "leaveWait"}
        /\ client[c] = "enterWait" => Len(recvChan[c]) = 0 /\ hpc[c] \in {"idle", "done"}
  BY <1>1, ClientStates DEF Conversation, OffOK, LoginOK, EnterOK
<1>5. RoomOK(c)'
  BY <1>1, <1>3 DEF Place, RoomOK
<1>6. CloserOK(c)'
  BY <1>1, <1>4 DEF CloserOK
<1>7. NamesOK(c)'
  BY <1>1 DEF Place, NamesOK, Released
<1>8. QED
  BY <1>2, <1>5, <1>6, <1>7 DEF Place

LEMMA LogoutDeleteTracked ==
  ASSUME Typed, NEW c \in Console, LogoutDelete(c), Conversation(c), Place(c)
  PROVE  (Conversation(c) /\ Place(c))'
<1>1. /\ c \in Users /\ closer[c] = "delete" /\ closer'[c] = "done"
      /\ allUsersMap' = [allUsersMap EXCEPT ![nick[c]] = NoUser]
      /\ UNCHANGED <<room, job, usersMap, hpc, hreq, nick, roomId, croom, client,
                     recvChan, sendChan>>
  BY Domains DEF LogoutDelete, Console, roomVars, userVars, hVars, outVars, cliVars
<1>2. Conversation(c)'
  BY <1>1 DEF Conversation, OffOK, LoginOK, EnterOK, TypingOK, LeaveOK, Closed
<1>3. \A r \in Rooms : In(c, r)' <=> In(c, r)
  BY <1>1 DEF In, Member
<1>4. croom[c] # NoRoom
  BY <1>1, RoomsAssumption DEF Typed, PcOK
<1>5. RoomOK(c)' /\ CloserOK(c)'
  BY <1>1, <1>3, <1>4 DEF Place, RoomOK, CloserOK
<1>6. hpc[c] # "named"
  BY <1>4 DEF Place, CloserOK, Conversation, EnterOK, TypingOK, LeaveOK
<1>7. \A n \in Keys : allUsersMap'[n] # c
  BY <1>1, <1>6, UsersAssumption DEF Place, NamesOK, Typed, TypeOK
<1>8. NamesOK(c)'
  BY <1>7 DEF NamesOK
<1>9. QED
  BY <1>2, <1>5, <1>8 DEF Place

-----------------------------------------------------------------------------
(* The invariant.                                                          *)

LEMMA TrackedInit ==
  ASSUME Init
  PROVE  Tracked
<1>1. ASSUME NEW c \in Console
      PROVE  Conversation(c) /\ Place(c)
  <2>1. c \in Users /\ c # NoUser
    BY UsersAssumption DEF Console
  <2>2. Conversation(c)
    BY <2>1 DEF Init, Conversation, OffOK, Closed
  <2>3. \A r \in Rooms : ~In(c, r)
    BY <2>1 DEF Init, In, Member
  <2>4. QED
    BY <2>1, <2>2, <2>3 DEF Init, Place, RoomOK, CloserOK, NamesOK
<1>2. QED
  BY <1>1 DEF Tracked

\* What the goroutines and the client of a console user do keeps track of it.
LEMMA ActorTracked ==
  ASSUME Typed, NEW c \in Console, Actor(c), Conversation(c), Place(c)
  PROVE  (Conversation(c) /\ Place(c))'
<1>1. c \in Users /\ c \notin Foreign
  BY DEF Console
<1>2. CASE Environment(c)
  <2>1. ~ClientAny(c)
    BY DEF ClientAny, Conversation
  <2>2. QED
    BY <1>2, <2>1, ConnectTracked, TypeTracked, DisconnectTracked DEF Environment
<1>3. CASE ReplyStep(c)
  BY <1>3, ReplyTracked
<1>4. CASE WriteBuff(c)
  <2>1. UNCHANGED <<room, job, usersMap, allUsersMap>> /\ UNCHANGED Local(c)
    BY <1>4 DEF WriteBuff, Local, roomVars, userVars, hVars, closeVars, cliVars
  <2>2. QED
    BY <1>1, <2>1, QuietStep, ConversationFrame, PlaceFrame
<1>5. CASE HandlerStep(c)
  BY <1>5, CMLoginTracked, CMLoginStoredTracked, CMEnterTracked, CMEnteredTracked,
     CMLeaveTracked, CMLeftTracked, QueryTracked, QueryEndTracked, HandlerExitTracked
     DEF HandlerStep
<1>6. CASE BlockedSend(c)
  BY <1>6, QueryEndTracked, RoomEnteringTracked, RoomLeavingTracked DEF BlockedSend
<1>7. CASE CloserStep(c)
  BY <1>7, LogoutTracked, LogoutDeleteTracked DEF CloserStep
<1>8. QED
  BY <1>2, <1>3, <1>4, <1>5, <1>6, <1>7 DEF Actor

\* What a room or main does leaves a console user where it was.
LEMMA RoomsTracked ==
  ASSUME Typed, NEW c \in Console, Conversation(c), Place(c), NEW r \in Rooms,
         RoomEnter(r) \/ Rest(r)
  PROVE  (Conversation(c) /\ Place(c))'
<1>1. c \in Users
  BY DEF Console
<1>2. CASE RoomEnter(r)
  BY <1>1, <1>2, RoomEnterTracked, RoomEnterSpares, ConversationFrame, PlaceFrame
<1>3. CASE Rest(r)
  <2>1. \A n \in Keys : usersMap[r][n] = c => n = nick[c]
    BY DEF Place, RoomOK
  <2>2. QED
    BY <1>1, <1>3, <2>1, RestSpares, ConversationFrame, PlaceFrame
<1>4. QED
  BY <1>2, <1>3

\* The kinds of steps there are.
LEMMA Steps ==
  ASSUME [Next]_vars
  PROVE  \/ \E c \in Users : Actor(c)
         \/ \E r \in Rooms : RoomEnter(r) \/ Rest(r)
         \/ UNCHANGED <<roomVars, messageChannel, allUsersMap, userVars, hVars, closeVars,
                        recvChan, outVars, cliVars>>
<1>1. CASE MainStep \/ Signal
  BY <1>1 DEF MainStep, Signal, CloseRoom, Exit
<1>2. CASE UNCHANGED vars
  BY <1>2 DEF vars
<1>3. QED
  BY <1>1, <1>2 DEF Next, Actor, Rest, RoomStep

LEMMA TrackedNext ==
  ASSUME Typed, Tracked, [Next]_vars
  PROVE  Tracked'
<1>1. ASSUME NEW d \in Console
      PROVE  (Conversation(d) /\ Place(d))'
  <2>1. d \in Users /\ Conversation(d) /\ Place(d)
    BY DEF Tracked, Console
  <2>2. ASSUME NEW c \in Users, Actor(c)
        PROVE  (Conversation(d) /\ Place(d))'
    <3>1. CASE c = d
      BY <2>1, <2>2, <3>1, ActorTracked
    <3>2. CASE c # d
      BY <2>1, <2>2, <3>2, ActorSpares, ConversationFrame, PlaceFrame
    <3>3. QED
      BY <3>1, <3>2
  <2>3. ASSUME NEW r \in Rooms, RoomEnter(r) \/ Rest(r)
        PROVE  (Conversation(d) /\ Place(d))'
    BY <2>1, <2>3, RoomsTracked
  <2>4. CASE UNCHANGED <<roomVars, messageChannel, allUsersMap, userVars, hVars, closeVars,
                         recvChan, outVars, cliVars>>
    <3>1. UNCHANGED <<room, job, usersMap, allUsersMap>> /\ UNCHANGED Local(d)
      BY <2>4 DEF Local, roomVars, userVars, hVars, closeVars, outVars, cliVars
    <3>2. QED
      BY <2>1, <3>1, QuietStep, ConversationFrame, PlaceFrame
  <2>5. QED
    BY <2>2, <2>3, <2>4, Steps
<1>2. QED
  BY <1>1 DEF Tracked, Console

\* Typed, Owns and Tracked together are inductive.
RoomsInv == Typed /\ Owns /\ Tracked

LEMMA RoomsInvariance == Spec => []RoomsInv
<1>1. Init => RoomsInv
  BY TypedInit, TrackedInit DEF RoomsInv, Init, Owns
<1>2. RoomsInv /\ [Next]_vars => RoomsInv'
  BY TypedNext, OwnsNext, TrackedNext DEF RoomsInv
<1>3. QED
  BY <1>1, <1>2, PTL DEF Spec

-----------------------------------------------------------------------------
(* What follows from it.                                                   *)

LEMMA OneRoomHolds ==
  ASSUME RoomsInv
  PROVE  OneRoom
<1>1. ASSUME NEW c \in Users \ Foreign, NEW r \in Rooms, NEW s \in Rooms, In(c, r), In(c, s)
      PROVE  r = s
  <2>1. c \in Users /\ Typed /\ Conversation(c) /\ Place(c)
    BY DEF RoomsInv, Tracked, Console
  <2>2. QED
    BY <1>1, <2>1, InRoom
<1>2. QED
  BY <1>1 DEF OneRoom

\* However the handle loop of a user, its closer, the rooms and the other
\* users interleave, no user of the console client is in two rooms
\* (server.go:60-68, 73-81; room.go:58-65, 69-83).
THEOREM OneRoomAlways == Spec => []OneRoom
BY RoomsInvariance, OneRoomHolds, PTL

\* Between two requests, the room id of a connected console user is that of
\* every room that has it (server.go:64-65, 77-78).
THEOREM MemberKnowsAlways == Spec => []MemberKnows
<1>1. ASSUME RoomsInv, NEW c \in Users \ Foreign, NEW r \in Rooms,
             hpc[c] = "idle", In(c, r)
      PROVE  roomId[c] = r
  <2>1. c \in Users /\ Typed /\ Conversation(c) /\ Place(c)
    BY <1>1 DEF RoomsInv, Tracked, Console
  <2>2. QED
    BY <1>1, <2>1, InRoom
<1>2. RoomsInv => MemberKnows
  BY <1>1 DEF MemberKnows
<1>3. QED
  BY <1>2, RoomsInvariance, PTL

\* As long as a room lists a console user, the nickname it lists is that
\* user's: nobody else can log in under it (room.go:49-53).
THEOREM MemberOwnsNameAlways == Spec => []MemberOwnsName
<1>1. ASSUME RoomsInv, NEW c \in Users \ Foreign, NEW r \in Rooms, NEW n \in Keys,
             usersMap[r][n] = c, In(c, r)
      PROVE  allUsersMap[n] = c
  <2>1. c \in Users /\ Owns /\ Place(c)
    BY <1>1 DEF RoomsInv, Tracked, Console
  <2>2. n = nick[c] /\ n # NoName
    BY <1>1, <2>1 DEF Place, RoomOK
  <2>3. ~Released(c)
    BY <1>1, <2>1 DEF Place, CloserOK, Released
  <2>4. QED
    BY <2>1, <2>2, <2>3 DEF Owns
<1>2. RoomsInv => MemberOwnsName
  BY <1>1 DEF MemberOwnsName
<1>3. QED
  BY <1>2, RoomsInvariance, PTL

\* A console user of whom nothing runs any more has left no nickname and no
\* entry in a room, if its Logout found a room id (room.go:48-54, 69-83).
THEOREM LeftBehindAlways == Spec => []LeftBehind
<1>1. ASSUME RoomsInv, NEW c \in Users \ Foreign, Gone(c), croom[c] # NoRoom
      PROVE  /\ \A n \in Names : allUsersMap[n] # c
             /\ \A r \in Rooms : ~Member(c, r)
  <2>1. Place(c) /\ Released(c)
    BY <1>1 DEF RoomsInv, Tracked, Console, Gone, Released
  <2>2. \A r \in Rooms : ~In(c, r)
    BY <1>1, <2>1 DEF Place, CloserOK, Released
  <2>3. \A r \in Rooms : ~Member(c, r)
    BY <1>1, <2>2 DEF Gone, In
  <2>4. \A n \in Names : allUsersMap[n] # c
    BY <2>1 DEF Place, NamesOK, Keys
  <2>5. QED
    BY <2>3, <2>4
<1>2. RoomsInv => LeftBehind
  BY <1>1 DEF LeftBehind
<1>3. QED
  BY <1>2, RoomsInvariance, PTL

-----------------------------------------------------------------------------
(***************************************************************************)
(* ChatServer implements Lobby: what each step of the handlers, the        *)
(* closers and the rooms is, seen as a step of Lobby.                      *)
(***************************************************************************)

\* The variable where of Lobby.
Where == [c \in Users |-> RoomOf(c)]

\* What RoomOf is, given OneRoom.
Shown ==
  \A c \in Users :
    /\ c \in Foreign \/ (\A r \in Rooms : ~In(c, r)) => RoomOf(c) = NoRoom
    /\ \A r \in Rooms : c \in Console /\ In(c, r) => RoomOf(c) = r

LEMMA ShownHolds ==
  ASSUME OneRoom
  PROVE  Shown
<1>1. ASSUME NEW c \in Console, NEW r \in Rooms, In(c, r)
      PROVE  RoomOf(c) = r
  <2> DEFINE s == CHOOSE t \in Rooms : In(c, t)
  <2>1. s \in Rooms /\ In(c, s)
    BY <1>1
  <2>2. RoomOf(c) = s
    BY <1>1 DEF RoomOf, Console
  <2> HIDE DEF s
  <2>3. QED
    BY <1>1, <2>1, <2>2 DEF OneRoom, Console
<1>2. \A c \in Users : c \in Foreign \/ (\A r \in Rooms : ~In(c, r)) => RoomOf(c) = NoRoom
  BY DEF RoomOf
<1>3. QED
  BY <1>1, <1>2 DEF Shown

\* The invariant the steps start from and end in.
LobbyInv == RoomsInv /\ Shown

LEMMA LobbyInvariance == Spec => []LobbyInv
BY RoomsInvariance, OneRoomHolds, ShownHolds, PTL DEF LobbyInv

-----------------------------------------------------------------------------
(* Steps of Lobby, by what happens to the rooms of the users.               *)

Same(d) == \A r \in Rooms : In(d, r)' <=> In(d, r)

\* A user whose rooms are the same is where it was.
LEMMA StaysThere ==
  ASSUME Shown, Shown', NEW d \in Users, d \in Foreign \/ Same(d)
  PROVE  Where'[d] = Where[d]
<1>1. CASE d \in Foreign \/ \A r \in Rooms : ~In(d, r)
  BY <1>1 DEF Shown, Same, Where
<1>2. ASSUME d \in Console, NEW r \in Rooms, In(d, r)
      PROVE  Where'[d] = Where[d]
  BY <1>2 DEF Shown, Same, Where, Console
<1>3. QED
  BY <1>1, <1>2 DEF Console

\* Nobody moves.
LEMMA NobodyMoves ==
  ASSUME Shown, Shown', \A d \in Console : Same(d)
  PROVE  Where' = Where
<1>1. \A d \in Users : Where'[d] = Where[d]
  BY StaysThere DEF Console
<1>2. QED
  BY <1>1 DEF Where

\* One user moves.
LEMMA OneMoves ==
  ASSUME Shown, Shown', NEW c \in Users, \A d \in Console \ {c} : Same(d)
  PROVE  Where' = [Where EXCEPT ![c] = Where'[c]]
<1>1. \A d \in Users \ {c} : Where'[d] = Where[d]
  BY StaysThere DEF Console
<1>2. QED
  BY <1>1 DEF Where

\* A step in which one user at most leaves the room it was in.
LEMMA PartStep ==
  ASSUME Shown, Shown', UNCHANGED allUsersMap, NEW c \in Users,
         \A d \in Console \ {c} : Same(d), \A r \in Rooms : In(c, r)' => In(c, r)
  PROVE  L!Part(c) \/ UNCHANGED <<allUsersMap, Where>>
<1>1. CASE c \in Foreign \/ Same(c)
  BY <1>1, NobodyMoves DEF Console
<1>2. CASE c \in Console /\ ~Same(c)
  <2>1. PICK r \in Rooms : In(c, r) /\ ~In(c, r)'
    BY <1>2 DEF Same
  <2>2. \A s \in Rooms : ~In(c, s)'
    BY <1>2, <2>1 DEF Shown
  <2>3. Where'[c] = NoRoom
    BY <1>2, <2>2 DEF Shown, Where
  <2>4. Where' = [Where EXCEPT ![c] = NoRoom]
    BY <2>3, OneMoves
  <2>5. QED
    BY <2>4 DEF L!Part, Where
<1>3. QED
  BY <1>1, <1>2 DEF Console

-----------------------------------------------------------------------------
(* The steps of the program.                                               *)

\* Handle loops and closers move no user but their own.
LEMMA ActorSame ==
  ASSUME Typed, NEW c \in Users, Actor(c)
  PROVE  /\ \A d \in Console \ {c} : Same(d)
         /\ \/ UNCHANGED <<room, job, usersMap>>
            \/ /\ \E r \in Rooms : RoomEntering(r, c) \/ RoomLeaving(r, c)
               /\ UNCHANGED allUsersMap
<1> USE DEF mainVars, roomVars, userVars, hVars, closeVars, outVars, cliVars
<1>1. ASSUME NEW r \in Rooms, RoomEntering(r, c) \/ RoomLeaving(r, c)
      PROVE  (\A d \in Console \ {c} : Same(d)) /\ UNCHANGED allUsersMap
  <2>1. (Work(r, "enter", c) \/ Work(r, "leave", c)) /\ UNCHANGED <<usersMap, allUsersMap>>
    BY <1>1 DEF RoomEntering, RoomLeaving
  <2>2. QED
    BY <2>1, WorkIn DEF Same, Console
<1>2. CASE ~(\E r \in Rooms : RoomEntering(r, c) \/ RoomLeaving(r, c))
  <2> SUFFICES UNCHANGED <<room, job, usersMap>>
    BY DEF Same, In, Member
  <2>1. CASE Environment(c) \/ WriteBuff(c) \/ CloserStep(c)
    BY <2>1 DEF Environment, Connect, Type, ClientAny, Disconnect, WriteBuff, CloserStep,
                Logout, LogoutDelete
  <2>2. CASE ReplyStep(c)
    BY <2>2 DEF ReplyStep, SMRespLogin, SMRespLoginAgain, SMRespEnter,
                SMRespEnterAgain, SMRespLeave, SMDisplay, TakeReply
  <2>3. CASE HandlerStep(c)
    BY <2>3 DEF HandlerStep, CMLogin, CMLoginStored, CMEnter, CMEntered, CMLeave, CMLeft,
                CMChat, CMCommandPopular, CMCommandPopularEnd, CMCommandStats, HandlerExit,
                Handle
  <2>4. CASE CMChatSend(c)
    BY <2>4 DEF CMChatSend
  <2>5. QED
    BY <1>2, <2>1, <2>2, <2>3, <2>4 DEF Actor, BlockedSend
<1>3. QED
  BY <1>1, <1>2

\* A room that takes a user's enter: the user joins.
LEMMA EnteringStep ==
  ASSUME LobbyInv, Shown', NEW c \in Users, NEW r \in Rooms, RoomEntering(r, c),
         \A d \in Console \ {c} : Same(d), UNCHANGED allUsersMap
  PROVE  L!Join(c, r) \/ UNCHANGED <<allUsersMap, Where>>
<1>1. CASE c \in Foreign
  BY <1>1, NobodyMoves DEF Console, LobbyInv
<1>2. CASE c \notin Foreign
  <2>1. Typed /\ Owns /\ Conversation(c) /\ Place(c) /\ hpc[c] = "entering" /\ c \in Console
    BY <1>2 DEF LobbyInv, RoomsInv, Tracked, Console, RoomEntering
  <2>2. client[c] = "enterWait" /\ roomId[c] = NoRoom
    BY <2>1, ClientStates DEF Conversation, OffOK, LoginOK, EnterOK, TypingOK, LeaveOK
  <2>3. \A s \in Rooms : ~In(c, s)
    BY <2>1, <2>2, InRoom, RoomsAssumption
  <2>4. Where[c] = NoRoom
    BY <2>3 DEF Shown, LobbyInv, Where
  <2>5. croom[c] = NoRoom /\ nick[c] # NoName
    BY <2>1, <2>2 DEF Place, CloserOK, Conversation
  <2>6. allUsersMap[nick[c]] = c /\ nick[c] \in Keys
    BY <2>1, <2>5 DEF Owns, Released, Typed, TypeOK
  <2>7. In(c, r)'
    BY <2>1 DEF RoomEntering, Work, In, Typed, TypeOK
  <2>8. Where'[c] = r
    BY <2>1, <2>7 DEF Shown, Where
  <2>9. Where' = [Where EXCEPT ![c] = r]
    BY <2>8, OneMoves DEF LobbyInv
  <2>10. QED
    BY <2>4, <2>6, <2>9 DEF L!Join, Where
<1>3. QED
  BY <1>1, <1>2

\* A room that takes a user's leave.
LEMMA LeavingStep ==
  ASSUME LobbyInv, Shown', NEW c \in Users, NEW r \in Rooms, RoomLeaving(r, c),
         \A d \in Console \ {c} : Same(d), UNCHANGED allUsersMap
  PROVE  L!Part(c) \/ UNCHANGED <<allUsersMap, Where>>
<1>1. /\ room[r] = "select" /\ usersMap' = usersMap
      /\ room' = [room EXCEPT ![r] = "leave"] /\ job' = [job EXCEPT ![r] = c]
  BY DEF RoomLeaving, Work
<1>2. \A s \in Rooms : In(c, s)' => In(c, s)
  BY <1>1 DEF In, Member, LobbyInv, RoomsInv, Typed, TypeOK
<1>3. QED
  BY <1>2, PartStep DEF LobbyInv

\* A login takes a free nickname.
LEMMA LoginStep ==
  ASSUME Typed, NEW c \in Users, CMLogin(c), UNCHANGED Where
  PROVE  (\E n \in Keys : L!Take(c, n)) \/ UNCHANGED <<allUsersMap, Where>>
<1> DEFINE n == Head(recvChan[c]).name
<1>1. n \in Keys
  BY HandleType, MsgKinds DEF CMLogin, Typed
<1>2. CASE allUsersMap[n] = NoUser
  <2>1. allUsersMap' = [allUsersMap EXCEPT ![n] = c]
    BY <1>2 DEF CMLogin
  <2>2. QED
    BY <1>1, <1>2, <2>1 DEF L!Take, Where
<1>3. CASE allUsersMap[n] # NoUser
  BY <1>3 DEF CMLogin
<1>4. QED
  BY <1>2, <1>3

\* A logout deletes the nickname of a user that is in no room.
LEMMA LogoutStep ==
  ASSUME LobbyInv, NEW c \in Users, LogoutDelete(c), UNCHANGED Where
  PROVE  (\E n \in Keys : L!Release(n)) \/ UNCHANGED <<allUsersMap, Where>>
<1> DEFINE n == nick[c]
           e == allUsersMap[n]
<1>1. /\ closer[c] = "delete" /\ n \in Keys /\ croom[c] # NoRoom
      /\ allUsersMap' = [allUsersMap EXCEPT ![n] = NoUser] /\ e \in Users \cup {NoUser}
  BY RoomsAssumption DEF LogoutDelete, LobbyInv, RoomsInv, Typed, TypeOK, PcOK
<1>2. CASE e = NoUser
  BY <1>1, <1>2 DEF LobbyInv, RoomsInv, Typed, TypeOK
<1>3. CASE e # NoUser
  <2>1. e \in Users
    BY <1>1, <1>3
  <2>2. e \in Foreign \/ \A r \in Rooms : ~In(e, r)
    <3>1. CASE n = NoName
      BY <1>1, <2>1, <3>1 DEF LobbyInv, RoomsInv, Tracked, Place, NamesOK, Console
    <3>2. CASE n # NoName
      <4>1. e = c
        BY <1>1, <3>2 DEF LobbyInv, RoomsInv, Owns, Released
      <4>2. QED
        BY <1>1, <4>1 DEF LobbyInv, RoomsInv, Tracked, Place, CloserOK, Console
    <3>3. QED
      BY <3>1, <3>2
  <2>3. Where[e] = NoRoom
    BY <2>1, <2>2 DEF Where, Shown, LobbyInv
  <2>4. QED
    BY <1>1, <1>3, <2>3 DEF L!Release, Where
<1>4. QED
  BY <1>2, <1>3

\* A room that puts a user in its map, or finds another entry under the
\* nickname: then the user is not in the room after all.
LEMMA RoomEnterStep ==
  ASSUME LobbyInv, Shown', NEW r \in Rooms, RoomEnter(r)
  PROVE  (\E c \in Users : L!Part(c)) \/ UNCHANGED <<allUsersMap, Where>>
<1> DEFINE c == job[r]
<1>1. c \in Users /\ Typed /\ UNCHANGED allUsersMap
  BY DEF RoomEnter, LobbyInv, RoomsInv, Typed, PcOK
<1>2. PICK p \in {"select", "dead"} : /\ room' = [room EXCEPT ![r] = p]
                                     /\ job' = [job EXCEPT ![r] = NoUser]
  BY DEF RoomEnter, NextCase
<1>3. ASSUME NEW d \in Users, d # c, NEW s \in Rooms, In(d, s)
      PROVE  In(d, s)'
  <2>1. Member(d, s) => Member(d, s)'
    BY <1>1, UsersAssumption DEF Member, RoomEnter, Typed, TypeOK
  <2>2. s = r => Member(d, s)
    BY <1>3 DEF In, RoomEnter
  <2>3. CASE s = r
    BY <1>1, <1>2, <2>1, <2>2, <2>3 DEF In, Typed, TypeOK
  <2>4. CASE s # r
    BY <1>1, <1>2, <1>3, <2>1, <2>4 DEF In, Typed, TypeOK
  <2>5. QED
    BY <2>3, <2>4
<1>4. \A d \in Console \ {c} : Same(d)
  BY <1>1, <1>3, RoomEnterIn DEF Same, Console
<1>5. QED
  BY <1>1, <1>4, RoomEnterIn, PartStep DEF LobbyInv

\* A room that ends a case or takes a chat: a leave removes the entry under
\* the nickname, whoever it is.
LEMMA RestStep ==
  ASSUME LobbyInv, Shown', NEW r \in Rooms, Rest(r)
  PROVE  (\E c \in Users : L!Part(c)) \/ UNCHANGED <<allUsersMap, Where>>
<1> USE DEF mainVars, roomVars, userVars, hVars, closeVars, outVars, cliVars
<1>1. Typed /\ Shown /\ Tracked /\ UNCHANGED allUsersMap
  BY DEF LobbyInv, RoomsInv, Rest, RoomLeave, RoomBroadcast, RoomMessage, RoomClosed
<1>2. ASSUME NEW d \in Console
      PROVE  d \in Users /\ \A s \in Rooms : In(d, s)' => In(d, s)
  <2>1. d \in Users /\ \A n \in Keys : usersMap[r][n] = d => n = nick[d]
    BY <1>1 DEF Tracked, Place, RoomOK, Console
  <2>2. QED
    BY <1>1, <2>1, RestSpares DEF GivesNothing
<1>3. CASE RoomLeave(r)
  <2> DEFINE e == usersMap[r][nick[job[r]]]
  <2>1. PICK p \in {"select", "dead"} : /\ room' = [room EXCEPT ![r] = p]
                                       /\ job' = [job EXCEPT ![r] = NoUser]
    BY <1>3 DEF RoomLeave, NextCase
  <2>2. /\ usersMap' = [usersMap EXCEPT ![r] = [usersMap[r] EXCEPT ![nick[job[r]]] = NoUser]]
        /\ room[r] = "leave" /\ nick[job[r]] \in Keys /\ e \in Users \cup {NoUser}
    BY <1>1, <1>3 DEF RoomLeave, Typed, PcOK, TypeOK
  <2>3. ASSUME NEW d \in Users, d # e, NEW s \in Rooms, In(d, s)
        PROVE  In(d, s)'
    <3>1. Member(d, s) => Member(d, s)'
      BY <1>1, <2>2, <2>3 DEF Member, Typed, TypeOK
    <3>2. s = r => Member(d, s)
      BY <2>2, <2>3 DEF In
    <3>3. CASE s = r
      BY <1>1, <2>1, <3>1, <3>2, <3>3 DEF In, Typed, TypeOK
    <3>4. CASE s # r
      BY <1>1, <2>1, <2>3, <3>1, <3>4 DEF In, Typed, TypeOK
    <3>5. QED
      BY <3>3, <3>4
  <2>4. \A d \in Console \ {e} : Same(d)
    BY <1>2, <2>3 DEF Same
  <2>5. CASE e \in Console
    BY <1>1, <1>2, <2>4, <2>5, PartStep
  <2>6. CASE e \notin Console
    BY <1>1, <2>4, <2>6, NobodyMoves
  <2>7. QED
    BY <2>5, <2>6
<1>4. CASE RoomBroadcast(r) \/ RoomMessage(r) \/ RoomClosed(r)
  <2>1. PICK p \in {"select", "record", "closed"} : room' = [room EXCEPT ![r] = p]
    BY <1>4 DEF RoomBroadcast, NextCase, RoomMessage, Work, RoomClosed
  <2>2. usersMap' = usersMap /\ \A s \in Rooms \ {r} : job'[s] = job[s]
    BY <1>1, <1>4 DEF RoomBroadcast, NextCase, RoomMessage, Work, RoomClosed, Typed, TypeOK
  <2>3. room[r] \notin {"enter", "leave"}
    BY <1>4 DEF RoomBroadcast, RoomMessage, Work, RoomClosed
  <2>4. ASSUME NEW d \in Console, NEW s \in Rooms, In(d, s)
        PROVE  In(d, s)'
    <3>1. CASE s = r
      BY <1>1, <2>1, <2>2, <2>3, <2>4, <3>1 DEF In, Member, Typed, TypeOK
    <3>2. CASE s # r
      BY <1>1, <2>1, <2>2, <2>4, <3>2 DEF In, Member, Typed, TypeOK
    <3>3. QED
      BY <3>1, <3>2
  <2>5. \A d \in Console : Same(d)
    BY <1>2, <2>4 DEF Same
  <2>6. QED
    BY <1>1, <2>5, NobodyMoves
<1>5. QED
  BY <1>3, <1>4 DEF Rest

\* What a handle loop, a client or a closer does.
LEMMA ActorStep ==
  ASSUME LobbyInv, Shown', NEW c \in Users, Actor(c)
  PROVE  L!Next \/ UNCHANGED <<allUsersMap, Where>>
<1>1. Typed /\ Shown /\ \A d \in Console \ {c} : Same(d)
  BY ActorSame DEF LobbyInv, RoomsInv
<1>2. ASSUME NEW r \in Rooms, RoomEntering(r, c) \/ RoomLeaving(r, c)
      PROVE  L!Next \/ UNCHANGED <<allUsersMap, Where>>
  <2>1. UNCHANGED allUsersMap
    BY <1>2 DEF RoomEntering, RoomLeaving
  <2>2. QED
    BY <1>1, <1>2, <2>1, EnteringStep, LeavingStep DEF L!Next
<1>3. CASE UNCHANGED <<room, job, usersMap>>
  <2>1. UNCHANGED Where
    BY <1>1, <1>3, NobodyMoves DEF Same, In, Member
  <2>2. CASE CMLogin(c) \/ LogoutDelete(c)
    BY <1>1, <2>1, <2>2, LoginStep, LogoutStep DEF L!Next
  <2>3. CASE ~(CMLogin(c) \/ LogoutDelete(c))
    <3> SUFFICES UNCHANGED allUsersMap
      BY <2>1
    <3>1. CASE Environment(c) \/ WriteBuff(c) \/ CloserStep(c) \/ BlockedSend(c)
      BY <2>3, <3>1 DEF Environment, Connect, Type, ClientAny, Disconnect, WriteBuff,
                CloserStep, Logout, BlockedSend, CMChatSend, RoomEntering, RoomLeaving
    <3>2. CASE ReplyStep(c)
      BY <3>2 DEF ReplyStep, SMRespLogin, SMRespLoginAgain, SMRespEnter,
                  SMRespEnterAgain, SMRespLeave, SMDisplay, TakeReply
    <3>3. CASE HandlerStep(c)
      BY <2>3, <3>3 DEF HandlerStep, CMLoginStored, CMEnter, CMEntered, CMLeave, CMLeft,
                  CMChat, CMCommandPopular, CMCommandPopularEnd, CMCommandStats, HandlerExit
    <3>4. QED
      BY <3>1, <3>2, <3>3 DEF Actor
  <2>4. QED
    BY <2>2, <2>3
<1>4. QED
  BY <1>1, <1>2, <1>3, ActorSame

\* Every step of the program is a step of Lobby or changes nothing there.
LEMMA LobbyStep ==
  ASSUME LobbyInv, Shown', [Next]_vars
  PROVE  L!Next \/ UNCHANGED <<allUsersMap, Where>>
<1>1. ASSUME NEW c \in Users, Actor(c)
      PROVE  L!Next \/ UNCHANGED <<allUsersMap, Where>>
  BY <1>1, ActorStep
<1>2. ASSUME NEW r \in Rooms, RoomEnter(r) \/ Rest(r)
      PROVE  L!Next \/ UNCHANGED <<allUsersMap, Where>>
  BY <1>2, RoomEnterStep, RestStep DEF L!Next
<1>3. CASE UNCHANGED <<roomVars, messageChannel, allUsersMap, userVars, hVars, closeVars,
                       recvChan, outVars, cliVars>>
  <2>1. UNCHANGED <<room, job, usersMap, allUsersMap>>
    BY <1>3 DEF roomVars
  <2>2. QED
    BY <2>1, NobodyMoves DEF Same, In, Member, LobbyInv
<1>4. QED
  BY <1>1, <1>2, <1>3, Steps

\* Handlers, closers and room goroutines together do what Lobby allows
\* (room.go:40-83, server.go:44-81): a nickname is taken only when it is free,
\* a console user joins a room only with a nickname and out of every other
\* room, and a nickname is freed only when its owner is in no room.
THEOREM LobbyImplemented == Spec => ImplementsLobby
<1>1. Init => L!Init
  <2>1. ASSUME Init, NEW c \in Users
        PROVE  RoomOf(c) = NoRoom
    <3>1. \A r \in Rooms : ~In(c, r)
      BY <2>1, UsersAssumption DEF Init, In, Member
    <3>2. QED
      BY <3>1 DEF RoomOf
  <2>2. QED
    BY <2>1 DEF Init, L!Init
<1>2. LobbyInv /\ Shown' /\ [Next]_vars => [L!Next]_(L!lobbyVars)
  BY LobbyStep DEF L!lobbyVars, Where
<1>3. QED
  BY <1>1, <1>2, LobbyInvariance, PTL DEF Spec, ImplementsLobby, L!Spec, LobbyInv

-----------------------------------------------------------------------------
(* The console client is answered: of a login, an enter or a leave it      *)
(* waits for, the request or its answer is always somewhere on its way,    *)
(* and never twice.                                                        *)

\* Room r is about to put c in its map and to send it the history.
Waiting(c, r) == room[r] = "enter" /\ job[r] = c

EnterAnswers == {"ENTER_OK", "INVALID_ROOM_ID"}
HasAnswer(s) == \E i \in 1 .. Len(s) : s[i] \in EnterAnswers

\* The request a connected console waits for, its handler or its answer is
\* there.  Before ENTER_OK at most one history lies in packetSendChan, so it
\* has a place there.
Answered(c) ==
  ~Closed(c) =>
    /\ client[c] = "loginWait" =>
         \/ Len(recvChan[c]) # 0
         \/ hpc[c] = "named"
         \/ Len(sendChan[c]) # 0
    /\ client[c] = "enterWait" =>
         \/ Len(recvChan[c]) # 0
         \/ hpc[c] = "entering"
         \/ /\ hpc[c] = "entered" /\ Len(sendChan[c]) <= MaxOffline
            /\ (\E r \in Rooms : Waiting(c, r)) => Len(sendChan[c]) = 0
         \/ HasAnswer(sendChan[c])

-----------------------------------------------------------------------------
(* What a step does to an answer in a queue.                               *)

LEMMA AnswerTaken ==
  ASSUME NEW s \in Seq(Replies), s # <<>>, Head(s) \notin EnterAnswers, HasAnswer(s)
  PROVE  HasAnswer(Tail(s))
<1>1. PICK i \in 1 .. Len(s) : s[i] \in EnterAnswers
  BY DEF HasAnswer
<1>2. i # 1 /\ i - 1 \in 1 .. Len(Tail(s)) /\ Tail(s)[i - 1] = s[i]
  BY <1>1
<1>3. QED
  BY <1>1, <1>2 DEF HasAnswer

LEMMA AnswerAppended ==
  ASSUME NEW s \in Seq(Replies), NEW m \in Replies, HasAnswer(s) \/ m \in EnterAnswers
  PROVE  HasAnswer(Append(s, m))
<1>1. CASE HasAnswer(s)
  BY <1>1 DEF HasAnswer
<1>2. CASE m \in EnterAnswers
  <2>1. Len(s) + 1 \in 1 .. Len(Append(s, m)) /\ Append(s, m)[Len(s) + 1] = m
    OBVIOUS
  <2>2. QED
    BY <1>2, <2>1 DEF HasAnswer
<1>3. QED
  BY <1>1, <1>2

LEMMA AnswerKept ==
  ASSUME NEW s \in Seq(Replies), NEW t \in Seq(Replies), HasAnswer(s)
  PROVE  HasAnswer(s \o t)
BY DEF HasAnswer

-----------------------------------------------------------------------------
(* Answered is inductive beside RoomsInv.                                  *)

\* A step of others.
LEMMA AnsweredFrame ==
  ASSUME NEW d \in Users, Answered(d), UNCHANGED Local(d),
         \A r \in Rooms : Waiting(d, r)' => Waiting(d, r)
  PROVE  Answered(d)'
BY DEF Answered, Closed, Local

\* Only the user a room takes in waits for it.
LEMMA ActorWaits ==
  ASSUME Typed, NEW c \in Users, Actor(c), NEW d \in Users,
         d # c \/ ~(\E r \in Rooms : RoomEntering(r, c))
  PROVE  \A r \in Rooms : Waiting(d, r)' => Waiting(d, r)
<1> USE DEF mainVars, roomVars, userVars, hVars, closeVars, outVars, cliVars
<1>1. ASSUME NEW r \in Rooms, RoomEntering(r, c) \/ RoomLeaving(r, c)
      PROVE  \A s \in Rooms : Waiting(d, s)' => Waiting(d, s)
  BY <1>1 DEF RoomEntering, RoomLeaving, Work, Waiting, Typed, TypeOK
<1>2. CASE ~(\E r \in Rooms : RoomEntering(r, c) \/ RoomLeaving(r, c))
  <2> SUFFICES UNCHANGED <<room, job>>
    BY DEF Waiting
  <2>1. CASE Environment(c) \/ WriteBuff(c) \/ CloserStep(c)
    BY <2>1 DEF Environment, Connect, Type, ClientAny, Disconnect, WriteBuff, CloserStep,
                Logout, LogoutDelete
  <2>2. CASE ReplyStep(c)
    BY <2>2 DEF ReplyStep, SMRespLogin, SMRespLoginAgain, SMRespEnter,
                SMRespEnterAgain, SMRespLeave, SMDisplay, TakeReply
  <2>3. CASE HandlerStep(c)
    BY <2>3 DEF HandlerStep, CMLogin, CMLoginStored, CMEnter, CMEntered, CMLeave, CMLeft,
                CMChat, CMCommandPopular, CMCommandPopularEnd, CMCommandStats, HandlerExit,
                Handle
  <2>4. CASE CMChatSend(c)
    BY <2>4 DEF CMChatSend
  <2>5. QED
    BY <1>2, <2>1, <2>2, <2>3, <2>4 DEF Actor, BlockedSend
<1>3. QED
  BY <1>1, <1>2

\* Where a handler's pc says what the client waits for.
LEMMA PcClient ==
  ASSUME Typed, NEW c \in Users, Conversation(c)
  PROVE  /\ hpc[c] = "named" => client[c] = "loginWait"
         /\ hpc[c] \in {"entering", "entered"} => client[c] = "enterWait"
         /\ hpc[c] \in {"sending", "popular"} => client[c] \in {"typing", "leaveWait"}
         /\ hpc[c] \in {"leaving", "left"} => client[c] = "leaveWait"
BY ClientStates DEF Conversation, OffOK, LoginOK, EnterOK, TypingOK, LeaveOK

LEMMA ReplyAnswered ==
  ASSUME Typed, NEW c \in Console, ReplyStep(c), Conversation(c), Answered(c)
  PROVE  Answered(c)'
<1>1. PICK m \in Replies : TakeReply(c, m)
  BY DEF ReplyStep, SMRespLogin, SMRespLoginAgain, SMRespEnter,
               SMRespEnterAgain, SMRespLeave, SMDisplay, Replies
<1>2. /\ c \in Users /\ ~Closed(c) /\ sendChan[c] # <<>> /\ Head(sendChan[c]) = m
      /\ UNCHANGED <<room, job, hpc, closer>>
      /\ sendChan'[c] = Tail(sendChan[c]) /\ sendChan[c] \in Seq(Replies)
  BY <1>1, Domains DEF TakeReply, Console, roomVars, hVars, closeVars, Typed, TypeOK
<1>3. CASE SMRespLogin(c) \/ SMRespLeave(c) \/ SMRespEnterAgain(c)
  <2>1. /\ m \in {"LOGIN_OK", "LEAVE_OK", "INVALID_ROOM_ID"}
        /\ \E r \in RoomIds : ClientSend(c, EnterMsg(r))
    BY <1>2, <1>3 DEF SMRespLogin, SMRespLeave, SMRespEnterAgain, TakeReply
  <2>2. /\ m = "LOGIN_OK" => client[c] = "loginWait"
        /\ m = "INVALID_ROOM_ID" =>
             client[c] = "enterWait" /\ roomId[c] = NoRoom /\ hpc[c] # "entered"
        /\ m = "LEAVE_OK" => client[c] = "leaveWait" /\ roomId[c] = NoRoom
    BY <1>2, FrontReply
  <2>3. Len(sendChan[c]) # 0
    BY <1>2
  <2>4. Len(recvChan[c]) = 0
    BY <2>1, <2>2, <2>3 DEF Conversation, LoginOK, EnterOK, LeaveOK
  <2>5. Len(recvChan'[c]) = 1
    BY <1>2, <2>1, <2>4, Sent, MsgTypes
  <2>6. client'[c] = "enterWait"
    BY <1>2, <1>3, <2>2, Domains DEF SMRespLogin, SMRespLeave, SMRespEnterAgain, TakeReply
  <2>7. QED
    BY <2>5, <2>6 DEF Answered
<1>4. CASE SMRespLoginAgain(c)
  <2>1. /\ m = "NICK_NAME_EXIST" /\ client' = client
        /\ \E n \in Names : ClientSend(c, LoginMsg(n))
    BY <1>2, <1>4 DEF SMRespLoginAgain, TakeReply
  <2>2. client[c] = "loginWait" /\ LoginOK(c) /\ Len(sendChan[c]) # 0
    BY <1>2, <2>1, FrontReply DEF Conversation
  <2>3. Len(recvChan'[c]) = 1
    BY <1>2, <2>1, <2>2, Sent, MsgTypes DEF LoginOK, Keys
  <2>4. QED
    BY <2>1, <2>2, <2>3 DEF Answered
<1>5. CASE SMRespEnter(c)
  BY <1>2, <1>5, Domains DEF SMRespEnter, Answered
<1>6. CASE SMDisplay(c)
  <2>1. m \in {"history", "popular", "stats", "NOT_IN_ROOM"} /\ UNCHANGED <<client, recvChan>>
    BY <1>2, <1>6 DEF SMDisplay, TakeReply, Console
  <2>2. client[c] # "loginWait"
    BY <1>2, <2>1, FrontReply
  <2>3. HasAnswer(sendChan[c]) => HasAnswer(sendChan'[c])
    BY <1>2, <2>1, AnswerTaken DEF EnterAnswers
  <2>4. /\ Len(sendChan[c]) <= MaxOffline => Len(sendChan'[c]) <= MaxOffline
        /\ Len(sendChan[c]) # 0
    BY <1>2, BoundsAssumption
  <2>5. \A r \in Rooms : Waiting(c, r)' <=> Waiting(c, r)
    BY <1>2 DEF Waiting
  <2>6. QED
    BY <1>2, <2>1, <2>2, <2>3, <2>4, <2>5 DEF Answered, Closed
<1>7. QED
  BY <1>3, <1>4, <1>5, <1>6 DEF ReplyStep

\* packetSendChan takes the whole history and the answer behind it
\* (100 at cmd/server/main.go:39, 50 at room.go:21).
SendSuffices == SendCap > MaxOffline

LEMMA HandlerAnswered ==
  ASSUME SendSuffices, Typed, NEW c \in Console, HandlerStep(c), Conversation(c), Answered(c)
  PROVE  Answered(c)'
<1> USE DEF mainVars, roomVars, userVars, hVars, closeVars, outVars, cliVars
<1>1. c \in Users /\ sendChan[c] \in Seq(Replies)
  BY DEF Console, Typed, TypeOK
<1>2. CASE CMLogin(c)
  <2>1. /\ Handle(c, "login") /\ Len(sendChan[c]) = 0 /\ client[c] = "loginWait"
        /\ UNCHANGED <<closer, client>>
    BY <1>1, <1>2, FrontRequest, RequestTaken DEF CMLogin
  <2>2. \/ hpc'[c] = "named"
        \/ Reply(c, "NICK_NAME_EXIST")
    BY <1>1, <1>2, Domains DEF CMLogin, Goto
  <2>3. ~Closed(c) /\ Reply(c, "NICK_NAME_EXIST") => Len(sendChan'[c]) # 0
    BY <1>1, <2>1, Replied, Appended, BoundsAssumption DEF Replies
  <2>4. QED
    BY <2>1, <2>2, <2>3 DEF Answered, Closed
<1>3. CASE CMLoginStored(c)
  <2>1. /\ hpc[c] = "named" /\ Reply(c, "LOGIN_OK") /\ UNCHANGED <<closer, client>>
    BY <1>3 DEF CMLoginStored
  <2>2. client[c] = "loginWait" /\ Len(sendChan[c]) = 0
    BY <1>1, <2>1, PcClient DEF Conversation, LoginOK
  <2>3. ~Closed(c) => Len(sendChan'[c]) # 0
    BY <1>1, <2>1, <2>2, Replied, Appended, BoundsAssumption DEF Replies
  <2>4. QED
    BY <2>1, <2>2, <2>3 DEF Answered, Closed
<1>4. CASE CMEnter(c)
  <2>1. /\ Handle(c, "enter") /\ Len(sendChan[c]) = 0 /\ client[c] = "enterWait"
        /\ UNCHANGED <<closer, client>>
    BY <1>1, <1>4, FrontRequest, RequestTaken DEF CMEnter
  <2>2. \/ hpc'[c] = "entering"
        \/ Reply(c, "INVALID_ROOM_ID")
    BY <1>1, <1>4, Domains DEF CMEnter, Goto
  <2>3. ~Closed(c) /\ Reply(c, "INVALID_ROOM_ID") => HasAnswer(sendChan'[c])
    <3>1. ~Closed(c) /\ Reply(c, "INVALID_ROOM_ID")
            => sendChan'[c] = Append(sendChan[c], "INVALID_ROOM_ID")
      BY <1>1, <2>1, Replied, BoundsAssumption DEF Replies
    <3>2. HasAnswer(Append(sendChan[c], "INVALID_ROOM_ID"))
      BY <1>1, AnswerAppended DEF Replies, EnterAnswers
    <3>3. QED
      BY <3>1, <3>2
  <2>4. QED
    BY <2>1, <2>2, <2>3 DEF Answered, Closed
<1>5. CASE CMEntered(c)
  <2>1. /\ hpc[c] = "entered" /\ Reply(c, "ENTER_OK") /\ UNCHANGED <<closer, client>>
    BY <1>5 DEF CMEntered
  <2>2. client[c] = "enterWait" /\ Only(sendChan[c], {"history"}) /\ Len(recvChan[c]) = 0
    BY <1>1, <2>1, PcClient DEF Conversation, EnterOK
  <2>3. ~HasAnswer(sendChan[c])
    BY <2>2 DEF Only, HasAnswer, EnterAnswers
  <2>4. ~Closed(c) => Len(sendChan[c]) < SendCap
    BY <1>1, <2>1, <2>2, <2>3, BoundsAssumption DEF Answered, SendSuffices
  <2>5. ~Closed(c) => HasAnswer(sendChan'[c])
    <3>1. ~Closed(c) => sendChan'[c] = Append(sendChan[c], "ENTER_OK")
      BY <1>1, <2>1, <2>4, Replied DEF Replies
    <3>2. HasAnswer(Append(sendChan[c], "ENTER_OK"))
      BY <1>1, AnswerAppended DEF Replies, EnterAnswers
    <3>3. QED
      BY <3>1, <3>2
  <2>6. QED
    BY <2>1, <2>2, <2>5 DEF Answered, Closed
<1>6. CASE CMLeave(c) \/ CMChat(c) \/ CMCommandPopular(c) \/ CMCommandStats(c)
  <2>1. /\ Handle(c, "leave") \/ Handle(c, "chat") \/ Handle(c, "popular")
             \/ Handle(c, "stats")
        /\ client' = client
    BY <1>6 DEF CMLeave, CMChat, CMCommandPopular, CMCommandStats, Handle
  <2>2. client[c] \in {"typing", "leaveWait"}
    BY <1>1, <2>1, FrontRequest
  <2>3. QED
    BY <2>1, <2>2 DEF Answered
<1>7. CASE CMLeft(c) \/ CMCommandPopularEnd(c)
  <2>1. hpc[c] \in {"left", "popular"} /\ client' = client
    BY <1>7 DEF CMLeft, CMCommandPopularEnd
  <2>2. QED
    BY <1>1, <2>1, PcClient DEF Answered
<1>8. CASE HandlerExit(c)
  BY <1>8 DEF HandlerExit, Answered, Closed
<1>9. QED
  BY <1>2, <1>3, <1>4, <1>5, <1>6, <1>7, <1>8 DEF HandlerStep

\* A room has taken in c: nothing waits to be sent to it.
LEMMA EnteringAnswered ==
  ASSUME Typed, NEW c \in Console, NEW r \in Rooms, RoomEntering(r, c), Conversation(c)
  PROVE  Answered(c)'
<1>1. /\ c \in Users /\ hpc[c] = "entering" /\ hpc'[c] = "entered"
      /\ UNCHANGED <<sendChan, client>>
  BY Domains DEF RoomEntering, Console, outVars, cliVars
<1>2. client[c] = "enterWait" /\ Len(sendChan[c]) = 0
  BY <1>1, PcClient DEF Conversation, EnterOK
<1>3. QED
  BY <1>1, <1>2, BoundsAssumption DEF Answered

LEMMA OwnAnswered ==
  ASSUME SendSuffices, Typed, NEW c \in Console, Actor(c), Conversation(c), Answered(c)
  PROVE  Answered(c)'
<1> USE DEF mainVars, roomVars, userVars, hVars, closeVars, outVars, cliVars
<1>1. c \in Users /\ c \notin Foreign
  BY DEF Console
<1>2. CASE Environment(c)
  <2>1. ASSUME NEW n \in Names, Connect(c, n)
        PROVE  Answered(c)'
    <3>1. client'[c] = "loginWait" /\ ClientSend(c, LoginMsg(n)) /\ client[c] = "off"
      BY <1>1, <2>1, Domains DEF Connect
    <3>2. Len(recvChan'[c]) = 1
      BY <1>1, <3>1, Sent, MsgTypes, EmptyQueue DEF Conversation, OffOK, Keys
    <3>3. QED
      BY <3>1, <3>2 DEF Answered
  <2>2. CASE Type(c)
    <3>1. client'[c] \in {"typing", "leaveWait"}
      BY <1>1, <2>2, Domains DEF Type
    <3>2. QED
      BY <3>1 DEF Answered
  <2>3. CASE ClientAny(c)
    BY <1>1, <2>3 DEF ClientAny, Conversation
  <2>4. CASE Disconnect(c)
    BY <1>1, <2>4, Domains DEF Disconnect, Answered, Closed
  <2>5. QED
    BY <1>2, <2>1, <2>2, <2>3, <2>4 DEF Environment
<1>3. CASE ReplyStep(c)
  BY <1>3, ReplyAnswered
<1>4. CASE WriteBuff(c)
  BY <1>4 DEF WriteBuff, Answered, Closed, Waiting
<1>5. CASE HandlerStep(c)
  BY <1>5, HandlerAnswered
<1>6. CASE BlockedSend(c)
  <2>1. CASE CMChatSend(c)
    BY <1>1, <2>1, PcClient DEF CMChatSend, Answered
  <2>2. ASSUME NEW r \in Rooms, RoomLeaving(r, c)
        PROVE  Answered(c)'
    <3>1. CASE hpc[c] = "leaving"
      BY <1>1, <2>2, <3>1, PcClient DEF RoomLeaving, Answered
    <3>2. CASE closer[c] = "leaving" /\ closer' = [closer EXCEPT ![c] = "delete"]
      BY <1>1, <3>2, Domains DEF Answered, Closed
    <3>3. QED
      BY <2>2, <3>1, <3>2 DEF RoomLeaving
  <2>3. QED
    BY <1>6, <2>1, <2>2, EnteringAnswered DEF BlockedSend
<1>7. CASE CloserStep(c)
  <2>1. Closed(c)'
    BY <1>1, <1>7, Domains DEF CloserStep, Logout, LogoutDelete, Closed
  <2>2. QED
    BY <2>1 DEF Answered
<1>8. QED
  BY <1>2, <1>3, <1>4, <1>5, <1>6, <1>7 DEF Actor

\* The history goes in front of an answer not sent yet, or behind it.
LEMMA HistoryAnswered ==
  ASSUME RoomsInv, NEW c \in Console, NEW r \in Rooms, RoomEnter(r), c = job[r], Answered(c)
  PROVE  Answered(c)'
<1> DEFINE k == Cardinality(Stored(offlineMsg[r]))
           h == [i \in 1 .. HistoryTaken(c, k) |-> "history"]
<1>1. /\ c \in Users /\ Typed /\ Waiting(c, r) /\ sendChan'[c] = sendChan[c] \o h
      /\ UNCHANGED <<closer, client, hpc, recvChan>>
  BY Domains DEF RoomEnter, SendHistory, RoomsInv, Console, Waiting, hVars, closeVars, cliVars
<1>2. k \in Nat /\ k <= MaxOffline
  <2>1. IsFiniteSet(1 .. MaxOffline) /\ Cardinality(1 .. MaxOffline) = MaxOffline
    BY BoundsAssumption, FS_Interval
  <2>2. Stored(offlineMsg[r]) \subseteq 1 .. MaxOffline
    BY DEF Stored
  <2>3. QED
    BY <2>1, <2>2, FS_Subset, FS_CardinalityType
<1>3. sendChan[c] \in Seq(Replies) /\ Len(sendChan[c]) \in Nat
  BY <1>1 DEF Typed, TypeOK
<1>4. HistoryTaken(c, k) \in 0 .. k
  BY <1>2, <1>3, BoundsAssumption DEF HistoryTaken
<1>5. h \in Seq(Replies) /\ Len(h) = HistoryTaken(c, k)
  BY <1>4 DEF Replies
<1> HIDE DEF h
<1>6. Len(sendChan'[c]) = Len(sendChan[c]) + Len(h)
  <2>1. Len(sendChan[c] \o h) = Len(sendChan[c]) + Len(h)
    BY <1>3, <1>5
  <2>2. QED
    BY <1>1, <2>1
<1>7. Len(sendChan[c]) = 0 => Len(sendChan'[c]) <= MaxOffline
  BY <1>2, <1>3, <1>4, <1>5, <1>6, BoundsAssumption
<1>8. HasAnswer(sendChan[c]) => HasAnswer(sendChan'[c])
  BY <1>1, <1>3, <1>5, AnswerKept
<1>9. Len(sendChan[c]) # 0 => Len(sendChan'[c]) # 0
  BY <1>3, <1>4, <1>5, <1>6, <1>2
<1>10. \A s \in Rooms : ~Waiting(c, s)'
  <2>1. \A s \in Rooms : Waiting(c, s) => s = r
    BY <1>1, OneRoomHolds DEF OneRoom, In, Waiting, Console
  <2>2. \A s \in Rooms : Waiting(c, s)' => Waiting(c, s) /\ s # r
    BY <1>1 DEF Waiting, RoomEnter, NextCase, Typed, TypeOK
  <2>3. QED
    BY <2>1, <2>2
<1>11. QED
  BY <1>1, <1>7, <1>8, <1>9, <1>10 DEF Answered, Closed

\* A room that ends a case, or starts one, lets nobody more wait.
LEMMA RoomWaits ==
  ASSUME Typed, NEW r \in Rooms, RoomEnter(r) \/ Rest(r), NEW d \in Users
  PROVE  \A s \in Rooms : Waiting(d, s)' => Waiting(d, s)
<1>1. PICK p \in {"select", "dead", "record", "closed"} : room' = [room EXCEPT ![r] = p]
  BY DEF RoomEnter, Rest, RoomLeave, RoomBroadcast, NextCase, RoomMessage, Work, RoomClosed
<1>2. \A s \in Rooms \ {r} : job'[s] = job[s]
  BY DEF RoomEnter, Rest, RoomLeave, RoomBroadcast, NextCase, RoomMessage, Work, RoomClosed,
         Typed, TypeOK
<1>3. QED
  BY <1>1, <1>2 DEF Waiting, Typed, TypeOK

AllAnswered == \A c \in Console : Answered(c)

LEMMA AnsweredNext ==
  ASSUME SendSuffices, RoomsInv, AllAnswered, [Next]_vars
  PROVE  AllAnswered'
<1>1. ASSUME NEW d \in Console
      PROVE  Answered(d)'
  <2>1. d \in Users /\ Typed /\ Conversation(d) /\ Place(d) /\ Answered(d)
    BY DEF RoomsInv, Tracked, Console, AllAnswered
  <2>2. ASSUME NEW c \in Users, Actor(c)
        PROVE  Answered(d)'
    <3>1. CASE c = d
      BY <2>1, <2>2, <3>1, OwnAnswered
    <3>2. CASE c # d
      BY <2>1, <2>2, <3>2, ActorSpares, ActorWaits, AnsweredFrame
    <3>3. QED
      BY <3>1, <3>2
  <2>3. ASSUME NEW r \in Rooms, RoomEnter(r) \/ Rest(r)
        PROVE  Answered(d)'
    <3>1. \A s \in Rooms : Waiting(d, s)' => Waiting(d, s)
      BY <2>1, <2>3, RoomWaits
    <3>2. CASE RoomEnter(r)
      BY <2>1, <3>1, <3>2, RoomEnterSpares, HistoryAnswered, AnsweredFrame
    <3>3. CASE Rest(r)
      <4>1. \A n \in Keys : usersMap[r][n] = d => n = nick[d]
        BY <2>1 DEF Place, RoomOK
      <4>2. QED
        BY <2>1, <3>1, <3>3, <4>1, RestSpares, AnsweredFrame
    <3>4. QED
      BY <2>3, <3>2, <3>3
  <2>4. CASE UNCHANGED <<roomVars, messageChannel, allUsersMap, userVars, hVars, closeVars,
                         recvChan, outVars, cliVars>>
    BY <2>1, <2>4, AnsweredFrame
       DEF Local, Waiting, roomVars, userVars, hVars, closeVars, outVars, cliVars
  <2>5. QED
    BY <2>2, <2>3, <2>4, Steps
<1>2. QED
  BY <1>1 DEF AllAnswered, Console

-----------------------------------------------------------------------------
(* Counting what is under way.                                             *)

LEMMA Count ==
  ASSUME NEW I
  PROVE  /\ I = {} => Cardinality(I) = 0
         /\ (\A i, j \in I : i = j) => Cardinality(I) \in {0, 1}
         /\ (\A i, j \in I : i = j) /\ I # {} => Cardinality(I) = 1
<1>1. I = {} => Cardinality(I) = 0
  BY FS_EmptySet
<1>2. ASSUME \A i, j \in I : i = j, I # {}
      PROVE  Cardinality(I) = 1
  <2>1. PICK i : I = {i}
    BY <1>2
  <2>2. QED
    BY <2>1, FS_Singleton
<1>3. QED
  BY <1>1, <1>2

Requests(c, op)     == { i \in DOMAIN recvChan[c] : recvChan[c][i].op = op }
Answers(c, answers) == { i \in DOMAIN sendChan[c] : sendChan[c][i] \in answers }
Handled(c, op)      == IF hreq[c].op = op THEN 1 ELSE 0

\* The three places of a request, one at a time.
LEMMA Places ==
  ASSUME NEW c, NEW op, NEW A
  PROVE  /\ UnderWay(c, op, A) = Cardinality(Requests(c, op)) + Cardinality(Answers(c, A))
                                   + Handled(c, op)
         /\ Requests(c, op) = {} /\ Answers(c, A) = {} => UnderWay(c, op, A) = Handled(c, op)
         /\ Requests(c, op) = {} /\ hreq[c].op # op /\ (\A i, j \in Answers(c, A) : i = j)
              => UnderWay(c, op, A) = IF Answers(c, A) = {} THEN 0 ELSE 1
         /\ Answers(c, A) = {} /\ hreq[c].op # op /\ (\A i, j \in Requests(c, op) : i = j)
              => UnderWay(c, op, A) = IF Requests(c, op) = {} THEN 0 ELSE 1
<1>1. UnderWay(c, op, A) = Cardinality(Requests(c, op)) + Cardinality(Answers(c, A))
                             + Handled(c, op)
  BY DEF UnderWay, Requests, Answers, Handled
<1>2. Handled(c, op) \in {0, 1} /\ (hreq[c].op # op => Handled(c, op) = 0)
  BY DEF Handled
<1> DEFINE q == Requests(c, op)
           a == Answers(c, A)
<1>3. /\ q = {} => Cardinality(q) = 0
      /\ (\A i, j \in q : i = j) /\ q # {} => Cardinality(q) = 1
  BY Count
<1>4. /\ a = {} => Cardinality(a) = 0
      /\ (\A i, j \in a : i = j) /\ a # {} => Cardinality(a) = 1
  BY Count
<1> HIDE DEF q, a
<1>5. UnderWay(c, op, A) = Cardinality(q) + Cardinality(a) + Handled(c, op)
  BY <1>1 DEF q, a
<1>6. /\ q = {} /\ a = {} => UnderWay(c, op, A) = Handled(c, op)
      /\ q = {} /\ hreq[c].op # op /\ (\A i, j \in a : i = j)
           => UnderWay(c, op, A) = IF a = {} THEN 0 ELSE 1
      /\ a = {} /\ hreq[c].op # op /\ (\A i, j \in q : i = j)
           => UnderWay(c, op, A) = IF q = {} THEN 0 ELSE 1
  BY <1>2, <1>3, <1>4, <1>5
<1>7. QED
  BY <1>1, <1>6 DEF q, a

\* Queues that hold nothing, or nothing of the kind.
LEMMA NoRequests ==
  ASSUME Typed, NEW c \in Users, NEW S, Only(recvChan[c], S), NEW op,
         \A m \in S : m.op # op
  PROVE  Requests(c, op) = {}
<1>1. recvChan[c] \in Seq(Msgs)
  BY DEF Typed, TypeOK
<1>2. QED
  BY <1>1 DEF Requests, Only

LEMMA NoAnswers ==
  ASSUME Typed, NEW c \in Users, NEW S, Only(sendChan[c], S), NEW A, S \cap A = {}
  PROVE  Answers(c, A) = {}
<1>1. sendChan[c] \in Seq(Replies)
  BY DEF Typed, TypeOK
<1>2. QED
  BY <1>1 DEF Answers, Only

\* A queue of one request.
LEMMA OneRequest ==
  ASSUME Typed, NEW c \in Users, NEW S, Only(recvChan[c], S), NEW op,
         \A m \in S : m.op = op
  PROVE  /\ Len(recvChan[c]) = 0 => Requests(c, op) = {}
         /\ Len(recvChan[c]) = 1 => Requests(c, op) = {1}
<1>1. recvChan[c] \in Seq(Msgs)
  BY DEF Typed, TypeOK
<1>2. QED
  BY <1>1 DEF Requests, Only

LoginAnswers == {"LOGIN_OK", "NICK_NAME_EXIST"}

\* What the handle loop of a console user is busy with.
LEMMA HandlerOp ==
  ASSUME Typed, NEW c \in Users, Conversation(c), ~Closed(c)
  PROVE  /\ hreq[c].op = "login" <=> hpc[c] = "named"
         /\ hreq[c].op = "enter" <=> hpc[c] \in {"entering", "entered"}
         /\ hreq[c].op = "leave" <=> hpc[c] \in {"leaving", "left"}
<1>1. hpc[c] \in {"idle", "named", "entering", "entered", "leaving", "left", "sending",
                  "popular"}
  BY DEF Typed, TypeOK, Conversation
<1>2. /\ hpc[c] = "idle" => hreq[c].op = "none"
      /\ hpc[c] = "named" => hreq[c].op = "login"
      /\ hpc[c] \in {"entering", "entered"} => hreq[c].op = "enter"
      /\ hpc[c] \in {"leaving", "left"} => hreq[c].op = "leave"
      /\ hpc[c] = "sending" => hreq[c].op = "chat"
      /\ hpc[c] = "popular" => hreq[c].op = "popular"
  BY DEF Typed, PcOK, NoMsg, LoginMsg, EnterMsg, ChatMsg, LeaveMsg
<1>3. QED
  BY <1>1, <1>2

LEMMA LoginCount ==
  ASSUME Typed, NEW c \in Users, Conversation(c), Answered(c), ~Closed(c)
  PROVE  UnderWay(c, "login", LoginAnswers) = IF client[c] = "loginWait" THEN 1 ELSE 0
<1>1. CASE client[c] = "loginWait"
  <2>1. LoginOK(c) /\ sendChan[c] \in Seq(Replies) /\ recvChan[c] \in Seq(Msgs)
    BY <1>1 DEF Conversation, Typed, TypeOK
  <2>2. Only(recvChan[c], { LoginMsg(n) : n \in Names })
    BY <2>1 DEF LoginOK
  <2>3. /\ Len(recvChan[c]) = 0 => Requests(c, "login") = {}
        /\ Len(recvChan[c]) = 1 => Requests(c, "login") = {1}
    <3>1. \A m \in { LoginMsg(n) : n \in Names } : m.op = "login"
      BY DEF LoginMsg
    <3>2. QED
      BY <2>2, <3>1, OneRequest
  <2>4. /\ Len(sendChan[c]) = 0 => Answers(c, LoginAnswers) = {}
        /\ Len(sendChan[c]) = 1 => Answers(c, LoginAnswers) = {1}
    BY <2>1 DEF LoginOK, Only, Answers, LoginAnswers
  <2>5. CASE hpc[c] = "named"
    BY <1>1, <2>1, <2>3, <2>4, <2>5, Places, HandlerOp DEF LoginOK, Handled
  <2>6. CASE hpc[c] # "named" /\ Len(recvChan[c]) # 0
    BY ZenonT(40), <1>1, <2>1, <2>3, <2>4, <2>6, Places, HandlerOp DEF LoginOK
  <2>7. CASE hpc[c] # "named" /\ Len(recvChan[c]) = 0
    <3>1. Len(sendChan[c]) = 1
      BY <1>1, <2>1, <2>7 DEF Answered, LoginOK
    <3>2. QED
      BY <1>1, <2>3, <2>4, <2>7, <3>1, Places, HandlerOp
  <2>8. QED
    BY <2>5, <2>6, <2>7
<1>2. CASE client[c] # "loginWait"
  <2>1. hpc[c] # "named"
    BY <1>2, PcClient
  <2>2. PICK S \in {{}, { EnterMsg(r) : r \in RoomIds }, Asks({"chat", "stats", "popular"}),
                    Asks({"chat", "stats", "popular", "leave"})} : Only(recvChan[c], S)
    BY <1>2, ClientStates DEF Conversation, OffOK, EnterOK, TypingOK, LeaveOK, Only
  <2>3. \A m \in S : m.op # "login"
    BY <2>2 DEF EnterMsg, Asks
  <2>4. Requests(c, "login") = {}
    BY <2>2, <2>3, NoRequests
  <2>5. PICK T \in {{}, {"history"}, {"INVALID_ROOM_ID"}, {"ENTER_OK", "history"}, Queries,
                    Queries \cup {"LEAVE_OK"}} : Only(sendChan[c], T)
    BY <1>2, ClientStates DEF Conversation, OffOK, EnterOK, TypingOK, LeaveOK, Only
  <2>6. T \cap LoginAnswers = {}
    BY <2>5 DEF LoginAnswers, Queries
  <2>7. Answers(c, LoginAnswers) = {}
    BY <2>5, <2>6, NoAnswers
  <2>8. QED
    BY <1>2, <2>1, <2>4, <2>7, Places, HandlerOp DEF Handled
<1>3. QED
  BY <1>1, <1>2

LEMMA EnterCount ==
  ASSUME Typed, NEW c \in Users, Conversation(c), Answered(c), ~Closed(c)
  PROVE  UnderWay(c, "enter", EnterAnswers) = IF client[c] = "enterWait" THEN 1 ELSE 0
<1>1. CASE client[c] = "enterWait"
  <2>1. EnterOK(c) /\ sendChan[c] \in Seq(Replies) /\ recvChan[c] \in Seq(Msgs)
    BY <1>1 DEF Conversation, Typed, TypeOK
  <2>2. /\ Len(recvChan[c]) = 0 => Requests(c, "enter") = {}
        /\ Len(recvChan[c]) = 1 => Requests(c, "enter") = {1}
    <3>1. \A m \in { EnterMsg(r) : r \in RoomIds } : m.op = "enter"
      BY DEF EnterMsg
    <3>2. QED
      BY <2>1, <3>1, OneRequest DEF EnterOK
  <2>3. CASE Len(recvChan[c]) # 0
    <3>1. Len(recvChan[c]) = 1 /\ Len(sendChan[c]) = 0 /\ hpc[c] \notin {"entering", "entered"}
      BY <2>1, <2>3 DEF EnterOK
    <3>2. Answers(c, EnterAnswers) = {}
      BY <2>1, <3>1 DEF Answers
    <3>3. QED
      BY <1>1, <2>2, <3>1, <3>2, Places, HandlerOp
  <2>4. CASE hpc[c] \in {"entering", "entered"}
    <3>1. Only(sendChan[c], {"history"})
      BY <2>1, <2>4 DEF EnterOK, Only
    <3>2. Answers(c, EnterAnswers) = {}
      <4>1. {"history"} \cap EnterAnswers = {}
        BY DEF EnterAnswers
      <4>2. QED
        BY <3>1, <4>1, NoAnswers
    <3>3. Len(recvChan[c]) = 0
      BY <2>1, <2>4 DEF EnterOK
    <3>4. QED
      BY <1>1, <2>2, <2>4, <3>2, <3>3, Places, HandlerOp DEF Handled
  <2>5. CASE Len(recvChan[c]) = 0 /\ hpc[c] \notin {"entering", "entered"}
    <3>1. HasAnswer(sendChan[c])
      BY <1>1, <2>5 DEF Answered
    <3>2. Answers(c, EnterAnswers) # {}
      BY <2>1, <3>1 DEF HasAnswer, Answers
    <3>3. ASSUME NEW i \in Answers(c, EnterAnswers), NEW j \in Answers(c, EnterAnswers)
          PROVE  i = j
      <4>1. i \in 1 .. Len(sendChan[c]) /\ j \in 1 .. Len(sendChan[c])
        BY <2>1 DEF Answers
      <4>2. CASE roomId[c] = NoRoom
        <5>1. Len(sendChan[c]) = 1
          BY <2>1, <2>5, <4>1, <4>2 DEF EnterOK
        <5>2. QED
          BY <4>1, <5>1
      <4>3. CASE roomId[c] # NoRoom
        <5>1. Only(sendChan[c], {"ENTER_OK", "history"}) /\ Once(sendChan[c], "ENTER_OK")
          BY <2>1, <4>3 DEF EnterOK
        <5>2. sendChan[c][i] = "ENTER_OK" /\ sendChan[c][j] = "ENTER_OK"
          BY <4>1, <5>1 DEF Only, Answers, EnterAnswers
        <5>3. QED
          BY <4>1, <5>1, <5>2 DEF Once
      <4>4. QED
        BY <4>2, <4>3
    <3>4. Requests(c, "enter") = {} /\ hreq[c].op # "enter"
      BY <2>2, <2>5, HandlerOp
    <3>5. QED
      BY <1>1, <3>2, <3>3, <3>4, Places
  <2>6. QED
    BY <2>3, <2>4, <2>5
<1>2. CASE client[c] # "enterWait"
  <2>1. hpc[c] \notin {"entering", "entered"}
    BY <1>2, PcClient
  <2>2. PICK S \in {{}, { LoginMsg(n) : n \in Names }, Asks({"chat", "stats", "popular"}),
                    Asks({"chat", "stats", "popular", "leave"})} : Only(recvChan[c], S)
    BY <1>2, ClientStates DEF Conversation, OffOK, LoginOK, TypingOK, LeaveOK, Only
  <2>3. \A m \in S : m.op # "enter"
    BY <2>2 DEF LoginMsg, Asks
  <2>4. Requests(c, "enter") = {}
    BY <2>2, <2>3, NoRequests
  <2>5. PICK T \in {{}, {"NICK_NAME_EXIST"}, {"LOGIN_OK"}, Queries, Queries \cup {"LEAVE_OK"}} :
          Only(sendChan[c], T)
    BY <1>2, ClientStates DEF Conversation, OffOK, LoginOK, TypingOK, LeaveOK, Only
  <2>6. T \cap EnterAnswers = {}
    BY <2>5 DEF EnterAnswers, Queries
  <2>7. Answers(c, EnterAnswers) = {}
    BY <2>5, <2>6, NoAnswers
  <2>8. QED
    BY <1>2, <2>1, <2>4, <2>7, Places, HandlerOp DEF Handled
<1>3. QED
  BY <1>1, <1>2

LEMMA LeaveCount ==
  ASSUME Typed, NEW c \in Users, Conversation(c), ~Closed(c)
  PROVE  UnderWay(c, "leave", {"LEAVE_OK"}) <= IF client[c] = "leaveWait" THEN 1 ELSE 0
<1>1. CASE client[c] = "leaveWait"
  <2>1. LeaveOK(c) /\ sendChan[c] \in Seq(Replies) /\ recvChan[c] \in Seq(Msgs)
    BY <1>1 DEF Conversation, Typed, TypeOK
  <2>2. Len(recvChan[c]) = 0 => Requests(c, "leave") = {}
    BY <2>1 DEF Requests
  <2>3. roomId[c] # NoRoom => Answers(c, {"LEAVE_OK"}) = {}
    <3>1. Queries \cap {"LEAVE_OK"} = {}
      BY DEF Queries
    <3>2. QED
      BY <2>1, <3>1, NoAnswers DEF LeaveOK
  <2>4. CASE hpc[c] \in {"leaving", "left"}
    BY <1>1, <2>1, <2>2, <2>3, <2>4, Places, HandlerOp DEF LeaveOK, Handled
  <2>5. CASE hpc[c] \notin {"leaving", "left"} /\ roomId[c] = NoRoom
    <3>1. \A i, j \in Answers(c, {"LEAVE_OK"}) : i = j
      BY <2>1 DEF Answers, LeaveOK, AtEnd
    <3>2. QED
      BY <1>1, <2>1, <2>2, <2>5, <3>1, Places, HandlerOp DEF LeaveOK
  <2>6. CASE hpc[c] \notin {"leaving", "left"} /\ roomId[c] # NoRoom
    <3>1. \A i \in Requests(c, "leave") : i \in 1 .. Len(recvChan[c]) /\ recvChan[c][i] = LeaveMsg
      BY <2>1, MsgKinds DEF Requests, LeaveMsg, Msgs, LoginMsg, EnterMsg, ChatMsg, PopularMsg,
                  StatsMsg
    <3>2. \A i, j \in Requests(c, "leave") : i = j
      BY <2>1, <3>1 DEF LeaveOK, AtEnd
    <3>3. QED
      BY <1>1, <2>3, <2>6, <3>2, Places, HandlerOp
  <2>7. QED
    BY <2>4, <2>5, <2>6
<1>2. CASE client[c] # "leaveWait"
  <2>1. hpc[c] \notin {"leaving", "left"}
    BY <1>2, PcClient
  <2>2. PICK S \in {{}, { LoginMsg(n) : n \in Names }, { EnterMsg(r) : r \in RoomIds },
                    Asks({"chat", "stats", "popular"})} : Only(recvChan[c], S)
    BY <1>2, ClientStates DEF Conversation, OffOK, LoginOK, EnterOK, TypingOK, Only
  <2>3. \A m \in S : m.op # "leave"
    BY <2>2 DEF LoginMsg, EnterMsg, Asks
  <2>4. Requests(c, "leave") = {}
    BY <2>2, <2>3, NoRequests
  <2>5. PICK T \in {{}, {"NICK_NAME_EXIST"}, {"LOGIN_OK"}, {"history"}, {"INVALID_ROOM_ID"},
                    {"ENTER_OK", "history"}, Queries} : Only(sendChan[c], T)
    BY SMTT(30), <1>2, ClientStates DEF Conversation, OffOK, LoginOK, EnterOK, TypingOK, Only
  <2>6. T \cap {"LEAVE_OK"} = {}
    BY <2>5 DEF Queries
  <2>7. Answers(c, {"LEAVE_OK"}) = {}
    BY <2>5, <2>6, NoAnswers
  <2>8. QED
    BY <1>2, <2>1, <2>4, <2>7, Places, HandlerOp DEF Handled
<1>3. QED
  BY <1>1, <1>2

LEMMA NeverRefused ==
  ASSUME Typed, NEW c \in Users, Conversation(c)
  PROVE  \A i \in DOMAIN sendChan[c] : sendChan[c][i] # "NOT_IN_ROOM"
<1>1. PICK T \in {{}, {"NICK_NAME_EXIST"}, {"LOGIN_OK"}, {"history"}, {"INVALID_ROOM_ID"},
                  {"ENTER_OK", "history"}, Queries, Queries \cup {"LEAVE_OK"}} :
        Only(sendChan[c], T)
  BY SMTT(30), ClientStates DEF Conversation, OffOK, LoginOK, EnterOK, TypingOK, LeaveOK, Only
<1>2. T \cap {"NOT_IN_ROOM"} = {}
  BY <1>1 DEF Queries
<1>3. Answers(c, {"NOT_IN_ROOM"}) = {}
  BY <1>1, <1>2, NoAnswers
<1>4. QED
  BY <1>3 DEF Answers

\* If packetSendChan is longer than the history (100 and 50 in the code), a
\* connected console that waits for a login or an enter has exactly one request
\* or answer of it on its way, of a leave at most one, and is never told that it
\* is not in a room (client.go:76, 162, 189, 211; server.go:45-82).
THEOREM OneOutstandingAlways ==
  ASSUME SendSuffices
  PROVE  Spec => []OneOutstanding
<1>1. Init => AllAnswered
  BY DEF Init, AllAnswered, Answered, Console
<1>2. RoomsInv /\ AllAnswered /\ [Next]_vars => AllAnswered'
  BY AnsweredNext
<1>3. RoomsInv /\ AllAnswered => OneOutstanding
  <2>1. ASSUME RoomsInv, AllAnswered, NEW c \in Users \ Foreign, ~Closed(c)
        PROVE  Typed /\ c \in Users /\ Conversation(c) /\ Answered(c)
    BY <2>1 DEF RoomsInv, Tracked, AllAnswered, Console
  <2>2. QED
    BY <2>1, LoginCount, EnterCount, LeaveCount, NeverRefused
       DEF OneOutstanding, LoginAnswers, EnterAnswers
<1>4. QED
  BY <1>1, <1>2, <1>3, RoomsInvariance, PTL DEF Spec

================================================================================
