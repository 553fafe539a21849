----------------------------- MODULE ChatFeedProofs -----------------------------
(***************************************************************************)
(* Proofs about ChatFeed: what a user of the console client is sent while  *)
(* it is in a room, for any number of connections, rooms and chats, any    *)
(* capacities, and clients of any make beside it.                          *)
(***************************************************************************)
EXTENDS ChatFeed, ChatRoomsProofs

-----------------------------------------------------------------------------
(* The inductive invariant, beside RoomsInv.                               *)

\* The ring holds the last MaxOffline chats that the room has broadcast, the
\* last of them at its last place, and nothing in front of the first.
Ring(r) ==
  \A i \in 1 .. MaxOffline :
    offlineMsg[r][i] = IF i + Len(aired[r]) > MaxOffline
                       THEN aired[r][i + Len(aired[r]) - MaxOffline] ELSE NoChat

\* A user in a room got what it should.
Fed(c, r) ==
  ~Closed(c) /\ Stays(c, r) /\ ~lost[c] =>
    since[c] <= Len(aired[r]) /\ got[c] = At(aired[r], Due(c, r, since[c]))

FeedTyped ==
  /\ aired \in [Rooms -> Seq(Chats)]
  /\ since \in [Users -> Nat]
  /\ got \in [Users -> Seq(Chats)]
  /\ lost \in [Users -> BOOLEAN]

FeedInv ==
  /\ FeedTyped
  /\ \A r \in Rooms : Ring(r)
  /\ \A c \in Console, r \in Rooms : Fed(c, r)

-----------------------------------------------------------------------------
(* The elements of a sequence at a set of places.                          *)

\* The number of places of S up to j.
Rank(S, j) == Cardinality({ l \in S : l <= j })

\* Among n places, each from 1 to n is the rank of one.
LEMMA NthPlace ==
  ASSUME NEW n \in Nat, NEW S \in SUBSET (1 .. n)
  PROVE  /\ IsFiniteSet(S) /\ Cardinality(S) \in Nat
         /\ \A i \in 1 .. Cardinality(S) : Nth(S, i) \in S
<1> DEFINE k == Cardinality(S)
           rank == [j \in S |-> Rank(S, j)]
<1>1. S \subseteq Int /\ IsFiniteSet(S) /\ k \in Nat
  <2>1. IsFiniteSet(1 .. n)
    BY FS_Interval
  <2>2. IsFiniteSet(S)
    BY <2>1, FS_Subset
  <2>3. QED
    BY <2>2, FS_CardinalityType
<1>2. ASSUME NEW j \in S
      PROVE  IsFiniteSet({ l \in S : l <= j }) /\ Rank(S, j) \in 1 .. k
  <2>1. { l \in S : l <= j } \in SUBSET S /\ j \in { l \in S : l <= j }
    OBVIOUS
  <2>2. IsFiniteSet({ l \in S : l <= j }) /\ Rank(S, j) \in Nat /\ Rank(S, j) <= k
    BY <1>1, <2>1, FS_Subset, FS_CardinalityType DEF Rank
  <2>3. Rank(S, j) # 0
    BY <2>1, <2>2, FS_EmptySet DEF Rank
  <2>4. QED
    BY <1>1, <2>2, <2>3
<1>3. ASSUME NEW i \in S, NEW j \in S, i < j
      PROVE  rank[i] # rank[j]
  <2>1. { l \in S : l <= i } \in SUBSET { l \in S : l <= j }
    <3>1. \A l \in S : l <= i => l <= j
      BY <1>1, <1>3
    <3>2. QED
      BY <3>1
  <2>2. j \in { l \in S : l <= j } /\ j \notin { l \in S : l <= i }
    BY <1>1, <1>3
  <2>3. Rank(S, i) # Rank(S, j)
    BY <1>2, <2>1, <2>2, FS_Subset DEF Rank
  <2>4. QED
    BY <2>3
<1>4. rank \in Injection(S, 1 .. k)
  <2>1. rank \in [S -> 1 .. k]
    BY <1>2
  <2>2. \A i, j \in S : rank[i] = rank[j] => i = j
    <3>1. \A i, j \in S : i < j \/ j < i \/ i = j
      OBVIOUS
    <3>2. QED
      BY <1>3, <3>1
  <2>3. QED
    BY <2>1, <2>2 DEF Injection, IsInjective
<1>5. rank \in Surjection(S, 1 .. k)
  BY <1>1, <1>4, FS_Injection, FS_Interval
<1>6. ASSUME NEW i \in 1 .. k
      PROVE  Nth(S, i) \in S
  <2>1. PICK j \in S : rank[j] = i
    BY <1>5 DEF Surjection
  <2>2. j \in { l \in S : Rank(S, l) = i }
    BY <2>1
  <2>3. QED
    BY <2>2 DEF Nth, Rank
<1>7. QED
  BY <1>1, <1>6

LEMMA AtType ==
  ASSUME NEW T, NEW s \in Seq(T), NEW S \in SUBSET (1 .. Len(s))
  PROVE  At(s, S) \in Seq(T) /\ Len(At(s, S)) = Cardinality(S)
<1>1. Len(s) \in Nat /\ \A p \in 1 .. Len(s) : s[p] \in T
  OBVIOUS
<1>2. Cardinality(S) \in Nat /\ \A i \in 1 .. Cardinality(S) : Nth(S, i) \in S
  BY <1>1, NthPlace
<1>3. \A i \in 1 .. Cardinality(S) : s[Nth(S, i)] \in T
  BY <1>1, <1>2
<1>4. QED
  BY <1>2, <1>3 DEF At

\* The places of an interval come one after the other.
LEMMA NthInterval ==
  ASSUME NEW a \in Nat, NEW n \in Nat
  PROVE  /\ Cardinality(a + 1 .. a + n) = n
         /\ \A i \in 1 .. n : Nth(a + 1 .. a + n, i) = a + i
<1> DEFINE S == a + 1 .. a + n
<1>1. Cardinality(S) = n
  BY FS_Interval
<1>2. ASSUME NEW j \in S
      PROVE  Cardinality({ l \in S : l <= j }) = j - a
  <2>1. { l \in S : l <= j } = a + 1 .. j
    OBVIOUS
  <2>2. Cardinality(a + 1 .. j) = j - a
    BY FS_Interval
  <2>3. QED
    BY <2>1, <2>2
<1>3. ASSUME NEW i \in 1 .. n
      PROVE  Nth(S, i) = a + i
  <2>1. { k \in S : Cardinality({ l \in S : l <= k }) = i } = {a + i}
    BY <1>2
  <2>2. QED
    BY <2>1 DEF Nth
<1>4. QED
  BY <1>1, <1>3

LEMMA SeqFunction ==
  ASSUME NEW T, NEW s \in Seq(T)
  PROVE  s = [i \in 1 .. Len(s) |-> s[i]]
OBVIOUS

\* A new last place, selected or not.
LEMMA AtAppend ==
  ASSUME NEW T, NEW s \in Seq(T), NEW x \in T, NEW S \in SUBSET (1 .. Len(s))
  PROVE  /\ At(Append(s, x), S) = At(s, S)
         /\ At(Append(s, x), S \cup {Len(s) + 1}) = Append(At(s, S), x)
<1> DEFINE n == Len(s)
           k == Cardinality(S)
           t == Append(s, x)
           U == S \cup {n + 1}
<1>1. n \in Nat /\ t \in Seq(T) /\ Len(t) = n + 1 /\ t[n + 1] = x
      /\ \A i \in 1 .. n : t[i] = s[i]
  OBVIOUS
<1>2. IsFiniteSet(S) /\ k \in Nat /\ \A i \in 1 .. k : Nth(S, i) \in S
  BY <1>1, NthPlace
<1> HIDE DEF k
<1>3. At(t, S) = At(s, S)
  BY <1>1, <1>2 DEF At, k
<1>4. Cardinality(U) = k + 1
  <2>1. n + 1 \notin S
    BY <1>1
  <2>2. QED
    BY <1>2, <2>1, FS_AddElement DEF k
<1>5. ASSUME NEW j \in S
      PROVE  Rank(U, j) = Rank(S, j) /\ Rank(S, j) \in Nat /\ Rank(S, j) <= k
  <2>1. { l \in U : l <= j } = { l \in S : l <= j }
    BY <1>1
  <2>2. { l \in S : l <= j } \in SUBSET S
    OBVIOUS
  <2>3. QED
    BY <1>2, <2>1, <2>2, FS_Subset, FS_CardinalityType DEF Rank, k
<1>6. Rank(U, n + 1) = k + 1
  <2>1. \A l \in U : l <= n + 1
    BY <1>1
  <2>2. { l \in U : l <= n + 1 } = U
    BY <2>1
  <2>3. QED
    BY <1>4, <2>2 DEF Rank
<1>7. ASSUME NEW i \in 1 .. k
      PROVE  Nth(U, i) = Nth(S, i)
  <2>1. Rank(U, n + 1) # i
    BY <1>2, <1>6
  <2>2. { l \in U : Rank(U, l) = i } = { l \in S : Rank(S, l) = i }
    BY <1>5, <2>1
  <2>3. QED
    BY <2>2 DEF Nth, Rank
<1>8. Nth(U, k + 1) = n + 1
  <2>1. ASSUME NEW l \in S
        PROVE  Rank(U, l) # k + 1
    <3>1. Rank(U, l) \in Nat /\ Rank(U, l) <= k
      BY <1>5
    <3>2. QED
      BY <1>2, <3>1
  <2>2. { l \in U : Rank(U, l) = k + 1 } = {n + 1}
    BY <1>6, <2>1
  <2>3. QED
    BY <2>2 DEF Nth, Rank
<1>9. At(t, U) = Append(At(s, S), x)
  <2>1. At(s, S) \in Seq(T) /\ Len(At(s, S)) = k
    BY AtType DEF k
  <2>2. At(t, U) = [i \in 1 .. k + 1 |-> t[Nth(U, i)]]
    BY <1>4 DEF At
  <2>3. Append(At(s, S), x) = [i \in 1 .. k + 1 |-> IF i = k + 1 THEN x ELSE At(s, S)[i]]
    <3> DEFINE q == Append(At(s, S), x)
    <3>1. /\ q \in Seq(T) /\ Len(q) = k + 1 /\ q[k + 1] = x
          /\ \A i \in 1 .. k : q[i] = At(s, S)[i]
      BY <2>1
    <3>2. q = [i \in 1 .. k + 1 |-> q[i]]
      <4>1. q = [i \in 1 .. Len(q) |-> q[i]]
        BY <3>1, SeqFunction
      <4>2. QED
        BY <3>1, <4>1
    <3>3. \A i \in 1 .. k + 1 : q[i] = IF i = k + 1 THEN x ELSE At(s, S)[i]
      BY <1>2, <3>1
    <3> HIDE DEF q
    <3>4. q = [i \in 1 .. k + 1 |-> IF i = k + 1 THEN x ELSE At(s, S)[i]]
      BY <3>2, <3>3
    <3>5. QED
      BY <3>4 DEF q
  <2>4. ASSUME NEW i \in 1 .. k + 1
        PROVE  t[Nth(U, i)] = IF i = k + 1 THEN x ELSE At(s, S)[i]
    <3>1. CASE i = k + 1
      BY <1>1, <1>8, <3>1
    <3>2. CASE i # k + 1
      <4>1. i \in 1 .. k
        BY <1>2, <3>2
      <4>2. At(s, S)[i] = s[Nth(S, i)]
        BY <4>1 DEF At, k
      <4>3. QED
        BY <1>1, <1>2, <1>7, <3>2, <4>1, <4>2
    <3>3. QED
      BY <3>1, <3>2
  <2>5. QED
    BY <2>2, <2>3, <2>4
<1>10. QED
  BY <1>3, <1>9

-----------------------------------------------------------------------------
(* The history of an entering user.                                        *)

\* What the ring sends is the last chats of the room.
LEMMA HistoryIsDue ==
  ASSUME Typed, FeedTyped, NEW r \in Rooms, Ring(r), NEW c \in Users
  PROVE  LET k == Len(aired[r])
         IN  /\ Visited(r) = At(aired[r], Due(c, r, k))
             /\ Visited(r) \in Seq(Chats)
             /\ Len(Visited(r)) = Cardinality(Stored(offlineMsg[r]))
<1> DEFINE len == Len(aired[r])
           n == IF len < MaxOffline THEN len ELSE MaxOffline
           S == Stored(offlineMsg[r])
           D == Due(c, r, len)
<1>1. /\ aired[r] \in Seq(Chats) /\ len \in Nat /\ MaxOffline \in Nat /\ n \in Nat
      /\ n <= len /\ n <= MaxOffline /\ (n = len \/ n = MaxOffline)
  BY BoundsAssumption DEF FeedTyped
<1>2. /\ \A p \in 1 .. len : aired[r][p] \in Chats
      /\ \A i \in 1 .. MaxOffline :
           offlineMsg[r][i] = IF i + len > MaxOffline THEN aired[r][i + len - MaxOffline] ELSE NoChat
  BY <1>1 DEF Ring
<1> HIDE DEF n, len
<1>3. len - n \in Nat /\ MaxOffline - n \in Nat
  BY <1>1
<1>4. S = (MaxOffline - n) + 1 .. (MaxOffline - n) + n
  <2>1. ASSUME NEW i \in 1 .. MaxOffline
        PROVE  offlineMsg[r][i] # NoChat <=> i > MaxOffline - n
    <3>1. CASE i + len > MaxOffline
      <4>1. i + len - MaxOffline \in 1 .. len
        BY <1>1, <3>1
      <4>2. offlineMsg[r][i] \in Chats
        BY <1>2, <3>1, <4>1
      <4>3. offlineMsg[r][i] # NoChat
        BY <4>2 DEF Chats, NoChat
      <4>4. i > MaxOffline - n
        BY <1>1, <3>1
      <4>5. QED
        BY <4>3, <4>4
    <3>2. CASE ~(i + len > MaxOffline)
      <4>1. offlineMsg[r][i] = NoChat
        BY <1>2, <3>2
      <4>2. ~(i > MaxOffline - n)
        BY <1>1, <3>2
      <4>3. QED
        BY <4>1, <4>2
    <3>3. QED
      BY <3>1, <3>2
  <2>2. S = { i \in 1 .. MaxOffline : i > MaxOffline - n }
    BY <2>1 DEF Stored
  <2>3. QED
    BY <1>3, <1>1, <2>2
<1>5. D = (len - n) + 1 .. (len - n) + n
  <2>1. \A i \in 1 .. len : i <= len /\ (len < i + MaxOffline <=> i > len - n)
    BY <1>1
  <2>2. D = { i \in 1 .. len : i > len - n }
    BY <2>1 DEF Due, len
  <2>3. QED
    BY <1>3, <1>1, <2>2
<1> HIDE DEF S, D
<1>6. /\ Cardinality(S) = n /\ \A i \in 1 .. n : Nth(S, i) = (MaxOffline - n) + i
      /\ Cardinality(D) = n /\ \A i \in 1 .. n : Nth(D, i) = (len - n) + i
  BY <1>3, <1>1, <1>4, <1>5, NthInterval
<1>7. ASSUME NEW i \in 1 .. n
      PROVE  offlineMsg[r][Nth(S, i)] = aired[r][Nth(D, i)] /\ aired[r][Nth(D, i)] \in Chats
  <2>1. /\ (MaxOffline - n) + i \in 1 .. MaxOffline /\ (len - n) + i \in 1 .. len
        /\ ((MaxOffline - n) + i) + len > MaxOffline
        /\ ((MaxOffline - n) + i) + len - MaxOffline = (len - n) + i
    BY <1>3, <1>1
  <2>2. offlineMsg[r][(MaxOffline - n) + i] = aired[r][(len - n) + i]
    <3> DEFINE j == (MaxOffline - n) + i
    <3>1. j \in 1 .. MaxOffline /\ j + len > MaxOffline /\ j + len - MaxOffline = (len - n) + i
      BY <2>1
    <3> HIDE DEF j
    <3>2. offlineMsg[r][j] = aired[r][(len - n) + i]
      BY <1>2, <3>1
    <3>3. QED
      BY <3>2 DEF j
  <2>3. QED
    BY <1>2, <1>6, <2>1, <2>2
<1>8. Visited(r) = [i \in 1 .. n |-> offlineMsg[r][Nth(S, i)]]
  BY <1>6 DEF Visited, At, S
<1>9. At(aired[r], D) = [i \in 1 .. n |-> aired[r][Nth(D, i)]]
  BY <1>6 DEF At
<1>10. Visited(r) = At(aired[r], D)
  BY <1>7, <1>8, <1>9
<1>11. At(aired[r], D) \in Seq(Chats) /\ Len(At(aired[r], D)) = n
  BY <1>1, <1>7, <1>9
<1>12. QED
  BY <1>6, <1>10, <1>11 DEF S, D, len

LEMMA LenHistory ==
  ASSUME NEW s \in Seq(Replies), NEW k \in Nat
  PROVE  Len(s \o [i \in 1 .. k |-> "history"]) = Len(s) + k
<1>1. [i \in 1 .. k |-> "history"] \in Seq(Replies) /\ Len([i \in 1 .. k |-> "history"]) = k
  BY DEF Replies
<1>2. \A t \in Seq(Replies) : Len(s \o t) = Len(s) + Len(t)
  OBVIOUS
<1>3. QED
  BY <1>1, <1>2

\* packetSendChan takes at most the history, and counts what it takes.
LEMMA HistoryGrown ==
  ASSUME Typed, NEW r \in Rooms, RoomEnter(r), NEW c \in Users, c = job[r]
  PROVE  Grown(c) \in Nat /\ Grown(c) <= Cardinality(Stored(offlineMsg[r]))
<1> DEFINE n == Cardinality(Stored(offlineMsg[r]))
           k == HistoryTaken(c, n)
           h == [i \in 1 .. k |-> "history"]
<1>1. n \in Nat
  <2>1. IsFiniteSet(1 .. MaxOffline)
    BY BoundsAssumption, FS_Interval
  <2>2. QED
    BY <2>1, FS_Subset, FS_CardinalityType DEF Stored
<1>2. sendChan[c] \in Seq(Replies) /\ sendChan'[c] = sendChan[c] \o h
  BY DEF RoomEnter, SendHistory, Typed, TypeOK
<1>3. k \in Nat /\ k <= n
  <2>1. Len(sendChan[c]) \in Nat
    BY <1>2
  <2>2. QED
    BY <1>1, <2>1, BoundsAssumption DEF HistoryTaken
<1> HIDE DEF k, n
<1>4. Len(sendChan[c] \o h) = Len(sendChan[c]) + k
  BY Zenon, <1>2, <1>3, LenHistory
<1> HIDE DEF h
<1>5. Len(sendChan'[c]) = Len(sendChan[c]) + k /\ Len(sendChan[c]) \in Nat
  BY <1>2, <1>4
<1>6. Grown(c) = k
  BY <1>3, <1>5 DEF Grown
<1>7. QED
  BY <1>3, <1>6 DEF n

-----------------------------------------------------------------------------
(* Where a step leaves a user.                                             *)

\* Nobody comes to stay by a step that adds no entry and ends no leave.
LEMMA StaysBack ==
  ASSUME NEW c \in Users, NEW r \in Rooms, Stays(c, r)',
         \A n \in Keys : usersMap'[r][n] = c => usersMap[r][n] = c,
         room[r] = "leave" /\ job[r] = c => room'[r] = "leave" /\ job'[r] = c
  PROVE  Stays(c, r)
BY DEF Stays, Member

LEMMA StaysIn ==
  ASSUME NEW c, NEW r, Stays(c, r)
  PROVE  In(c, r)
BY DEF Stays, In

\* Client, handle loop and closer change no map of a room and no history, and
\* move a room's goroutine out of its select at most.
LEMMA ActorFeed ==
  ASSUME Typed, NEW c \in Users, Actor(c)
  PROVE  /\ UNCHANGED <<usersMap, offlineMsg>>
         /\ \A r \in Rooms : room[r] = "select" \/ (room'[r] = room[r] /\ job'[r] = job[r])
         /\ Closed(c) => Closed(c)'
         /\ hpc[c] # "named" => nick' = nick
<1> USE DEF mainVars, roomVars, userVars, hVars, closeVars, outVars, cliVars
<1> DEFINE Still == UNCHANGED <<room, job, usersMap, offlineMsg, nick>>
<1>1. CASE Environment(c)
  <2>1. Still
    BY <1>1 DEF Environment, Connect, Type, ClientAny, Disconnect
  <2>2. Closed(c) => Closed(c)'
    BY <1>1, Domains DEF Environment, Connect, Type, ClientAny, Disconnect, Closed
  <2>3. QED
    BY <2>1, <2>2
<1>2. CASE ReplyStep(c) \/ WriteBuff(c)
  <2>1. Still /\ closer' = closer
    BY <1>2 DEF ReplyStep, SMRespLogin, SMRespLoginAgain, SMRespEnter, SMRespEnterAgain,
                SMRespLeave, SMDisplay, TakeReply, WriteBuff
  <2>2. QED
    BY <2>1 DEF Closed
<1>3. CASE HandlerStep(c)
  <2>1. closer' = closer /\ UNCHANGED <<room, job, usersMap, offlineMsg>>
    BY <1>3 DEF HandlerStep, CMLogin, CMLoginStored, CMEnter, CMEntered, CMLeave, CMLeft,
                CMChat, CMCommandPopular, CMCommandPopularEnd, CMCommandStats, HandlerExit,
                Handle
  <2>2. hpc[c] # "named" => nick' = nick
    BY <1>3 DEF HandlerStep, CMLogin, CMLoginStored, CMEnter, CMEntered, CMLeave, CMLeft,
                CMChat, CMCommandPopular, CMCommandPopularEnd, CMCommandStats, HandlerExit,
                Handle
  <2>3. QED
    BY <2>1, <2>2 DEF Closed
<1>4. CASE CMChatSend(c)
  BY <1>4 DEF CMChatSend, Closed
<1>5. ASSUME NEW r \in Rooms, RoomEntering(r, c) \/ RoomLeaving(r, c)
      PROVE  /\ UNCHANGED <<usersMap, offlineMsg, nick>>
             /\ \A s \in Rooms : \/ room[s] = "select"
                                 \/ room'[s] = room[s] /\ job'[s] = job[s]
             /\ Closed(c) => Closed(c)'
  <2>1. UNCHANGED <<usersMap, offlineMsg, nick>>
    BY <1>5 DEF RoomEntering, RoomLeaving
  <2>2. \A s \in Rooms : room[s] = "select" \/ (room'[s] = room[s] /\ job'[s] = job[s])
    BY <1>5 DEF RoomEntering, RoomLeaving, Work, Typed, TypeOK
  <2>3. Closed(c) => Closed(c)'
    BY <1>5, Domains DEF RoomEntering, RoomLeaving, Closed
  <2>4. QED
    BY <2>1, <2>2, <2>3
<1>6. CASE CloserStep(c)
  BY <1>6, Domains DEF CloserStep, Logout, LogoutDelete, Closed
<1>7. QED
  BY <1>1, <1>2, <1>3, <1>4, <1>5, <1>6 DEF Actor, BlockedSend

\* A step that leaves user c, its room and what it was sent alone, c stays fed.
LEMMA FedFrame ==
  ASSUME NEW c \in Users, NEW r \in Rooms, Fed(c, r),
         Closed(c) => Closed(c)', Stays(c, r)' => Stays(c, r) /\ nick'[c] = nick[c],
         aired'[r] = aired[r], since'[c] = since[c], got'[c] = got[c],
         lost'[c] = FALSE => lost[c] = FALSE, lost[c] \in BOOLEAN, lost'[c] \in BOOLEAN
  PROVE  Fed(c, r)'
<1>1. SUFFICES ASSUME ~Closed(c)', Stays(c, r)', ~lost'[c]
               PROVE  since'[c] <= Len(aired'[r]) /\ got'[c] = At(aired'[r], Due(c, r, since[c])')
  BY DEF Fed
<1>2. ~Closed(c) /\ Stays(c, r) /\ ~lost[c] /\ nick'[c] = nick[c]
  BY <1>1
<1>3. Due(c, r, since[c])' = Due(c, r, since[c])
  BY <1>2 DEF Due
<1>4. QED
  BY <1>2, <1>3 DEF Fed

\* How many buffers of a broadcast in room r a connected console user gets.
LEMMA OneCopy ==
  ASSUME Typed, NEW c \in Users, Place(c), ~Closed(c), NEW r \in Rooms, NEW except
  PROVE  Copies(usersMap[r], c, except) = IF Member(c, r) /\ nick[c] # except THEN 1 ELSE 0
<1> DEFINE K == { n \in Keys : usersMap[r][n] = c }
<1>1. CASE Member(c, r)
  <2>1. K = {nick[c]}
    BY <1>1 DEF Member, Place, RoomOK
  <2>2. Cardinality(K) = 1
    BY <2>1, FS_Singleton
  <2>3. QED
    BY <1>1, <2>2 DEF Copies
<1>2. CASE ~Member(c, r)
  <2>1. K = {}
    BY <1>2 DEF Member
  <2>2. Cardinality(K) = 0
    BY <2>1, FS_EmptySet
  <2>3. QED
    BY <1>2, <2>2 DEF Copies
<1>3. QED
  BY <1>1, <1>2

-----------------------------------------------------------------------------
(* The steps.                                                              *)

\* A user enters.
LEMMA EnterFeed ==
  ASSUME RoomsInv, FeedInv, NEW r \in Rooms, RoomEnter(r), NEW e \in Users, e = job[r],
         StartStay(r, e)
  PROVE  FeedInv'
<1> DEFINE V == Visited(r)
<1>1. /\ Typed /\ FeedTyped /\ Ring(r) /\ room[r] = "enter"
      /\ UNCHANGED <<offlineMsg, aired, nick, closer>>
  BY DEF RoomsInv, FeedInv, RoomEnter, StartStay, userVars, closeVars
<1>2. /\ V = At(aired[r], Due(e, r, Len(aired[r]))) /\ V \in Seq(Chats)
      /\ Grown(e) \in Nat /\ Grown(e) <= Len(V)
  BY <1>1, HistoryIsDue, HistoryGrown
<1>3. /\ since' = [since EXCEPT ![e] = Len(aired[r])]
      /\ got' = [got EXCEPT ![e] = SubSeq(V, 1, Grown(e))]
      /\ lost' = [lost EXCEPT ![e] = Grown(e) < Len(V)]
  BY DEF StartStay
<1> HIDE DEF V
<1>4. FeedTyped'
  <2>1. Len(aired[r]) \in Nat
    BY <1>1 DEF FeedTyped
  <2>2. SubSeq(V, 1, Grown(e)) \in Seq(Chats)
    BY <1>2
  <2>3. (Grown(e) < Len(V)) \in BOOLEAN
    OBVIOUS
  <2>4. QED
    BY <1>1, <1>3, <2>1, <2>2, <2>3 DEF FeedTyped
<1>5. \A s \in Rooms : Ring(s)'
  BY <1>1 DEF FeedInv, Ring
<1>6. ASSUME NEW c \in Console, NEW s \in Rooms
      PROVE  Fed(c, s)'
  <2>1. c \in Users /\ Fed(c, s)
    BY DEF Console, FeedInv
  <2>2. CASE c # e
    <3>1. since'[c] = since[c] /\ got'[c] = got[c] /\ lost'[c] = lost[c]
      BY <1>3, <2>1, <2>2
    <3>2. Stays(c, s)' => Stays(c, s)
      <4>1. GivesNothing(c)
        BY <1>1, <2>1, <2>2, RoomEnterSpares
      <4>2. room[s] = "leave" => room'[s] = room[s] /\ job'[s] = job[s]
        BY <1>1 DEF RoomEnter, NextCase, Typed, TypeOK
      <4>3. QED
        BY <2>1, <4>1, <4>2, StaysBack DEF GivesNothing
    <3>3. lost[c] \in BOOLEAN /\ lost'[c] \in BOOLEAN /\ aired'[s] = aired[s]
          /\ (Closed(c) => Closed(c)') /\ nick'[c] = nick[c]
      BY <1>1, <1>4, <2>1 DEF FeedTyped, Closed
    <3>4. QED
      BY <2>1, <3>1, <3>2, <3>3, FedFrame
  <2>3. CASE c = e /\ s = r
    <3>1. SUFFICES ASSUME ~lost'[c]
                   PROVE  /\ since'[c] <= Len(aired'[r])
                          /\ got'[c] = At(aired'[r], Due(c, r, since[c])')
      BY <2>3 DEF Fed
    <3>2. since'[c] = Len(aired[r]) /\ Len(aired[r]) \in Nat
          /\ got'[c] = SubSeq(V, 1, Grown(e)) /\ ~(Grown(e) < Len(V))
      <4>1. aired[r] \in Seq(Chats) /\ e \in Users
            /\ DOMAIN since = Users /\ DOMAIN got = Users
        BY <1>1 DEF FeedTyped
      <4>3. since'[e] = Len(aired[r]) /\ got'[e] = SubSeq(V, 1, Grown(e))
        BY Zenon, <1>3, <4>1
      <4>0. lost'[e] = (Grown(e) < Len(V))
        BY Zenon, <1>1, <1>3 DEF FeedTyped
      <4>2. ~(Grown(e) < Len(V))
        BY Zenon, <2>3, <3>1, <4>0
      <4>4. QED
        BY <2>3, <4>1, <4>2, <4>3
    <3>3. Grown(e) = Len(V)
      BY <1>2, <3>2
    <3>4. SubSeq(V, 1, Len(V)) = V
      BY <1>2
    <3>5. Due(c, r, since[c])' = Due(e, r, Len(aired[r]))
      BY <1>1, <2>3, <3>2 DEF Due
    <3>6. QED
      BY <1>1, <1>2, <2>3, <3>2, <3>3, <3>4, <3>5
  <2>4. CASE c = e /\ s # r
    <3>1. ~Stays(c, s)'
      <4>1. SUFFICES ASSUME Stays(c, s)'
                     PROVE  FALSE
        OBVIOUS
      <4>2. In(c, s)'
        BY <4>1 DEF Stays, In
      <4>3. In(c, s) /\ In(c, r)
        BY <1>1, <2>1, <2>4, <4>2, RoomEnterIn DEF In
      <4>4. QED
        BY <2>4, <4>3, OneRoomHolds DEF OneRoom, Console
    <3>2. QED
      BY <3>1 DEF Fed
  <2>5. QED
    BY <2>2, <2>3, <2>4
<1>7. QED
  BY <1>4, <1>5, <1>6 DEF FeedInv

\* A chat is broadcast: what becomes of the ring, and of a user in the room.
LEMMA RingSaved ==
  ASSUME Typed, FeedTyped, NEW r \in Rooms, RoomBroadcast(r), AirChat(r),
         NEW s \in Rooms, Ring(s)
  PROVE  Ring(s)'
<1>1. /\ aired[r] \in Seq(Chats) /\ job[r] \in Chats /\ Len(aired[r]) \in Nat
      /\ MaxOffline \in Nat \ {0}
  BY BoundsAssumption DEF FeedTyped, RoomBroadcast, Typed, PcOK
<1>2. CASE s = r
  <2> DEFINE len == Len(aired[r])
             M == MaxOffline
  <2>1. /\ aired'[r] = Append(aired[r], job[r]) /\ Len(aired'[r]) = len + 1
        /\ aired'[r][len + 1] = job[r] /\ \A p \in 1 .. len : aired'[r][p] = aired[r][p]
    BY <1>1 DEF AirChat, FeedTyped
  <2>2. offlineMsg'[r] = [i \in 1 .. M |-> IF i = M THEN job[r] ELSE offlineMsg[r][i + 1]]
    BY DEF RoomBroadcast, Save, Typed, TypeOK
  <2>3. \A i \in 1 .. M : offlineMsg[r][i] = IF i + len > M THEN aired[r][i + len - M] ELSE NoChat
    BY <1>2 DEF Ring
  <2> HIDE DEF len, M
  <2>4. len \in Nat /\ M \in Nat \ {0}
    BY <1>1 DEF len, M
  <2>5. ASSUME NEW i \in 1 .. M
        PROVE  offlineMsg'[r][i] = IF i + (len + 1) > M THEN aired'[r][i + (len + 1) - M] ELSE NoChat
    <3>1. CASE i = M
      <4>1. i + (len + 1) > M /\ i + (len + 1) - M = len + 1
        BY <2>4, <3>1
      <4>2. offlineMsg'[r][i] = job[r]
        BY <2>2, <2>5, <3>1
      <4>3. QED
        BY <2>1, <4>1, <4>2
    <3>2. CASE i # M
      <4>1. /\ i + 1 \in 1 .. M /\ i + (len + 1) = (i + 1) + len
            /\ i + (len + 1) - M = (i + 1) + len - M
            /\ (i + 1) + len > M => (i + 1) + len - M \in 1 .. len
        BY <2>4, <2>5, <3>2
      <4>2. offlineMsg'[r][i] = offlineMsg[r][i + 1]
        BY <2>2, <2>5, <3>2
      <4>3. offlineMsg[r][i + 1] = IF (i + 1) + len > M THEN aired[r][(i + 1) + len - M] ELSE NoChat
        BY <2>3, <4>1
      <4>4. QED
        BY <2>1, <4>1, <4>2, <4>3
    <3>3. QED
      BY <3>1, <3>2
  <2>6. QED
    BY <1>2, <2>1, <2>5 DEF Ring, len, M
<1>3. CASE s # r
  <2>1. aired'[s] = aired[s] /\ offlineMsg'[s] = offlineMsg[s]
    BY <1>3 DEF AirChat, RoomBroadcast, FeedTyped, Typed, TypeOK
  <2>2. QED
    BY <2>1 DEF Ring
<1>4. QED
  BY <1>2, <1>3

LEMMA ChatFed ==
  ASSUME RoomsInv, FeedTyped, NEW r \in Rooms, RoomBroadcast(r), AirChat(r),
         NEW c \in Console, Fed(c, r)
  PROVE  Fed(c, r)'
<1> DEFINE k == since[c]
           len == Len(aired[r])
           D == Due(c, r, k)
<1>1. SUFFICES ASSUME ~Closed(c)', Stays(c, r)', ~lost'[c]
               PROVE  since'[c] <= Len(aired'[r]) /\ got'[c] = At(aired'[r], Due(c, r, since[c])')
  BY DEF Fed
<1>2. /\ c \in Users /\ Typed /\ Place(c) /\ room[r] = "record" /\ job[r] \in Chats
      /\ UNCHANGED <<since, usersMap, nick, closer>>
  BY DEF RoomsInv, Tracked, Console, RoomBroadcast, AirChat, Typed, PcOK, userVars, closeVars
<1>3. ~Closed(c) /\ Stays(c, r) /\ Member(c, r)
  BY <1>1, <1>2 DEF Closed, Stays, Member
<1>4. /\ ~lost[c] /\ buffChan[c] # BuffCap
      /\ got'[c] = IF buffChan'[c] > buffChan[c] THEN Append(got[c], job[r]) ELSE got[c]
  BY <1>1, <1>2 DEF AirChat
<1>5. k \in Nat /\ k <= len /\ len \in Nat /\ got[c] = At(aired[r], D) /\ aired[r] \in Seq(Chats)
  BY <1>2, <1>3, <1>4 DEF Fed, FeedTyped
<1>6. /\ aired'[r] = Append(aired[r], job[r]) /\ Len(aired'[r]) = len + 1
      /\ aired'[r][len + 1] = job[r] /\ \A p \in 1 .. len : aired'[r][p] = aired[r][p]
  BY <1>2, <1>5 DEF AirChat, FeedTyped
<1>7. Copies(usersMap[r], c, job[r].by) = IF nick[c] # job[r].by THEN 1 ELSE 0
  BY <1>2, <1>3, OneCopy
<1>8. buffChan'[c] > buffChan[c] <=> nick[c] # job[r].by
  <2>1. buffChan[c] \in 0 .. BuffCap /\ BuffCap \in Nat
    BY <1>2, BoundsAssumption DEF Typed, TypeOK
  <2>2. buffChan'[c] = IF buffChan[c] + Copies(usersMap[r], c, job[r].by) <= BuffCap
                       THEN buffChan[c] + Copies(usersMap[r], c, job[r].by) ELSE BuffCap
    BY <1>2 DEF RoomBroadcast, Broadsend
  <2>3. QED
    BY <1>4, <1>7, <2>1, <2>2
<1>9. D \in SUBSET (1 .. len)
  BY DEF Due
<1>10. Due(c, r, k)' = IF nick[c] # job[r].by THEN D \cup {len + 1} ELSE D
  <2>1. 1 .. len + 1 = (1 .. len) \cup {len + 1}
    BY <1>5
  <2>2. ~(len + 1 <= k)
    BY <1>5
  <2>3. Due(c, r, k)' = { i \in 1 .. len + 1 : IF i <= k THEN k < i + MaxOffline
                                             ELSE aired'[r][i].by # nick[c] }
    BY <1>2, <1>6 DEF Due
  <2>4. \A i \in 1 .. len : aired'[r][i].by = aired[r][i].by
    BY <1>6
  <2>5. aired'[r][len + 1].by = job[r].by
    BY <1>6
  <2>6. D = { i \in 1 .. len : IF i <= k THEN k < i + MaxOffline ELSE aired[r][i].by # nick[c] }
    BY DEF Due
  <2> HIDE DEF D, len, k
  <2>7. ASSUME NEW i \in 1 .. len
        PROVE  i \in Due(c, r, k)' <=> i \in D
    BY <2>1, <2>3, <2>4, <2>6
  <2>8. len + 1 \in Due(c, r, k)' <=> job[r].by # nick[c]
    BY <2>1, <2>2, <2>3, <2>5
  <2>9. Due(c, r, k)' \subseteq (1 .. len) \cup {len + 1} /\ D \subseteq 1 .. len
    BY <2>1, <2>3, <2>6
  <2> DEFINE E == Due(c, r, k)'
  <2>10. (\A i \in 1 .. len : i \in E <=> i \in D) /\ E \subseteq (1 .. len) \cup {len + 1}
    BY <2>7, <2>9
  <2>11. len + 1 \in E <=> job[r].by # nick[c]
    BY <2>8
  <2> HIDE DEF E
  <2>12. CASE nick[c] # job[r].by
    <3>1. E = D \cup {len + 1}
      BY <2>9, <2>10, <2>11, <2>12
    <3>2. QED
      BY <2>12, <3>1 DEF E
  <2>13. CASE nick[c] = job[r].by
    <3>1. E = D
      BY <2>9, <2>10, <2>11, <2>13
    <3>2. QED
      BY <2>13, <3>1 DEF E
  <2>14. QED
    BY <2>12, <2>13
<1>11. /\ At(aired'[r], D) = At(aired[r], D)
       /\ At(aired'[r], D \cup {len + 1}) = Append(At(aired[r], D), job[r])
  <2>1. D \in SUBSET (1 .. Len(aired[r]))
    BY <1>9
  <2> HIDE DEF D
  <2>2. /\ At(Append(aired[r], job[r]), D) = At(aired[r], D)
        /\ At(Append(aired[r], job[r]), D \cup {Len(aired[r]) + 1})
             = Append(At(aired[r], D), job[r])
    BY <1>2, <1>5, <2>1, AtAppend
  <2>3. QED
    BY <1>6, <2>2
<1> HIDE DEF D, len
<1>12. since'[c] <= Len(aired'[r])
  BY <1>2, <1>5, <1>6
<1>13. got'[c] = At(aired'[r], Due(c, r, k)')
  BY <1>4, <1>5, <1>8, <1>10, <1>11
<1>14. QED
  BY <1>12, <1>13

LEMMA BroadcastFeed ==
  ASSUME RoomsInv, FeedInv, NEW r \in Rooms, RoomBroadcast(r), AirChat(r)
  PROVE  FeedInv'
<1>1. Typed /\ FeedTyped /\ room[r] = "record" /\ job[r] \in Chats
      /\ UNCHANGED <<since, usersMap, nick, closer>>
  BY DEF RoomsInv, FeedInv, RoomBroadcast, AirChat, Typed, PcOK, userVars, closeVars
<1>2. FeedTyped'
  <2>1. Append(aired[r], job[r]) \in Seq(Chats)
    BY <1>1 DEF FeedTyped
  <2>2. \A c \in Users : Append(got[c], job[r]) \in Seq(Chats) /\ got[c] \in Seq(Chats)
    BY <1>1 DEF FeedTyped
  <2>3. aired' \in [Rooms -> Seq(Chats)] /\ since' \in [Users -> Nat]
    BY <1>1, <2>1 DEF AirChat, FeedTyped
  <2>4. got' \in [Users -> Seq(Chats)] /\ lost' \in [Users -> BOOLEAN]
    BY <1>1, <2>2 DEF AirChat
  <2>5. QED
    BY <2>3, <2>4 DEF FeedTyped
<1>3. \A s \in Rooms : Ring(s)'
  BY <1>1, RingSaved DEF FeedInv
<1>4. ASSUME NEW c \in Console, NEW s \in Rooms
      PROVE  Fed(c, s)'
  <2>1. c \in Users /\ Fed(c, s) /\ Place(c)
    BY DEF Console, FeedInv, RoomsInv, Tracked
  <2>2. CASE s = r
    BY <1>1, <2>1, <2>2, ChatFed
  <2>3. CASE s # r
    <3>1. SUFFICES ASSUME ~Closed(c)', Stays(c, s)'
                   PROVE  Fed(c, s)'
      BY DEF Fed
    <3>2. Stays(c, s)
      BY <1>1, <2>3, <3>1 DEF Stays, Member, RoomBroadcast, NextCase, Typed, TypeOK
    <3>3. ~Member(c, r)
      <4>1. SUFFICES ASSUME Member(c, r)
                     PROVE  FALSE
        OBVIOUS
      <4>2. In(c, r) /\ In(c, s)
        BY <1>1, <3>2, <4>1 DEF In, Stays
      <4>3. QED
        BY <2>3, <4>2, OneRoomHolds DEF OneRoom, Console
    <3>4. ~Closed(c)
      BY <1>1, <3>1 DEF Closed
    <3>5. buffChan'[c] = buffChan[c]
      <4>1. Copies(usersMap[r], c, job[r].by) = 0
        BY <1>1, <2>1, <3>3, <3>4, OneCopy
      <4>2. buffChan[c] \in 0 .. BuffCap /\ BuffCap \in Nat
        BY <1>1, <2>1, BoundsAssumption DEF Typed, TypeOK
      <4>3. buffChan'[c] = IF buffChan[c] + 0 <= BuffCap THEN buffChan[c] + 0 ELSE BuffCap
        BY <2>1, <4>1 DEF RoomBroadcast, Broadsend
      <4>4. QED
        BY <4>2, <4>3
    <3>6. got'[c] = got[c] /\ (lost'[c] = FALSE => lost[c] = FALSE)
      <4>1. ~(buffChan'[c] > buffChan[c])
        BY <1>1, <2>1, <3>5, BoundsAssumption DEF Typed, TypeOK
      <4>2. got'[c] = got[c]
        BY <2>1, <4>1 DEF AirChat
      <4>3. lost'[c] = (lost[c] \/ buffChan[c] = BuffCap)
        BY <2>1 DEF AirChat
      <4>4. lost[c] \in BOOLEAN
        BY <1>1, <2>1 DEF FeedTyped
      <4>5. QED
        BY <4>2, <4>3, <4>4
    <3>7. aired'[s] = aired[s] /\ lost[c] \in BOOLEAN /\ lost'[c] \in BOOLEAN
      BY <1>1, <1>2, <2>1, <2>3 DEF AirChat, FeedTyped
    <3>8. QED
      BY <1>1, <2>1, <3>2, <3>4, <3>6, <3>7, FedFrame
  <2>4. QED
    BY <2>2, <2>3
<1>5. QED
  BY <1>2, <1>3, <1>4 DEF FeedInv

\* A step that neither broadcasts a chat nor ends an entering case.
LEMMA OtherFeed ==
  ASSUME FeedInv, UNCHANGED <<offlineMsg, feedVars>>,
         \A c \in Console : /\ Closed(c) => Closed(c)'
                            /\ \A r \in Rooms :
                                 Stays(c, r)' => Stays(c, r) /\ nick'[c] = nick[c]
  PROVE  FeedInv'
<1>1. UNCHANGED <<aired, since, got, lost>>
  BY DEF feedVars
<1>2. FeedTyped' /\ \A r \in Rooms : Ring(r)'
  BY <1>1 DEF FeedInv, FeedTyped, Ring
<1>3. ASSUME NEW c \in Console, NEW r \in Rooms
      PROVE  Fed(c, r)'
  <2>1. c \in Users /\ Fed(c, r) /\ lost[c] \in BOOLEAN /\ lost'[c] \in BOOLEAN
    BY <1>2 DEF FeedInv, FeedTyped, Console
  <2>2. QED
    BY <1>1, <2>1, FedFrame
<1>4. QED
  BY <1>2, <1>3 DEF FeedInv

LEMMA FeedInvNext ==
  ASSUME RoomsInv, FeedInv, FeedNext
  PROVE  FeedInv'
<1>1. Typed
  BY DEF RoomsInv
<1>2. ASSUME \A r \in Rooms : ~Airs(r) /\ \A c \in Users : ~Admits(r, c)
      PROVE  UNCHANGED feedVars
  BY <1>2 DEF FeedNext
<1>3. ASSUME NEW c \in Users, Actor(c)
      PROVE  FeedInv'
  <2>1. /\ UNCHANGED <<usersMap, offlineMsg>>
        /\ \A r \in Rooms : room[r] = "select" \/ (room'[r] = room[r] /\ job'[r] = job[r])
        /\ Closed(c) => Closed(c)'
        /\ hpc[c] # "named" => nick' = nick
    BY <1>1, <1>3, ActorFeed
  <2>2. UNCHANGED feedVars
    BY <1>2, <2>1 DEF Airs, Admits
  <2>3. ASSUME NEW d \in Console
        PROVE  /\ Closed(d) => Closed(d)'
               /\ \A r \in Rooms : Stays(d, r)' => Stays(d, r) /\ nick'[d] = nick[d]
    <3>1. d \in Users /\ Conversation(d) /\ Place(d)
      BY DEF RoomsInv, Tracked, Console
    <3>2. d # c => UNCHANGED Local(d)
      BY <1>1, <1>3, <3>1, ActorSpares
    <3>3. Closed(d) => Closed(d)'
      BY <2>1, <3>2 DEF Local, Closed
    <3>4. ASSUME NEW r \in Rooms, Stays(d, r)'
          PROVE  Stays(d, r) /\ nick'[d] = nick[d]
      <4>1. Stays(d, r)
        BY <2>1, <3>1, <3>4, StaysBack
      <4>2. CASE d # c
        BY <3>2, <4>1, <4>2 DEF Local
      <4>3. CASE d = c
        <5>1. client[d] \in {"enterWait", "typing", "leaveWait"}
          BY <1>1, <3>1, <4>1, StaysIn, InRoom
        <5>2. hpc[d] # "named"
          BY <3>1, <5>1 DEF Conversation, EnterOK, TypingOK, LeaveOK
        <5>3. QED
          BY <2>1, <4>1, <4>3, <5>2
      <4>4. QED
        BY <4>2, <4>3
    <3>5. QED
      BY <3>3, <3>4
  <2>4. QED
    BY <2>1, <2>2, <2>3, OtherFeed
<1>4. ASSUME NEW r \in Rooms, RoomEnter(r)
      PROVE  FeedInv'
  <2>1. /\ room[r] = "enter" /\ job[r] \in Users
        /\ room' = [room EXCEPT ![r] = IF nick[job[r]] \notin LongNames THEN "select" ELSE "dead"]
    BY <1>1, <1>4 DEF RoomEnter, NextCase, Typed, PcOK
  <2>2. \A s \in Rooms : ~Airs(s)
    BY <1>1, <2>1 DEF Airs, Typed, TypeOK
  <2>3. Admits(r, job[r])
    BY <1>1, <2>1 DEF Admits, Typed, TypeOK
  <2>4. ASSUME NEW s \in Rooms, NEW c \in Users, Admits(s, c)
        PROVE  s = r /\ c = job[r]
    BY <1>1, <2>1, <2>4 DEF Admits, Typed, TypeOK
  <2>5. StartStay(r, job[r])
    BY <2>1, <2>2, <2>3, <2>4 DEF FeedNext
  <2>6. QED
    BY <1>4, <2>1, <2>5, EnterFeed
<1>5. ASSUME NEW r \in Rooms, RoomBroadcast(r)
      PROVE  FeedInv'
  <2>1. room[r] = "record" /\ room' = [room EXCEPT ![r] = "select"]
    BY <1>5 DEF RoomBroadcast, NextCase
  <2>2. Airs(r) /\ \A s \in Rooms : Airs(s) => s = r
    BY <1>1, <2>1 DEF Airs, Typed, TypeOK
  <2>3. AirChat(r)
    BY <2>2 DEF FeedNext
  <2>4. QED
    BY <1>5, <2>3, BroadcastFeed
<1>6. ASSUME NEW r \in Rooms, Rest(r), ~RoomBroadcast(r)
      PROVE  FeedInv'
  <2>1. UNCHANGED offlineMsg
    BY <1>6 DEF Rest, RoomLeave, RoomMessage, RoomClosed
  <2>2. /\ room[r] \in {"leave", "select"} /\ \A s \in Rooms \ {r} : room'[s] = room[s]
        /\ \A s \in Rooms \ {r} : job'[s] = job[s]
    BY <1>1, <1>6 DEF Rest, RoomLeave, NextCase, RoomMessage, Work, RoomClosed, Typed, TypeOK
  <2>3. UNCHANGED feedVars
    BY <1>2, <2>2 DEF Airs, Admits
  <2>4. ASSUME NEW d \in Console
        PROVE  /\ Closed(d) => Closed(d)'
               /\ \A s \in Rooms : Stays(d, s)' => Stays(d, s) /\ nick'[d] = nick[d]
    <3>1. d \in Users /\ \A s \in Rooms : \A n \in Keys : usersMap[s][n] = d => n = nick[d]
      BY DEF RoomsInv, Tracked, Console, Place, RoomOK
    <3>2. UNCHANGED Local(d) /\ GivesNothing(d)
      BY <1>1, <1>6, <3>1, RestSpares
    <3>3. ASSUME NEW s \in Rooms, Stays(d, s)'
          PROVE  Stays(d, s)
      <4>1. Member(d, s) /\ In(d, s)
        BY <3>2, <3>3 DEF GivesNothing, Stays, Member, In
      <4>2. QED
        BY <4>1 DEF Stays, In
    <3>4. QED
      BY <3>2, <3>3 DEF Local, Closed
  <2>5. QED
    BY <2>1, <2>3, <2>4, OtherFeed
<1>7. ASSUME UNCHANGED <<roomVars, messageChannel, allUsersMap, userVars, hVars, closeVars,
                        recvChan, outVars, cliVars>>
      PROVE  FeedInv'
  <2>1. UNCHANGED <<room, job, usersMap, offlineMsg, nick, closer>>
    BY <1>7 DEF roomVars, userVars, closeVars
  <2>2. UNCHANGED feedVars
    BY <1>2, <2>1 DEF Airs, Admits
  <2>3. QED
    BY <2>1, <2>2, OtherFeed DEF Closed, Stays, Member
<1>8. QED
  <2>1. [Next]_vars
    BY DEF FeedNext
  <2>2. QED
    BY <1>3, <1>4, <1>5, <1>6, <1>7, <2>1, Steps

\* What a console user gets while it stays in a room is the last chats from
\* before it entered and then every later chat of the others, once each and in
\* the room's order, if none of its queues was full: the history (room.go:222,
\* offline.go:26-42) and the broadcasts (room.go:259) meet without gap or
\* double, whatever enters, leaves, logins and disconnections come between.
THEOREM FedExactlyAlways == FeedSpec => []FedExactly
<1>1. FeedInit => FeedInv
  <2>1. SUFFICES ASSUME FeedInit
                 PROVE  FeedInv
    OBVIOUS
  <2>2. /\ aired = [r \in Rooms |-> <<>>] /\ since = [c \in Users |-> 0]
        /\ got = [c \in Users |-> <<>>] /\ lost = [c \in Users |-> FALSE]
        /\ usersMap = [r \in Rooms |-> [n \in Keys |-> NoUser]]
        /\ offlineMsg = [r \in Rooms |-> [i \in 1 .. MaxOffline |-> NoChat]]
    BY <2>1 DEF FeedInit, Init
  <2>3. FeedTyped
    BY <2>2 DEF FeedTyped
  <2>4. \A r \in Rooms : Ring(r)
    BY <2>2, BoundsAssumption DEF Ring
  <2>5. \A c \in Console, r \in Rooms : Fed(c, r)
    BY <2>2, UsersAssumption DEF Fed, Stays, Member, Console
  <2>6. QED
    BY <2>3, <2>4, <2>5 DEF FeedInv
<1>2. RoomsInv /\ FeedInv /\ [FeedNext]_<<vars, feedVars>> => FeedInv'
  <2>1. ASSUME RoomsInv, FeedInv, UNCHANGED <<vars, feedVars>>
        PROVE  FeedInv'
    BY <2>1, OtherFeed DEF vars, roomVars, userVars, closeVars, Closed, Stays, Member
  <2>2. QED
    BY <2>1, FeedInvNext
<1>3. RoomsInv /\ FeedInv => FedExactly
  BY DEF FeedInv, Fed, FedExactly, Console
<1>4. FeedSpec => Spec
  <2>1. FeedInit => Init
    BY DEF FeedInit
  <2>2. [FeedNext]_<<vars, feedVars>> => [Next]_vars
    BY DEF FeedNext
  <2>3. QED
    BY <2>1, <2>2, PTL DEF FeedSpec, Spec
<1>5. QED
  BY <1>1, <1>2, <1>3, <1>4, RoomsInvariance, PTL DEF FeedSpec

===============================================================================
