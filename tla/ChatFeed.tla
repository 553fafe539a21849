-------------------------------- MODULE ChatFeed --------------------------------
(***************************************************************************)
(* ChatServer with history variables for what each user is sent during its *)
(* stay in a room: the chats a room has broadcast, and those of them that  *)
(* reached the queues of the user's connection, in order.                  *)
(***************************************************************************)
EXTENDS ChatServer

VARIABLES
  aired,   \* per room, every chat the room has broadcast, in order
  since,   \* per user, how many chats its room had broadcast when it entered
  got,     \* per user, the chats its connection took since it entered
  lost     \* per user, whether a full queue lost one since it entered

feedVars == <<aired, since, got, lost>>

FeedInit ==
  /\ Init
  /\ aired = [r \in Rooms |-> <<>>]
  /\ since = [c \in Users |-> 0]
  /\ got   = [c \in Users |-> <<>>]
  /\ lost  = [c \in Users |-> FALSE]

\* The steps that end a room's entering case for c and its message case.
Admits(r, c) == room[r] = "enter" /\ room'[r] # "enter" /\ job[r] = c
Airs(r)      == room[r] = "record" /\ room'[r] # "record"

\* The i-th place of a set S of places, and the elements of s at the places S,
\* in order (SelectSeq, for which TLAPS has no rules).
Nth(S, i) == CHOOSE j \in { k \in S : Cardinality({ l \in S : l <= k }) = i } : TRUE
At(s, S)  == [i \in 1 .. Cardinality(S) |-> s[Nth(S, i)]]

\* The chats OfflineMsg.Send of room r visits, in its order.
Visited(r) == At(offlineMsg[r], Stored(offlineMsg[r]))

Grown(c) == Len(sendChan'[c]) - Len(sendChan[c])

\* A stay starts with the history that packetSendChan took.
StartStay(r, c) ==
  /\ since' = [since EXCEPT ![c] = Len(aired[r])]
  /\ got'   = [got EXCEPT ![c] = SubSeq(Visited(r), 1, Grown(c))]
  /\ lost'  = [lost EXCEPT ![c] = Grown(c) < Len(Visited(r))]
  /\ UNCHANGED aired

\* A broadcast reaches the connections whose buffSendChan took it.
AirChat(r) ==
  /\ aired' = [aired EXCEPT ![r] = Append(@, job[r])]
  /\ got'   = [c \in Users |-> IF buffChan'[c] > buffChan[c]
                               THEN Append(got[c], job[r]) ELSE got[c]]
  /\ lost'  = [c \in Users |-> lost[c] \/ buffChan[c] = BuffCap]
  /\ UNCHANGED since

FeedNext ==
  /\ Next
  /\ IF \E r \in Rooms : Airs(r)
     THEN \E r \in Rooms : Airs(r) /\ AirChat(r)
     ELSE IF \E r \in Rooms, c \in Users : Admits(r, c)
     THEN \E r \in Rooms, c \in Users : Admits(r, c) /\ StartStay(r, c)
     ELSE UNCHANGED feedVars

FeedSpec == FeedInit /\ [][FeedNext]_<<vars, feedVars>>

-----------------------------------------------------------------------------
\* c is a member of room r, and the room has not taken its leave: with that, c
\* may enter another room before this one has dropped it.
Stays(c, r) == Member(c, r) /\ ~(room[r] = "leave" /\ job[r] = c)

\* The chats of room r for a user that entered after the first k of them: the
\* last MaxOffline of these, and of the later ones those of the others.
Due(c, r, k) ==
  { i \in 1 .. Len(aired[r]) : IF i <= k THEN k < i + MaxOffline
                               ELSE aired[r][i].by # nick[c] }

\* A user in a room is sent the last chats from before it entered and then
\* every later chat of the others, each once and in the room's order: no gap
\* and no double between the history (room.go:222) and the broadcasts
\* (room.go:259), and nothing of another room, however it moves between rooms,
\* unless a queue of its connection was full.
FedExactly ==
  \A c \in Users \ Foreign, r \in Rooms :
    ~Closed(c) /\ Stays(c, r) /\ ~lost[c] =>
      got[c] = At(aired[r], Due(c, r, since[c]))
===============================================================================
