--------------------------------- MODULE Lobby ---------------------------------
(***************************************************************************)
(* What the room manager promises, without handlers, channels or rooms'    *)
(* goroutines: nicknames are owned by one user at a time, a user is in at  *)
(* most one room and only with a nickname, and a nickname becomes free     *)
(* again only when its owner has left.  Module ChatServer implements it    *)
(* for the console clients.                                                *)
(***************************************************************************)
CONSTANTS Users, Keys, Rooms, NoUser, NoRoom

VARIABLES
  owner,     \* nickname -> the user that owns it, or NoUser
  where      \* user -> the room it is in, or NoRoom

lobbyVars == <<owner, where>>

Init == /\ owner = [n \in Keys |-> NoUser]
        /\ where = [c \in Users |-> NoRoom]

Take(c, n) ==
  /\ owner[n] = NoUser
  /\ owner' = [owner EXCEPT ![n] = c]
  /\ UNCHANGED where

Join(c, r) ==
  /\ where[c] = NoRoom /\ \E n \in Keys : owner[n] = c
  /\ where' = [where EXCEPT ![c] = r]
  /\ UNCHANGED owner

Part(c) ==
  /\ where' = [where EXCEPT ![c] = NoRoom]
  /\ UNCHANGED owner

Release(n) ==
  /\ owner[n] # NoUser /\ where[owner[n]] = NoRoom
  /\ owner' = [owner EXCEPT ![n] = NoUser]
  /\ UNCHANGED where

Next ==
  \/ \E c \in Users : \/ \E n \in Keys : Take(c, n)
                      \/ \E r \in Rooms : Join(c, r)
                      \/ Part(c)
  \/ \E n \in Keys : Release(n)

Spec == Init /\ [][Next]_lobbyVars
===============================================================================
