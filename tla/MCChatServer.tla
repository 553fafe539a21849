----------------------------- MODULE MCChatServer -----------------------------
(* Instances of ChatServer for TLC: two connections, two nicknames and one  *)
(* or two rooms, with the smallest queues that fill up.                     *)
EXTENDS ChatServer, TLC

CONSTANTS c1, c2, r1, r2, bad, n1, n2

\* Connections, rooms and names are interchangeable (safety runs only).
Symmetry == Permutations(Users) \cup Permutations(Rooms) \cup Permutations(Names)
===============================================================================
