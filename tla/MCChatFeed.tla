------------------------------ MODULE MCChatFeed ------------------------------
(* The instance of ChatFeed for TLC.                                        *)
EXTENDS ChatFeed, TLC

CONSTANTS c1, c2, r1, r2, bad, n1, n2

Symmetry == Permutations(Users) \cup Permutations(Names) \cup Permutations(Rooms)
===============================================================================
