---------------------------- MODULE MCMostPopular ----------------------------
(* The instance of MostPopular for TLC.                                     *)
EXTENDS MostPopular, TLC

CONSTANTS w1, w2

Symmetry == Permutations(Words)
===============================================================================
