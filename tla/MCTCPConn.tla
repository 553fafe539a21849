------------------------------- MODULE MCTCPConn -------------------------------
(* The instance of TCPConn for TLC.                                         *)
EXTENDS TCPConn, TLC

CONSTANT s1

\* The clients give no limits or both, the server both.
MCLimits == {[send |-> 0, recv |-> 0], [send |-> 1, recv |-> 1]}
===============================================================================
