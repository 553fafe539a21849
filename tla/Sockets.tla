------------------------------- MODULE Sockets -------------------------------
(***************************************************************************)
(* What the endpoints share: the listener and the two ends of each         *)
(* connection, as the kernel keeps them.  A connection is named by the     *)
(* dialer of the client that asks for it; a dialer gets at most one.       *)
(***************************************************************************)
CONSTANTS
  Dialers,          \* the ConnNum goroutines of TCPClient.Start
  Restless          \* bound of the model: the ends of connections whose
                    \* loops may stop by an error or by the handler, and
                    \* whose handler may ask the user

ASSUME RestlessAssumption == Restless \subseteq {"client", "server"} \X Dialers

VARIABLES
  listening,        \* the server's port
  clientEnd,        \* "none", "open", "closed"
  serverEnd         \* "none", "backlog" until it is accepted, "open", "closed"

sockets == <<listening, clientEnd, serverEnd>>

SocketsOK ==
  /\ listening \in BOOLEAN
  /\ clientEnd \in [Dialers -> {"none", "open", "closed"}]
  /\ serverEnd \in [Dialers -> {"none", "backlog", "open", "closed"}]

SocketsInit ==
  /\ listening = FALSE
  /\ clientEnd = [d \in Dialers |-> "none"] /\ serverEnd = [d \in Dialers |-> "none"]
==============================================================================
