------------------------------ MODULE Endpoints ------------------------------
(***************************************************************************)
(* A TCPClient and the TCPServer it dials.  Either may be closed at any    *)
(* time, in either order, also while connections are being made or the     *)
(* server has not started.                                                 *)
(***************************************************************************)
EXTENDS TCPClient, TCPServer

vars == <<sockets, client, server>>

TypeOK == SocketsOK /\ ClientOK /\ ServerOK

Init == SocketsInit /\ ClientInit /\ ServerInit

Next == (ClientNext /\ UNCHANGED server) \/ (ServerNext /\ UNCHANGED client)

Spec == Init /\ [][Next]_vars

\* What goes on by itself goes on.  Only a user's questions and answers go
\* round in a circle, and they bar nobody else's steps, so that something
\* runs as long as a goroutine can is as much as that each does.  Nobody has
\* to start the server, to close an end, or to enter a line.
GoesOn == (ClientGoesOn /\ UNCHANGED server) \/ (ServerGoesOn /\ UNCHANGED client)
FairSpec == Spec /\ WF_vars(GoesOn)

-----------------------------------------------------------------------------
\* When TCPClient.Close has returned, no goroutine of the client runs and no
\* connection is open: whatever a dialer was about to do when the flag was
\* set, it has not left a connection behind.
ClientQuiet ==
  cowner = "closed" =>
    \A d \in Dialers :
      /\ dialer[d] = "done" /\ cstage[d] \in {"none", "ended"} /\ cloops[d] = {}
      /\ clientEnd[d] # "open"

\* TCPServer.Close was called before Serve had stored its listener
\* (tcp_server.go:44, 93): it has ended nothing, and the server goes on.
Missed == sowner # "run" /\ (listening \/ accept = "off")

\* When TCPServer.Close has returned and had found the listener, the loop has
\* no connection in hand and gets none any more (it has ended, or ends when
\* it asks), no goroutine of a connection runs, and no accepted connection is
\* open: none slipped in between Accept and the walk over conns, also if
\* Close came before Serve was counted.
ServerQuiet ==
  sowner = "closed" /\ ~Missed =>
    /\ ~listening /\ accept \in {"stored", "accept", "ended"}
    /\ \A d \in Dialers :
         /\ sstage[d] \in {"none", "ended"} /\ sloops[d] = {}
         /\ serverEnd[d] \in {"none", "closed"}

\* A connection that Close has not seen: its dialer read closeFlag before it
\* was set (tcp_client.go:71) and stored the connection after the walk had
\* passed.  Its loops run until the server closes.
Overlooked ==
  \E d \in Dialers :
    /\ cstage[d] \in {"start", "serving"} /\ d \notin visited
    /\ clientEnd[d] = "open" /\ serverEnd[d] # "closed"

\* A goroutine that TCPClient.Close waits for is at the console: OnConnect
\* (client.go:29) or a handler (client.go:171, 180, 203, 219).
Prompted == \E d \in Dialers : cstage[d] = "start" \/ d \in asking

\* In the end TCPClient.Close returns, whether or not the server answers,
\* unless it has overlooked a connection or the user owes it a line.
ClientReturned == closeFlag => cowner = "closed" \/ Overlooked \/ Prompted
ClientCloseReturns == <>[]ClientReturned

\* In the end TCPServer.Close returns, whatever the accept loop and the
\* connections were doing, if it found the listener.
ServerReturned == sowner # "run" => sowner = "closed" \/ Missed
ServerCloseReturns == <>[]ServerReturned

\* A dialer keeps trying while the server does not listen, and no longer than
\* the client is open.
Dialled == \A d \in Dialers : dialer[d] = "done" \/ (~listening /\ ~closeFlag)
DialerSettles == <>[]Dialled

\* The server ends its side of a connection whose client has gone, also if
\* it went before Accept, or the server was starting to close.
Dropped ==
  \A d \in Dialers :
    clientEnd[d] = "closed" =>
      serverEnd[d] = "closed" /\ sstage[d] \in {"none", "ended"} /\ sloops[d] = {}
GoneIsDropped == <>[]Dropped
==============================================================================
