------------------------------ MODULE TCPServer ------------------------------
(***************************************************************************)
(* pkg/tcp/tcp_server.go: the start of the server and its accept loop, the *)
(* connections it starts, and Close, which ends the loop before it closes  *)
(* the connections.  ListenAndServe and Close run in goroutines of their   *)
(* own: Close may come at any moment of the start, also before server.ln   *)
(* and wgLn are set, and then it ends nothing.                             *)
(***************************************************************************)
EXTENDS Sockets

VARIABLES
  accept,       \* ListenAndServe: "off", "bound" with the port opened,
                \* "stored" with server.ln set, then Serve's loop: "accept",
                \* "store"; "ended"
  accepted,     \* conn of the loop, as a set
  sconns, swg, sstage, sloops,
  sowner,       \* Close: "run", "closing", "ranging", "waiting", "closed"
  svisited      \* connections that Range has closed

sserve == <<sconns, swg, sstage, sloops>>
saccept == <<accept, accepted>>
sclose == <<sowner, svisited>>
server == <<saccept, sserve, sclose>>

S == INSTANCE ConnServe
     WITH conns <- sconns, wg <- swg, stage <- sstage, loops <- sloops,
          own <- serverEnd, peer <- clientEnd

ServerOK ==
  /\ accept \in {"off", "bound", "stored", "accept", "store", "ended"}
  /\ accepted \subseteq Dialers /\ (accepted # {} <=> accept = "store")
  /\ S!ServeOK
  /\ sowner \in {"run", "closing", "ranging", "waiting", "closed"}
  /\ svisited \subseteq Dialers

ServerInit ==
  /\ accept = "off" /\ accepted = {}
  /\ S!ServeInit /\ swg = {}
  /\ sowner = "run" /\ svisited = {}

-----------------------------------------------------------------------------
(* ListenAndServe and Serve.                                               *)

\* What wgLn counts: Serve, from its Add(1) on.
Counted == accept \in {"accept", "store"}

AcceptAt(from, to) == accept = from /\ accept' = to

\* ListenTCP.
Listen ==
  /\ AcceptAt("off", "bound")
  /\ listening' = TRUE
  /\ UNCHANGED <<accepted, sserve, sclose, clientEnd, serverEnd>>

\* server.ln = *ln: from here on Close finds the listener ...
StoreListener ==
  /\ AcceptAt("bound", "stored")
  /\ UNCHANGED <<accepted, sserve, sclose, sockets>>

\* ... and from here on it waits for the loop.
ServeBegin ==
  /\ AcceptAt("stored", "accept")
  /\ UNCHANGED <<accepted, sserve, sclose, sockets>>

\* A Temporary() error only delays: Accept is asked again after tempDelay.
Accept(d) ==
  /\ AcceptAt("accept", "store") /\ listening /\ serverEnd[d] = "backlog"
  /\ serverEnd' = [serverEnd EXCEPT ![d] = "open"]
  /\ accepted' = {d}
  /\ UNCHANGED <<sserve, sclose, listening, clientEnd>>

\* The listener is closed: Serve returns.
AcceptClosed ==
  /\ AcceptAt("accept", "ended") /\ ~listening
  /\ UNCHANGED <<accepted, sserve, sclose, sockets>>

\* The connection is stored, then counted, then its goroutine starts: one
\* step, since a Close that looks at conns or wgConns while the loop has a
\* connection in hand has missed the listener.
StoreConn(d) ==
  /\ AcceptAt("store", "accept") /\ d \in accepted /\ accepted' = {}
  /\ sconns' = sconns \cup {d}
  /\ swg' = swg \cup {<<"conn", d>>}
  /\ sstage' = [sstage EXCEPT ![d] = "start"]
  /\ UNCHANGED <<sloops, sclose, sockets>>

Serving ==
  \/ StoreListener \/ ServeBegin \/ AcceptClosed
  \/ \E d \in Dialers : Accept(d) \/ StoreConn(d)

-----------------------------------------------------------------------------
(* Close.                                                                  *)

\* The port is closed, and the kernel resets connections not accepted.
ClosePort ==
  /\ listening' = FALSE
  /\ serverEnd' = [d \in Dialers |-> IF serverEnd[d] = "backlog" THEN "closed" ELSE serverEnd[d]]
  /\ UNCHANGED clientEnd

\* server.ln.Close(): of a listener that is not stored yet, the zero
\* net.TCPListener, it gives an error that nobody looks at.
CloseListener ==
  /\ sowner = "run" /\ sowner' = "closing"
  /\ IF accept \in {"off", "bound"} THEN UNCHANGED sockets ELSE ClosePort
  /\ UNCHANGED <<svisited, saccept, sserve>>

\* Slip: wgLn is not waited for.
WaitListenerNot ==
  /\ sowner = "closing" /\ sowner' = "ranging"
  /\ UNCHANGED <<svisited, saccept, sserve, sockets>>

WaitListener ==
  /\ sowner = "closing" /\ ~Counted /\ sowner' = "ranging"
  /\ UNCHANGED <<svisited, saccept, sserve, sockets>>

\* Slip: the walk does not close.
RangeCloseConnNot(d) ==
  /\ sowner = "ranging" /\ d \in sconns \ svisited
  /\ svisited' = svisited \cup {d}
  /\ UNCHANGED <<sowner, saccept, sserve, sockets>>

RangeCloseConn(d) ==
  /\ sowner = "ranging" /\ d \in sconns \ svisited
  /\ svisited' = svisited \cup {d}
  /\ serverEnd' = [serverEnd EXCEPT ![d] = "closed"]
  /\ UNCHANGED <<sowner, saccept, sserve, listening, clientEnd>>

\* Range visits what is there when it begins.  When more is stored
\* meanwhile, by a loop that Close has not ended, there was nothing then,
\* and what is stored is visited or not.
RangeConnsEnd ==
  /\ sowner = "ranging" /\ (listening \/ sconns \subseteq svisited) /\ sowner' = "waiting"
  /\ svisited' = {}
  /\ UNCHANGED <<saccept, sserve, sockets>>

WaitConns ==
  /\ sowner = "waiting" /\ swg = {} /\ sowner' = "closed"
  /\ UNCHANGED <<svisited, saccept, sserve, sockets>>

ServerCloseGoesOn ==
  WaitListener \/ (\E d \in Dialers : RangeCloseConn(d)) \/ RangeConnsEnd \/ WaitConns

-----------------------------------------------------------------------------
ServerServe(d) == S!Serve(d) /\ UNCHANGED <<saccept, sclose, listening, clientEnd>>
ServerQuit(d) == S!Quit(d) /\ UNCHANGED <<saccept, sclose, listening, clientEnd>>

ServerGoesOn == Serving \/ ServerCloseGoesOn \/ (\E d \in Dialers : ServerServe(d))

ServerNext ==
  \/ Listen \/ CloseListener \/ ServerGoesOn
  \/ \E d \in Dialers : <<"server", d>> \in Restless /\ ServerQuit(d)
==============================================================================
