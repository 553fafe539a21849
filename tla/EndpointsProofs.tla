--------------------------- MODULE EndpointsProofs ---------------------------
(***************************************************************************)
(* Proofs about Endpoints for any set of dialers, whichever connections    *)
(* may stop by themselves: after Close, nothing is left at either end; no  *)
(* step goes back; and who waits, waits for somebody who can go on.        *)
(***************************************************************************)
EXTENDS Endpoints, Naturals, TLAPS

(* What the wait groups count.  Wait returns only if every goroutine that  *)
(* can still start another one is counted itself.                          *)

\* The client's group has an element for each dialer that is not done, each
\* connection whose goroutine has not ended, each pair of loops.
ClientCounts ==
  \A d \in Dialers :
    /\ <<"dial", d>> \in cwg <=> dialer[d] # "done"
    /\ <<"conn", d>> \in cwg <=> cstage[d] \in {"start", "serving", "closing"}
    /\ <<"io", d>> \in cwg <=> "io" \in cloops[d]

\* A connection is open only in the hands of its dialer, of its goroutine or
\* of its loops, and none of these exists without the one before.
ClientHolds ==
  \A d \in Dialers :
    /\ cstage[d] # "none" => dialer[d] = "done"
    /\ cstage[d] \in {"none", "start"} => cloops[d] = {}
    /\ "handle" \in cloops[d] => cstage[d] \in {"serving", "closing"}
    /\ clientEnd[d] = "open" =>
         dialer[d] \in {"check", "store"} \/ cstage[d] \in {"start", "serving"}

ClientWaited == cowner = "closed" => cwg = {}

ClientInv == ClientOK /\ ClientCounts /\ ClientHolds /\ ClientWaited

\* The same of the server, whose accept loop is waited for apart.
ServerCounts ==
  \A d \in Dialers :
    /\ <<"dial", d>> \notin swg
    /\ <<"conn", d>> \in swg <=> sstage[d] \in {"start", "serving", "closing"}
    /\ <<"io", d>> \in swg <=> "io" \in sloops[d]

ServerHolds ==
  \A d \in Dialers :
    /\ sstage[d] # "none" => serverEnd[d] \in {"open", "closed"} /\ d \notin accepted
    /\ d \in sconns => sstage[d] # "none"
    /\ sstage[d] \in {"none", "start"} => sloops[d] = {}
    /\ "handle" \in sloops[d] => sstage[d] \in {"serving", "closing"}
    /\ d \in accepted => serverEnd[d] \in {"open", "closed"}
    /\ serverEnd[d] = "open" => d \in accepted \/ sstage[d] \in {"start", "serving"}

\* The accept loop has one connection in hand.  A port that is not listened
\* to has no backlog; it is opened before the listener is stored, and the
\* loop has not ended while it is open.
ListenerHolds ==
  /\ \A d, e \in accepted : d = e
  /\ \A d \in Dialers : serverEnd[d] = "backlog" => listening
  /\ listening => accept \notin {"off", "ended"}
  /\ accept = "bound" => listening
  /\ \A d \in Dialers : dialer[d] = "dial" => serverEnd[d] = "none"

\* A Close that found the listener and has waited for the loop.
ServerWaited ==
  ~Missed =>
    /\ sowner \in {"ranging", "waiting", "closed"} => accept \in {"stored", "accept", "ended"}
    /\ sowner = "closed" => swg = {}

ServerInv == ServerOK /\ ServerCounts /\ ServerHolds /\ ListenerHolds /\ ServerWaited

IInv == SocketsOK /\ ClientInv /\ ServerInv

-----------------------------------------------------------------------------
LEMMA IInvInit ==
  ASSUME Init
  PROVE  IInv
<1> USE DEF Init, SocketsInit, ClientInit, ServerInit, C!ServeInit, S!ServeInit
<1>1. SocketsOK
  BY DEF SocketsOK
<1>2. ClientOK
  BY DEF ClientOK, C!ServeOK
<1>3. ServerOK
  BY DEF ServerOK, S!ServeOK
<1>4. ClientCounts /\ ClientHolds /\ ClientWaited
  BY DEF ClientCounts, ClientHolds, ClientWaited
<1>5. ServerCounts /\ ServerHolds /\ ListenerHolds /\ ServerWaited
  BY DEF ServerCounts, ServerHolds, ListenerHolds, ServerWaited
<1>6. QED
  BY <1>1, <1>2, <1>3, <1>4, <1>5 DEF IInv, ClientInv, ServerInv

\* What a step of the client leaves of the server: it may put a connection
\* into the backlog, nothing else.
LEMMA ClientFrame ==
  ASSUME IInv, UNCHANGED <<server, listening>>, SocketsOK',
         \A d \in Dialers : dialer'[d] = "dial" => dialer[d] = "dial",
         \A d \in Dialers : serverEnd'[d] # serverEnd[d] =>
           /\ listening /\ dialer[d] = "dial" /\ dialer'[d] # "dial"
           /\ serverEnd'[d] = "backlog"
  PROVE  ServerInv'
<1> USE DEF IInv, ServerInv, server, saccept, sserve, sclose
<1>1. ServerOK' /\ ServerCounts' /\ ServerWaited'
  BY DEF ServerOK, S!ServeOK, ServerCounts, ServerWaited, Missed
<1>2. ServerHolds' /\ ListenerHolds'
  BY DEF ServerHolds, ListenerHolds
<1>3. QED
  BY <1>1, <1>2

\* What a step of the server leaves of the client.
LEMMA ServerFrame ==
  ASSUME IInv, UNCHANGED <<client, clientEnd>>
  PROVE  ClientInv'
BY DEF IInv, ClientInv, ClientOK, C!ServeOK, ClientCounts, ClientHolds, ClientWaited,
       client, cserve, cclose

-----------------------------------------------------------------------------
\* The goroutine and the loops of a connection of the client.
LEMMA ClientServeInv ==
  ASSUME IInv, NEW d \in Dialers, ClientServe(d) \/ ClientConsole(d) \/ ClientQuit(d)
  PROVE  SocketsOK' /\ ClientInv'
<1> USE DEF IInv, ClientInv, SocketsOK, ClientOK, C!ServeOK, ClientCounts, ClientHolds,
            ClientWaited, cclose, C!Loops, C!ConnEnd
<1>0. UNCHANGED <<closeFlag, dialer, cclose, listening, serverEnd>> /\ asking' \subseteq Dialers
  BY DEF ClientServe, ClientConsole, ClientQuit, ServeOnly, ConsoleOnly, Asks, Answer, sockets
<1>1. CASE C!OnConnect(d)
  <2>1. SocketsOK' /\ ClientOK'
    BY <1>0, <1>1 DEF C!OnConnect
  <2>2. ClientCounts'
    <3>1. ASSUME NEW e \in Dialers
          PROVE  /\ <<"dial", e>> \in cwg' <=> <<"dial", e>> \in cwg
                 /\ <<"conn", e>> \in cwg' <=> <<"conn", e>> \in cwg
                 /\ <<"io", e>> \in cwg' <=> <<"io", e>> \in cwg \/ e = d
      BY <1>1 DEF C!OnConnect
    <3>2. ASSUME NEW e \in Dialers
          PROVE  /\ cstage'[e] \in {"start", "serving", "closing"}
                      <=> cstage[e] \in {"start", "serving", "closing"}
                 /\ "io" \in cloops'[e] <=> "io" \in cloops[e] \/ e = d
      BY <1>1 DEF C!OnConnect
    <3>3. QED
      BY <1>0, <3>1, <3>2
  <2>3. ClientHolds' /\ ClientWaited'
    BY ZenonT(40), <1>0, <1>1 DEF C!OnConnect
  <2>4. QED
    BY <2>1, <2>2, <2>3
<1>2. CASE C!IOReturns(d)
  BY <1>0, <1>2 DEF C!IOReturns
<1>3. CASE C!IOEnd(d)
  BY <1>0, <1>3 DEF C!IOEnd
<1>4. CASE C!HandleReturns(d)
  BY <1>0, <1>4 DEF C!HandleReturns
<1>5. CASE C!Refuse(d)
  BY <1>0, <1>5 DEF C!Refuse
<1>6. CASE Asks(d) \/ Answer(d)
  BY <1>0, <1>6 DEF Asks, Answer, ConsoleOnly, cserve, sockets
<1>7. QED
  BY <1>1, <1>2, <1>3, <1>4, <1>5, <1>6 DEF ClientServe, ClientConsole, ClientQuit,
     C!ReadNotices, C!HandleNotices

\* A dialer, from DialTCP to the goroutine that it starts.
LEMMA ConnectInv ==
  ASSUME IInv, NEW d \in Dialers, Connect(d) \/ DialNoAddr(d)
  PROVE  SocketsOK' /\ ClientInv'
<1> USE DEF IInv, ClientInv, SocketsOK, ClientOK, C!ServeOK, ClientCounts, ClientHolds,
            ClientWaited, cserve, cclose, sockets, DialerAt, DialerDone
<1>1. CASE Connected(d)
  BY <1>1 DEF Connected
<1>2. CASE DialErrorClosed(d) \/ DialNoAddr(d)
  BY <1>2 DEF DialErrorClosed, DialNoAddr
<1>3. CASE CheckOpen(d)
  BY <1>3 DEF CheckOpen
<1>4. CASE CheckClosed(d)
  BY <1>4 DEF CheckClosed
<1>5. CASE Store(d)
  <2>1. SocketsOK' /\ ClientOK'
    BY <1>5 DEF Store
  <2>2. ClientCounts'
    BY ZenonT(40), <1>5 DEF Store
  <2>3. ClientHolds' /\ ClientWaited'
    BY ZenonT(40), <1>5 DEF Store
  <2>4. QED
    BY <2>1, <2>2, <2>3
<1>6. QED
  BY <1>1, <1>2, <1>3, <1>4, <1>5 DEF Connect

\* TCPClient.Close.
LEMMA ClientCloseInv ==
  ASSUME IInv, SetCloseFlag \/ CloseGoesOn
  PROVE  SocketsOK' /\ ClientInv'
<1> USE DEF IInv, ClientInv, SocketsOK, ClientOK, C!ServeOK, ClientCounts, ClientHolds,
            ClientWaited, cserve, cclose, sockets
<1>1. CASE SetCloseFlag
  BY <1>1 DEF SetCloseFlag
<1>2. CASE RangeBegin
  BY <1>2 DEF RangeBegin
<1>3. ASSUME NEW d \in Dialers, RangeClose(d)
      PROVE  SocketsOK' /\ ClientInv'
  BY <1>3 DEF RangeClose
<1>4. CASE RangeEnd
  BY <1>4 DEF RangeEnd
<1>5. CASE WaitEnd
  BY <1>5 DEF WaitEnd
<1>6. QED
  BY <1>1, <1>2, <1>3, <1>4, <1>5 DEF CloseGoesOn

LEMMA ClientNextInv ==
  ASSUME IInv, ClientNext, UNCHANGED server
  PROVE  IInv'
<1> DEFINE OnlyBacklog ==
      /\ UNCHANGED listening
      /\ \A d \in Dialers : dialer'[d] = "dial" => dialer[d] = "dial"
      /\ \A d \in Dialers : serverEnd'[d] # serverEnd[d] =>
           /\ listening /\ dialer[d] = "dial" /\ dialer'[d] # "dial"
           /\ serverEnd'[d] = "backlog"
<1>1. SocketsOK' /\ ClientInv'
  BY ClientServeInv, ConnectInv, ClientCloseInv DEF ClientNext, ClientGoesOn
<1>2. OnlyBacklog
  <2> USE DEF IInv, ClientInv, SocketsOK, ClientOK, sockets
  <2>1. ASSUME NEW d \in Dialers, ClientServe(d) \/ ClientConsole(d) \/ ClientQuit(d)
        PROVE  UNCHANGED <<dialer, listening, serverEnd>>
    BY <2>1 DEF ClientServe, ClientConsole, ClientQuit, Asks, Answer, ServeOnly, ConsoleOnly
  <2>2. ASSUME SetCloseFlag \/ CloseGoesOn
        PROVE  UNCHANGED <<dialer, listening, serverEnd>>
    BY <2>2 DEF CloseGoesOn, SetCloseFlag, RangeBegin, RangeClose, RangeEnd, WaitEnd
  <2>3. ASSUME NEW d \in Dialers, Connect(d) \/ DialNoAddr(d)
        PROVE  OnlyBacklog
    BY <2>3 DEF Connect, DialNoAddr, Connected, DialErrorClosed, CheckOpen, CheckClosed,
       Store, DialerAt, DialerDone
  <2>4. QED
    BY <2>1, <2>2, <2>3 DEF ClientNext, ClientGoesOn
<1>3. QED
  BY <1>1, <1>2, ClientFrame DEF IInv

-----------------------------------------------------------------------------
\* The goroutine and the loops of a connection of the server.
LEMMA ServerServeInv ==
  ASSUME IInv, NEW d \in Dialers, ServerServe(d) \/ ServerQuit(d), UNCHANGED dialer
  PROVE  SocketsOK' /\ ServerInv'
<1> USE DEF IInv, ServerInv, SocketsOK, ServerOK, S!ServeOK, ServerCounts, ServerHolds,
            ListenerHolds, ServerWaited, Missed, saccept, sclose, S!Loops, S!ConnEnd
<1>0. UNCHANGED <<saccept, sclose, listening, clientEnd>>
  BY DEF ServerServe, ServerQuit
<1>1. CASE S!OnConnect(d)
  <2>1. SocketsOK' /\ ServerOK'
    BY <1>0, <1>1 DEF S!OnConnect
  <2>2. ServerCounts'
    <3>1. ASSUME NEW e \in Dialers
          PROVE  /\ <<"dial", e>> \notin swg'
                 /\ <<"conn", e>> \in swg' <=> <<"conn", e>> \in swg
                 /\ <<"io", e>> \in swg' <=> <<"io", e>> \in swg \/ e = d
      BY <1>1 DEF S!OnConnect
    <3>2. ASSUME NEW e \in Dialers
          PROVE  /\ sstage'[e] \in {"start", "serving", "closing"}
                      <=> sstage[e] \in {"start", "serving", "closing"}
                 /\ "io" \in sloops'[e] <=> "io" \in sloops[e] \/ e = d
      BY <1>1 DEF S!OnConnect
    <3>3. QED
      BY <3>1, <3>2
  <2>3. ServerHolds' /\ ListenerHolds' /\ ServerWaited'
    BY ZenonT(40), <1>0, <1>1 DEF S!OnConnect
  <2>4. QED
    BY <2>1, <2>2, <2>3
<1>2. CASE S!IOReturns(d)
  BY <1>0, <1>2 DEF S!IOReturns
<1>3. CASE S!IOEnd(d)
  BY <1>0, <1>3 DEF S!IOEnd
<1>4. CASE S!HandleReturns(d)
  BY <1>0, <1>4 DEF S!HandleReturns
<1>5. CASE S!Refuse(d)
  BY <1>0, <1>5 DEF S!Refuse
<1>6. QED
  BY <1>1, <1>2, <1>3, <1>4, <1>5 DEF ServerServe, ServerQuit, S!Serve, S!Quit,
     S!ReadNotices, S!HandleNotices

\* The listener and the accept loop.
LEMMA AcceptInv ==
  ASSUME IInv, Listen \/ Serving, UNCHANGED dialer
  PROVE  SocketsOK' /\ ServerInv'
<1> USE DEF IInv, ServerInv, SocketsOK, ServerOK, S!ServeOK, ServerCounts, ServerHolds,
            ListenerHolds, ServerWaited, Missed, AcceptAt, sserve, sclose, sockets
<1>1. CASE Listen \/ StoreListener \/ ServeBegin
  <2>1. CASE Listen
    BY <2>1 DEF Listen
  <2>2. CASE StoreListener
    BY <2>2 DEF StoreListener
  <2>3. CASE ServeBegin
    BY <2>3 DEF ServeBegin
  <2>4. QED
    BY <1>1, <2>1, <2>2, <2>3
<1>2. CASE AcceptClosed
  BY <1>2 DEF AcceptClosed
<1>3. ASSUME NEW d \in Dialers, Accept(d)
      PROVE  SocketsOK' /\ ServerInv'
  BY <1>3 DEF Accept
<1>4. ASSUME NEW d \in Dialers, StoreConn(d)
      PROVE  SocketsOK' /\ ServerInv'
  BY <1>4 DEF StoreConn
<1>5. QED
  BY <1>1, <1>2, <1>3, <1>4 DEF Serving

\* TCPServer.Close.
LEMMA ServerCloseInv ==
  ASSUME IInv, CloseListener \/ ServerCloseGoesOn, UNCHANGED dialer
  PROVE  SocketsOK' /\ ServerInv'
<1> USE DEF IInv, ServerInv, SocketsOK, ServerOK, S!ServeOK, ServerCounts, ServerHolds,
            ListenerHolds, ServerWaited, Missed, saccept, sserve, sockets
<1>1. CASE CloseListener
  <2>1. sowner' = "closing" /\ UNCHANGED <<svisited, saccept, sserve>>
    BY <1>1 DEF CloseListener
  <2>2. CASE UNCHANGED sockets
    BY <2>1, <2>2
  <2>3. CASE ClosePort /\ accept \notin {"off", "bound"}
    BY ZenonT(40), <2>1, <2>3 DEF ClosePort
  <2>4. QED
    BY <1>1, <2>2, <2>3 DEF CloseListener
<1>2. CASE WaitListener
  BY <1>2 DEF WaitListener, Counted
<1>3. ASSUME NEW d \in Dialers, RangeCloseConn(d)
      PROVE  SocketsOK' /\ ServerInv'
  <2>1. SocketsOK' /\ ServerOK' /\ ServerCounts' /\ ServerWaited'
    BY <1>3 DEF RangeCloseConn
  <2>2. serverEnd' = [serverEnd EXCEPT ![d] = "closed"]
          /\ UNCHANGED <<saccept, sserve, listening, clientEnd>>
    BY <1>3 DEF RangeCloseConn
  <2>3. ServerHolds'
    BY <2>2
  <2>4. ListenerHolds'
    BY <1>3, <2>2 DEF RangeCloseConn
  <2>5. QED
    BY <2>1, <2>3, <2>4
<1>4. CASE RangeConnsEnd
  BY <1>4 DEF RangeConnsEnd
<1>5. CASE WaitConns
  BY <1>5 DEF WaitConns
<1>6. QED
  BY <1>1, <1>2, <1>3, <1>4, <1>5 DEF ServerCloseGoesOn

LEMMA ServerNextInv ==
  ASSUME IInv, ServerNext, UNCHANGED client
  PROVE  IInv'
<1>1. UNCHANGED dialer
  BY DEF client
<1>2. SocketsOK' /\ ServerInv'
  BY <1>1, ServerServeInv, AcceptInv, ServerCloseInv DEF ServerNext, ServerGoesOn
<1>3. UNCHANGED clientEnd
  BY DEF ServerNext, ServerGoesOn, Listen, Serving, StoreListener, ServeBegin, AcceptClosed,
     Accept, StoreConn, CloseListener, ClosePort, ServerCloseGoesOn, WaitListener, RangeCloseConn, RangeConnsEnd,
     WaitConns, ServerServe, ServerQuit, sockets
<1>4. QED
  BY <1>2, <1>3, ServerFrame DEF IInv

-----------------------------------------------------------------------------
LEMMA IInvNext ==
  ASSUME IInv, [Next]_vars
  PROVE  IInv'
<1>1. CASE UNCHANGED vars
  BY <1>1 DEF vars, sockets, client, server, cserve, cclose, saccept, sserve, sclose, IInv,
     SocketsOK, ClientInv, ClientOK, C!ServeOK, ClientCounts, ClientHolds, ClientWaited,
     ServerInv, ServerOK, S!ServeOK, ServerCounts, ServerHolds, ListenerHolds, ServerWaited,
     Missed
<1>2. QED
  BY <1>1, ClientNextInv, ServerNextInv DEF Next

\* The invariant that the theorems below weaken.
THEOREM Inductive == Spec => []IInv
BY IInvInit, IInvNext, PTL DEF Spec

\* Every variable of the two endpoints keeps its type: no dialer, accept loop
\* or Close is ever at a place the code does not have, whoever closes first.
THEOREM TypeInvariant == Spec => []TypeOK
<1>1. IInv => TypeOK
  BY DEF IInv, ClientInv, ServerInv, TypeOK
<1>2. QED
  BY <1>1, Inductive, PTL

\* TCPClient.Close (tcp_client.go:96-109) returns only when no dialer and no
\* goroutine of a connection is left and no connection is open, however the
\* unsynchronised flag was read.
THEOREM ClientQuietness == Spec => []ClientQuiet
<1>1. IInv => ClientQuiet
  <2>1. SUFFICES ASSUME IInv, cowner = "closed", NEW d \in Dialers
                 PROVE  /\ dialer[d] = "done" /\ cstage[d] \in {"none", "ended"}
                        /\ cloops[d] = {} /\ clientEnd[d] # "open"
    BY DEF ClientQuiet
  <2>2. cwg = {}
    BY <2>1 DEF IInv, ClientInv, ClientWaited
  <2>3. dialer[d] = "done" /\ cstage[d] \in {"none", "ended"} /\ "io" \notin cloops[d]
    BY <2>1, <2>2 DEF IInv, ClientInv, ClientOK, C!ServeOK, ClientCounts
  <2>4. QED
    BY <2>1, <2>3 DEF IInv, ClientInv, ClientOK, C!ServeOK, C!Loops, ClientHolds
<1>2. QED
  BY <1>1, Inductive, PTL

\* TCPServer.Close (tcp_server.go:92-105), once Serve has stored the listener
\* (line 44), returns only when the loop has no connection in hand and can get
\* none, every goroutine of a connection has ended and no accepted connection
\* is open: the loop cannot store one behind the walk over conns, not even one
\* that was not counted yet (line 46) when Close waited.
THEOREM ServerQuietness == Spec => []ServerQuiet
<1>1. IInv => ServerQuiet
  <2>1. SUFFICES ASSUME IInv, sowner = "closed", ~Missed
                 PROVE  /\ ~listening /\ accept \in {"stored", "accept", "ended"}
                        /\ \A d \in Dialers :
                             /\ sstage[d] \in {"none", "ended"} /\ sloops[d] = {}
                             /\ serverEnd[d] \in {"none", "closed"}
    BY DEF ServerQuiet
  <2>2. /\ swg = {} /\ ~listening /\ accepted = {}
        /\ accept \in {"stored", "accept", "ended"}
    BY <2>1 DEF IInv, ServerInv, ServerWaited, ListenerHolds, ServerOK, Missed
  <2>3. ASSUME NEW d \in Dialers
        PROVE  sstage[d] \in {"none", "ended"} /\ "io" \notin sloops[d]
    BY <2>1, <2>2 DEF IInv, ServerInv, ServerOK, S!ServeOK, ServerCounts
  <2>4. QED
    BY <2>1, <2>2, <2>3 DEF IInv, SocketsOK, ServerInv, ServerOK, S!ServeOK, S!Loops,
       ServerHolds, ListenerHolds
<1>2. QED
  BY <1>1, Inductive, PTL

-----------------------------------------------------------------------------
(* Nobody waits in vain.                                                   *)

\* What the ends of a connection, its goroutines and the walks of the two
\* Closes know of each other.
Linked ==
  /\ closeFlag <=> cowner # "run"
  /\ listening => accept \in {"bound", "stored", "accept", "store"}
  /\ \A d \in Dialers : clientEnd[d] = "none" <=> serverEnd[d] = "none"

ClientLinked ==
  \A d \in Dialers :
    /\ d \in visited => clientEnd[d] = "closed"
    /\ d \in cconns => cstage[d] # "none"
    /\ cstage[d] \in {"serving", "closing"} => "handle" \in cloops[d]
    /\ dialer[d] \in {"check", "store"} \/ cstage[d] # "none" => clientEnd[d] # "none"

ServerLinked ==
  \A d \in Dialers :
    /\ d \in svisited => serverEnd[d] = "closed"
    /\ sstage[d] \in {"serving", "closing"} => "handle" \in sloops[d]
    /\ sstage[d] \in {"start", "serving", "closing"} => d \in sconns
    /\ sowner \in {"waiting", "closed"} /\ ~Missed => serverEnd[d] # "open"

LinkedInv == Linked /\ ClientLinked /\ ServerLinked

\* The guards of GoesOn: somebody can go on.  At the client what waits for
\* the user cannot.
CanServe(d, stage, loops, own, peer) ==
  \/ stage[d] = "serving" /\ (own[d] = "closed" \/ peer[d] = "closed")
  \/ "io" \in loops[d] /\ stage[d] \in {"closing", "ended"}
  \/ "handle" \in loops[d] /\ stage[d] = "closing"

ClientCanServe(d) ==
  IF d \in asking THEN "io" \in cloops[d] /\ cstage[d] \in {"closing", "ended"}
                  ELSE CanServe(d, cstage, cloops, clientEnd, serverEnd)

ServerCanServe(d) ==
  sstage[d] = "start" \/ CanServe(d, sstage, sloops, serverEnd, clientEnd)

ClientCan ==
  \/ \E d \in Dialers :
       \/ dialer[d] = "dial" /\ (listening \/ closeFlag)
       \/ dialer[d] \in {"check", "store"}
       \/ ClientCanServe(d)
  \/ cowner \in {"flagged", "ranging"}
  \/ cowner = "waiting" /\ cwg = {}

ServerCan ==
  \/ \E d \in Dialers :
       \/ accept = "accept" /\ listening /\ serverEnd[d] = "backlog"
       \/ accept = "store" /\ d \in accepted
       \/ ServerCanServe(d)
  \/ accept \in {"bound", "stored"} \/ (accept = "accept" /\ ~listening)
  \/ sowner = "closing" /\ ~Counted
  \/ sowner = "ranging"
  \/ sowner = "waiting" /\ swg = {}

LEMMA LinkedInit ==
  ASSUME Init
  PROVE  LinkedInv
BY DEF Init, SocketsInit, ClientInit, ServerInit, C!ServeInit, S!ServeInit, LinkedInv, Linked,
   ClientLinked, ServerLinked

LEMMA LinkedServe ==
  ASSUME IInv, LinkedInv, NEW d \in Dialers,
         \/ (ClientServe(d) \/ ClientConsole(d) \/ ClientQuit(d)) /\ UNCHANGED server
         \/ (ServerServe(d) \/ ServerQuit(d)) /\ UNCHANGED client
  PROVE  LinkedInv'
<1> USE DEF IInv, SocketsOK, LinkedInv, Linked, ClientLinked, ServerLinked, Missed, server,
            saccept, sserve, sclose, client, cserve, cclose
<1>1. CASE (ClientServe(d) \/ ClientConsole(d) \/ ClientQuit(d)) /\ UNCHANGED server
  <2> USE DEF ClientInv, ClientOK, C!ServeOK, ClientHolds, C!Loops, C!ConnEnd
  <2>1. UNCHANGED <<closeFlag, dialer, cclose, listening, serverEnd, server>>
    BY <1>1 DEF ClientServe, ClientConsole, ClientQuit, Asks, Answer, ServeOnly, ConsoleOnly,
       sockets
  <2>2. CASE C!OnConnect(d)
    BY <2>1, <2>2 DEF C!OnConnect
  <2>3. CASE C!IOReturns(d)
    BY <2>1, <2>3 DEF C!IOReturns
  <2>4. CASE C!IOEnd(d)
    BY <2>1, <2>4 DEF C!IOEnd
  <2>5. CASE C!HandleReturns(d)
    BY <2>1, <2>5 DEF C!HandleReturns
  <2>6. CASE C!Refuse(d)
    BY <2>1, <2>6 DEF C!Refuse
  <2>7. CASE Asks(d) \/ Answer(d)
    BY <2>1, <2>7 DEF Asks, Answer, ConsoleOnly, sockets
  <2>8. QED
    BY <1>1, <2>2, <2>3, <2>4, <2>5, <2>6, <2>7 DEF ClientServe, ClientConsole, ClientQuit,
       C!ReadNotices, C!HandleNotices
<1>2. CASE (ServerServe(d) \/ ServerQuit(d)) /\ UNCHANGED client
  <2> USE DEF ServerInv, ServerOK, S!ServeOK, ServerHolds, S!Loops, S!ConnEnd
  <2>1. UNCHANGED <<saccept, sclose, listening, clientEnd, client>>
    BY <1>2 DEF ServerServe, ServerQuit
  <2>2. CASE S!OnConnect(d)
    BY <2>1, <2>2 DEF S!OnConnect
  <2>3. CASE S!IOReturns(d)
    BY <2>1, <2>3 DEF S!IOReturns
  <2>4. CASE S!IOEnd(d)
    BY <2>1, <2>4 DEF S!IOEnd
  <2>5. CASE S!HandleReturns(d)
    BY <2>1, <2>5 DEF S!HandleReturns
  <2>6. CASE S!Refuse(d)
    BY <2>1, <2>6 DEF S!Refuse
  <2>7. QED
    BY <1>2, <2>2, <2>3, <2>4, <2>5, <2>6 DEF ServerServe, ServerQuit, S!Serve, S!Quit,
       S!ReadNotices, S!HandleNotices
<1>3. QED
  BY <1>1, <1>2

LEMMA LinkedConnect ==
  ASSUME IInv, LinkedInv, NEW d \in Dialers, Connect(d) \/ DialNoAddr(d), UNCHANGED server
  PROVE  LinkedInv'
<1> USE DEF IInv, SocketsOK, ClientInv, ClientOK, C!ServeOK, ClientHolds, ServerInv,
            ListenerHolds, LinkedInv, Linked, ClientLinked, ServerLinked, Missed, cserve, cclose,
            sockets, server, saccept, sserve, sclose, DialerAt, DialerDone
<1>1. CASE Connected(d)
  BY <1>1 DEF Connected
<1>2. CASE DialErrorClosed(d) \/ DialNoAddr(d)
  BY <1>2 DEF DialErrorClosed, DialNoAddr
<1>3. CASE CheckOpen(d)
  BY <1>3 DEF CheckOpen
<1>4. CASE CheckClosed(d)
  BY <1>4 DEF CheckClosed
<1>5. CASE Store(d)
  BY <1>5 DEF Store
<1>6. QED
  BY <1>1, <1>2, <1>3, <1>4, <1>5 DEF Connect

LEMMA LinkedClose ==
  ASSUME IInv, LinkedInv, SetCloseFlag \/ CloseGoesOn, UNCHANGED server
  PROVE  LinkedInv'
<1> USE DEF IInv, SocketsOK, ClientInv, ClientOK, C!ServeOK, ClientHolds, LinkedInv, Linked,
            ClientLinked, ServerLinked, Missed, cserve, cclose, sockets, server, saccept, sserve,
            sclose
<1>1. CASE SetCloseFlag
  BY <1>1 DEF SetCloseFlag
<1>2. CASE RangeBegin
  BY <1>2 DEF RangeBegin
<1>3. ASSUME NEW d \in Dialers, RangeClose(d)
      PROVE  LinkedInv'
  BY <1>3 DEF RangeClose
<1>4. CASE RangeEnd
  BY <1>4 DEF RangeEnd
<1>5. CASE WaitEnd
  BY <1>5 DEF WaitEnd
<1>6. QED
  BY <1>1, <1>2, <1>3, <1>4, <1>5 DEF CloseGoesOn

LEMMA LinkedAccept ==
  ASSUME IInv, LinkedInv, Listen \/ Serving, UNCHANGED client
  PROVE  LinkedInv'
<1> USE DEF IInv, SocketsOK, ServerInv, ServerOK, S!ServeOK, ServerHolds, ListenerHolds,
            ServerWaited, LinkedInv, Linked, ClientLinked, ServerLinked, Missed, AcceptAt, sserve,
            sclose, sockets, client, cserve, cclose
<1>1. CASE Listen \/ StoreListener \/ ServeBegin
  BY <1>1 DEF Listen, StoreListener, ServeBegin
<1>2. CASE AcceptClosed
  BY <1>2 DEF AcceptClosed
<1>3. ASSUME NEW d \in Dialers, Accept(d)
      PROVE  LinkedInv'
  BY <1>3 DEF Accept
<1>4. ASSUME NEW d \in Dialers, StoreConn(d)
      PROVE  LinkedInv'
  BY <1>4 DEF StoreConn
<1>5. QED
  BY <1>1, <1>2, <1>3, <1>4 DEF Serving

LEMMA LinkedServerClose ==
  ASSUME IInv, LinkedInv, CloseListener \/ ServerCloseGoesOn, UNCHANGED client
  PROVE  LinkedInv'
<1> USE DEF IInv, SocketsOK, ServerInv, ServerOK, S!ServeOK, ServerHolds, ListenerHolds,
            ServerWaited, LinkedInv, Linked, ClientLinked, ServerLinked, Missed, saccept, sserve,
            sockets, client, cserve, cclose
<1>1. CASE CloseListener
  BY <1>1 DEF CloseListener, ClosePort
<1>2. CASE WaitListener
  BY <1>2 DEF WaitListener
<1>3. ASSUME NEW d \in Dialers, RangeCloseConn(d)
      PROVE  LinkedInv'
  BY <1>3 DEF RangeCloseConn
<1>4. CASE RangeConnsEnd
  BY <1>4 DEF RangeConnsEnd
<1>5. CASE WaitConns
  BY <1>5 DEF WaitConns
<1>6. QED
  BY <1>1, <1>2, <1>3, <1>4, <1>5 DEF ServerCloseGoesOn

LEMMA LinkedNext ==
  ASSUME IInv, LinkedInv, [Next]_vars
  PROVE  LinkedInv'
<1>1. CASE UNCHANGED vars
  BY <1>1 DEF vars, sockets, client, server, cserve, cclose, saccept, sserve, sclose,
     LinkedInv, Linked, ClientLinked, ServerLinked, Missed
<1>2. CASE ClientNext /\ UNCHANGED server
  BY <1>2, LinkedServe, LinkedConnect, LinkedClose DEF ClientNext, ClientGoesOn
<1>3. CASE ServerNext /\ UNCHANGED client
  BY <1>3, LinkedServe, LinkedAccept, LinkedServerClose DEF ServerNext, ServerGoesOn
<1>4. QED
  BY <1>1, <1>2, <1>3 DEF Next

THEOREM LinkedAlways == Spec => [](IInv /\ LinkedInv)
<1>1. IInv /\ LinkedInv /\ [Next]_vars => (IInv /\ LinkedInv)'
  BY IInvNext, LinkedNext
<1>2. Init => IInv /\ LinkedInv
  BY IInvInit, LinkedInit
<1>3. QED
  BY <1>1, <1>2, PTL DEF Spec

\* A connection whose goroutines have nothing to do is served, with both ends
\* open, or over, or was never there; at the client it may wait for the user.
LEMMA ServeOver ==
  ASSUME IInv, LinkedInv, NEW d \in Dialers
  PROVE  /\ ~ClientCanServe(d) =>
              \/ cstage[d] = "start" \/ d \in asking
              \/ cstage[d] \in {"none", "ended"} /\ cloops[d] = {}
              \/ cstage[d] = "serving" /\ clientEnd[d] = "open" /\ serverEnd[d] # "closed"
         /\ ~ServerCanServe(d) =>
              \/ sstage[d] \in {"none", "ended"} /\ sloops[d] = {}
              \/ sstage[d] = "serving" /\ serverEnd[d] = "open" /\ clientEnd[d] # "closed"
<1>1. /\ cstage[d] \in {"none", "start", "serving", "closing", "ended"}
      /\ sstage[d] \in {"none", "start", "serving", "closing", "ended"}
      /\ cloops[d] \subseteq {"io", "handle"} /\ sloops[d] \subseteq {"io", "handle"}
      /\ clientEnd[d] \in {"none", "open", "closed"}
      /\ serverEnd[d] \in {"none", "backlog", "open", "closed"}
  BY DEF IInv, SocketsOK, ClientInv, ClientOK, C!ServeOK, C!Loops, ServerInv, ServerOK,
     S!ServeOK, S!Loops
<1>2. /\ cstage[d] \in {"none", "start"} => cloops[d] = {}
      /\ "handle" \in cloops[d] => cstage[d] \in {"serving", "closing"}
      /\ cstage[d] \in {"serving", "closing"} => "handle" \in cloops[d] /\ clientEnd[d] # "none"
  BY DEF IInv, ClientInv, ClientHolds, LinkedInv, ClientLinked
<1>3. /\ sstage[d] \in {"none", "start"} => sloops[d] = {}
      /\ "handle" \in sloops[d] => sstage[d] \in {"serving", "closing"}
      /\ sstage[d] \in {"serving", "closing"} =>
           "handle" \in sloops[d] /\ serverEnd[d] \in {"open", "closed"}
  BY DEF IInv, ServerInv, ServerHolds, LinkedInv, ServerLinked
<1>4. QED
  BY <1>1, <1>2, <1>3 DEF CanServe, ClientCanServe, ServerCanServe

\* Whoever Close of the client waits for can go on, unless the walk has
\* overlooked a connection or the user owes a line (tcp_client.go:71, 75 and
\* 96-109, client.go:29).
LEMMA ClientStuck ==
  ASSUME IInv, LinkedInv, ~ClientCan
  PROVE  ClientReturned /\ Dialled
<1>1. \A d \in Dialers : dialer[d] \in {"dial", "check", "store", "done"}
  BY DEF IInv, ClientInv, ClientOK
<1>2. Dialled
  BY <1>1 DEF ClientCan, Dialled
<1>3. SUFFICES ASSUME closeFlag, cowner # "closed", ~Prompted
               PROVE  Overlooked
  BY <1>2 DEF ClientReturned
<1>4. cowner = "waiting" /\ cwg # {}
  BY <1>3 DEF IInv, ClientInv, ClientOK, LinkedInv, Linked, ClientCan
<1>5. PICK k \in {"dial", "conn", "io"}, d \in Dialers : <<k, d>> \in cwg
  <2>1. cwg \subseteq {"dial", "conn", "io"} \X Dialers
    BY DEF IInv, ClientInv, ClientOK, C!ServeOK
  <2>2. PICK x \in {"dial", "conn", "io"} \X Dialers : x \in cwg
    BY <1>4, <2>1
  <2>3. QED
    BY <2>2
<1>6. dialer[d] = "done"
  BY <1>2, <1>3 DEF Dialled
<1>7. cstage[d] \in {"start", "serving", "closing"} \/ "io" \in cloops[d]
  BY <1>5, <1>6 DEF IInv, ClientInv, ClientCounts
<1>8. ~ClientCanServe(d) /\ cstage[d] # "start" /\ d \notin asking
  BY <1>3 DEF ClientCan, Prompted
<1>9. cstage[d] = "serving" /\ clientEnd[d] = "open" /\ serverEnd[d] # "closed"
  BY <1>7, <1>8, ServeOver
<1>10. d \notin visited
  BY <1>9 DEF LinkedInv, ClientLinked
<1>11. QED
  BY <1>9, <1>10 DEF Overlooked

\* Whoever Close of the server waits for can go on, if Close has found the
\* listener (tcp_server.go:92-105).
LEMMA ServerStuck ==
  ASSUME IInv, LinkedInv, ~ServerCan
  PROVE  ServerReturned
<1>1. SUFFICES ASSUME sowner # "run", sowner # "closed", ~Missed
               PROVE  FALSE
  BY DEF ServerReturned
<1>2. /\ ~listening /\ (accepted # {} <=> accept = "store")
      /\ accept \in {"stored", "accept", "store", "ended"}
  BY <1>1 DEF IInv, ServerInv, ServerOK, ListenerHolds, Missed
<1>3. accept = "ended"
  BY <1>2 DEF ServerCan, IInv, ServerInv, ServerOK
<1>4. sowner = "waiting" /\ swg # {}
  BY <1>1, <1>3 DEF IInv, ServerInv, ServerOK, ServerCan, Counted
<1>5. PICK k \in {"dial", "conn", "io"}, d \in Dialers : <<k, d>> \in swg
  <2>1. swg \subseteq {"dial", "conn", "io"} \X Dialers
    BY DEF IInv, ServerInv, ServerOK, S!ServeOK
  <2>2. PICK x \in {"dial", "conn", "io"} \X Dialers : x \in swg
    BY <1>4, <2>1
  <2>3. QED
    BY <2>2
<1>6. sstage[d] \in {"start", "serving", "closing"} \/ "io" \in sloops[d]
  BY <1>5 DEF IInv, ServerInv, ServerCounts
<1>7. ~ServerCanServe(d)
  BY DEF ServerCan
<1>8. serverEnd[d] = "open"
  BY <1>6, <1>7, ServeOver
<1>9. QED
  BY <1>1, <1>4, <1>8 DEF LinkedInv, ServerLinked

\* The server's side of a connection whose client has gone can go on until it
\* is over (tcp_conn.go:130-140, tcp_server.go:60-83).
LEMMA GoneStuck ==
  ASSUME IInv, LinkedInv, ~ServerCan
  PROVE  Dropped
<1>1. SUFFICES ASSUME NEW d \in Dialers, clientEnd[d] = "closed"
               PROVE  serverEnd[d] = "closed" /\ sstage[d] \in {"none", "ended"} /\ sloops[d] = {}
  BY DEF Dropped
<1>2. ~ServerCanServe(d)
  BY DEF ServerCan
<1>3. sstage[d] \in {"none", "ended"} /\ sloops[d] = {}
  BY <1>1, <1>2, ServeOver
<1>4. serverEnd[d] \in {"backlog", "open", "closed"}
  BY <1>1 DEF IInv, SocketsOK, LinkedInv, Linked
<1>5. CASE serverEnd[d] = "backlog"
  <2>1. listening /\ accept \in {"bound", "stored", "accept", "store"}
    BY <1>5 DEF IInv, ServerInv, ListenerHolds, LinkedInv, Linked
  <2>2. accept = "store" => \E e \in Dialers : e \in accepted
    BY DEF IInv, ServerInv, ServerOK
  <2>3. QED
    BY <1>5, <2>1, <2>2 DEF ServerCan
<1>6. CASE serverEnd[d] = "open"
  <2>1. d \in accepted
    BY <1>3, <1>6 DEF IInv, ServerInv, ServerHolds
  <2>2. accept = "store"
    BY <2>1 DEF IInv, ServerInv, ServerOK
  <2>3. QED
    BY <2>1, <2>2 DEF ServerCan
<1>7. QED
  BY <1>3, <1>4, <1>5, <1>6

\* When no goroutine of either end can go on, both Closes that were called
\* have returned (but for an overlooked connection, a user who owes a line, a
\* listener that was not stored yet), no dialer is left that should not be,
\* and nothing is left of a connection whose client has gone: no two
\* goroutines wait for each other, in whatever order the ends close.
THEOREM NobodyStuck ==
  Spec => [](~ClientCan /\ ~ServerCan => ClientReturned /\ ServerReturned /\ Dialled /\ Dropped)
<1>1. IInv /\ LinkedInv =>
        (~ClientCan /\ ~ServerCan => ClientReturned /\ ServerReturned /\ Dialled /\ Dropped)
  BY ClientStuck, ServerStuck, GoneStuck
<1>2. QED
  BY <1>1, LinkedAlways, PTL

-----------------------------------------------------------------------------
(* No step goes back.  The places that dialers, goroutines, sockets, the   *)
(* accept loop and Closes go through have an order, the same for all of    *)
(* them.  Only questions to the user and answers come and go.              *)

Age(place) ==
  CASE place \in {"none", "run", "dial", "off"} -> 0
    [] place \in {"start", "backlog", "check", "flagged", "bound"} -> 1
    [] place \in {"serving", "open", "stored"} -> 2
    [] place \in {"closing", "store", "accept"} -> 3
    [] place \in {"ended", "ranging", "done"} -> 4
    [] place = "waiting" -> 5
    [] OTHER -> 6

Started(stage) == stage \notin {"none", "start"}

NeverBack ==
  /\ \A d \in Dialers :
       /\ Age(dialer[d]) <= Age(dialer'[d])
       /\ Age(clientEnd[d]) <= Age(clientEnd'[d]) /\ Age(serverEnd[d]) <= Age(serverEnd'[d])
       /\ Age(cstage[d]) <= Age(cstage'[d]) /\ Age(sstage[d]) <= Age(sstage'[d])
       /\ Started(cstage[d]) => cloops'[d] \subseteq cloops[d]
       /\ Started(sstage[d]) => sloops'[d] \subseteq sloops[d]
  /\ Age(cowner) <= Age(cowner') /\ visited \subseteq visited'
  /\ Age(sowner) <= Age(sowner') /\ (sowner' = sowner => svisited \subseteq svisited')
  /\ Age(accept) <= Age(accept')

Moves ==
  \/ \E d \in Dialers :
       \/ dialer'[d] # dialer[d] \/ clientEnd'[d] # clientEnd[d] \/ serverEnd'[d] # serverEnd[d]
       \/ cstage'[d] # cstage[d] \/ sstage'[d] # sstage[d]
       \/ Started(cstage[d]) /\ cloops'[d] # cloops[d]
       \/ Started(sstage[d]) /\ sloops'[d] # sloops[d]
  \/ cowner' # cowner \/ visited' # visited \/ sowner' # sowner \/ svisited' # svisited
  \/ Age(accept') # Age(accept)

Talks == \E d \in Dialers : Asks(d) \/ Answer(d)

Onward == [][NeverBack /\ (Moves \/ Talks)]_vars

LEMMA AgeNat ==
  /\ \A place : Age(place) \in 0 .. 6
  /\ \A place : Age(place) <= Age(place)
BY DEF Age

LEMMA OnwardServe ==
  ASSUME IInv, NEW d \in Dialers,
         \/ (ClientServe(d) \/ ClientConsole(d) \/ ClientQuit(d)) /\ UNCHANGED server
         \/ (ServerServe(d) \/ ServerQuit(d)) /\ UNCHANGED client
  PROVE  NeverBack /\ (Moves \/ Talks)
<1> USE DEF IInv, SocketsOK, NeverBack, Moves, Started, server, saccept,
            sserve, sclose, client, cserve, cclose
<1>1. CASE (ClientServe(d) \/ ClientConsole(d) \/ ClientQuit(d)) /\ UNCHANGED server
  <2> USE DEF ClientInv, ClientOK, C!ServeOK, ClientHolds, C!Loops, C!ConnEnd
  <2>1. UNCHANGED <<closeFlag, dialer, cclose, listening, serverEnd, server>>
    BY <1>1 DEF ClientServe, ClientConsole, ClientQuit, Asks, Answer, ServeOnly, ConsoleOnly,
       sockets
  <2>2. CASE C!OnConnect(d)
    BY <2>1, <2>2, AgeNat DEF C!OnConnect, Age
  <2>3. CASE C!IOReturns(d)
    BY <2>1, <2>3, AgeNat DEF C!IOReturns, Age
  <2>4. CASE C!IOEnd(d)
    BY <2>1, <2>4, AgeNat DEF C!IOEnd
  <2>5. CASE C!HandleReturns(d)
    BY <2>1, <2>5, AgeNat DEF C!HandleReturns, Age
  <2>6. CASE C!Refuse(d)
    BY <2>1, <2>6, AgeNat DEF C!Refuse, Age
  <2>7. CASE Asks(d) \/ Answer(d)
    <3>1. UNCHANGED <<dialer, cserve, cclose, sockets, server>>
      BY <2>1, <2>7 DEF Asks, Answer, ConsoleOnly
    <3>2. NeverBack
      BY <3>1, AgeNat DEF sockets
    <3>3. QED
      BY <2>7, <3>2 DEF Talks
  <2>8. QED
    BY <1>1, <2>2, <2>3, <2>4, <2>5, <2>6, <2>7 DEF ClientServe, ClientConsole, ClientQuit,
       C!ReadNotices, C!HandleNotices
<1>2. CASE (ServerServe(d) \/ ServerQuit(d)) /\ UNCHANGED client
  <2> USE DEF ServerInv, ServerOK, S!ServeOK, ServerHolds, S!Loops, S!ConnEnd
  <2>1. UNCHANGED <<saccept, sclose, listening, clientEnd, client>>
    BY <1>2 DEF ServerServe, ServerQuit
  <2>2. CASE S!OnConnect(d)
    BY <2>1, <2>2, AgeNat DEF S!OnConnect, Age
  <2>3. CASE S!IOReturns(d)
    BY <2>1, <2>3, AgeNat DEF S!IOReturns, Age
  <2>4. CASE S!IOEnd(d)
    BY <2>1, <2>4, AgeNat DEF S!IOEnd
  <2>5. CASE S!HandleReturns(d)
    BY <2>1, <2>5, AgeNat DEF S!HandleReturns, Age
  <2>6. CASE S!Refuse(d)
    BY <2>1, <2>6, AgeNat DEF S!Refuse, Age
  <2>7. QED
    BY <1>2, <2>2, <2>3, <2>4, <2>5, <2>6 DEF ServerServe, ServerQuit, S!Serve, S!Quit,
       S!ReadNotices, S!HandleNotices
<1>3. QED
  BY <1>1, <1>2

LEMMA OnwardClient ==
  ASSUME IInv, LinkedInv, UNCHANGED server,
         \/ \E d \in Dialers : Connect(d) \/ DialNoAddr(d)
         \/ SetCloseFlag \/ CloseGoesOn
  PROVE  NeverBack /\ Moves
<1> USE AgeNat DEF IInv, SocketsOK, NeverBack, Moves, Started, ClientInv, ClientOK, C!ServeOK,
            ClientHolds, server, saccept, sserve, sclose, cserve, cclose, sockets, DialerAt,
            DialerDone
<1>1. ASSUME NEW d \in Dialers, Connected(d)
      PROVE  NeverBack /\ Moves
  <2>1. clientEnd[d] = "none" /\ serverEnd[d] = "none"
    BY <1>1 DEF Connected, ServerInv, ListenerHolds, LinkedInv, Linked
  <2>2. QED
    BY <1>1, <2>1 DEF Connected, Age
<1>2. ASSUME NEW d \in Dialers, DialErrorClosed(d) \/ DialNoAddr(d)
      PROVE  NeverBack /\ Moves
  BY <1>2 DEF DialErrorClosed, DialNoAddr, Age
<1>3. ASSUME NEW d \in Dialers, CheckOpen(d)
      PROVE  NeverBack /\ Moves
  BY <1>3 DEF CheckOpen, Age
<1>4. ASSUME NEW d \in Dialers, CheckClosed(d)
      PROVE  NeverBack /\ Moves
  BY <1>4 DEF CheckClosed, Age
<1>5. ASSUME NEW d \in Dialers, Store(d)
      PROVE  NeverBack /\ Moves
  BY <1>5 DEF Store, Age
<1>6. CASE SetCloseFlag
  BY <1>6 DEF SetCloseFlag, Age
<1>7. CASE RangeBegin
  BY <1>7 DEF RangeBegin, Age
<1>8. ASSUME NEW d \in Dialers, RangeClose(d)
      PROVE  NeverBack /\ Moves
  BY <1>8 DEF RangeClose, Age
<1>9. CASE RangeEnd
  BY <1>9 DEF RangeEnd, Age
<1>10. CASE WaitEnd
  BY <1>10 DEF WaitEnd, Age
<1>11. QED
  BY <1>1, <1>2, <1>3, <1>4, <1>5, <1>6, <1>7, <1>8, <1>9, <1>10 DEF Connect, CloseGoesOn

LEMMA OnwardServer ==
  ASSUME IInv, UNCHANGED client, Listen \/ Serving \/ CloseListener \/ ServerCloseGoesOn
  PROVE  NeverBack /\ Moves
<1> USE AgeNat DEF IInv, SocketsOK, NeverBack, Moves, Started, ServerInv, ServerOK, S!ServeOK,
            ServerHolds, AcceptAt, client, cserve, cclose, saccept, sserve, sclose, sockets
<1>1. CASE Listen \/ StoreListener \/ ServeBegin
  BY <1>1 DEF Listen, StoreListener, ServeBegin, Age
<1>2. CASE AcceptClosed
  BY <1>2 DEF AcceptClosed, Age
<1>3. ASSUME NEW d \in Dialers, Accept(d)
      PROVE  NeverBack /\ Moves
  BY <1>3 DEF Accept, Age
<1>4. ASSUME NEW d \in Dialers, StoreConn(d)
      PROVE  NeverBack /\ Moves
  BY <1>4 DEF StoreConn, Age
<1>5. CASE CloseListener
  BY <1>5 DEF CloseListener, ClosePort, Age
<1>6. CASE WaitListener
  BY <1>6 DEF WaitListener, Age
<1>7. ASSUME NEW d \in Dialers, RangeCloseConn(d)
      PROVE  NeverBack /\ Moves
  BY <1>7 DEF RangeCloseConn, Age
<1>8. CASE RangeConnsEnd
  BY <1>8 DEF RangeConnsEnd, Age
<1>9. CASE WaitConns
  BY <1>9 DEF WaitConns, Age
<1>10. QED
  BY <1>1, <1>2, <1>3, <1>4, <1>5, <1>6, <1>7, <1>8, <1>9 DEF Serving, ServerCloseGoesOn

\* Every step but a question to the user or an answer moves something on, and
\* none moves anything back, so with finitely many dialers a behaviour has
\* finitely many other steps: nothing goes round in a circle between the two
\* ends, and NobodyStuck says where it may come to rest.
THEOREM OnwardAlways == Spec => Onward
<1>1. IInv /\ LinkedInv /\ [Next]_vars => [NeverBack /\ (Moves \/ Talks)]_vars
  BY OnwardServe, OnwardClient, OnwardServer DEF Next, ClientNext, ClientGoesOn, ServerNext,
     ServerGoesOn
<1>2. QED
  BY <1>1, LinkedAlways, PTL DEF Spec, Onward

==============================================================================
