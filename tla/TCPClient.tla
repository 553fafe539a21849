------------------------------ MODULE TCPClient ------------------------------
(***************************************************************************)
(* pkg/tcp/tcp_client.go: dialers that retry, the connections they make,   *)
(* and Close, which sets an unsynchronised flag, closes the connections    *)
(* it finds and waits for every goroutine.  Those of a connection wait for *)
(* the console as well: OnConnect asks for a nickname, and handlers ask    *)
(* for a room or another name (internal/handler/client.go).                *)
(***************************************************************************)
EXTENDS Sockets

VARIABLES
  closeFlag,
  dialer,       \* connect: "dial", "check", "store", "done"
  cconns, cwg, cstage, cloops,
  asking,       \* connections whose handler waits for a line of the console
  cowner,       \* Close: "run", "flagged", "ranging", "waiting", "closed"
  inRange,      \* connections stored when Range began
  visited       \* connections that Range has closed

cserve == <<cconns, cwg, cstage, cloops>>
cclose == <<cowner, inRange, visited>>
client == <<closeFlag, dialer, cserve, asking, cclose>>

C == INSTANCE ConnServe
     WITH conns <- cconns, wg <- cwg, stage <- cstage, loops <- cloops,
          own <- clientEnd, peer <- serverEnd

ClientOK ==
  /\ closeFlag \in BOOLEAN
  /\ dialer \in [Dialers -> {"dial", "check", "store", "done"}]
  /\ C!ServeOK /\ asking \subseteq Dialers
  /\ cowner \in {"run", "flagged", "ranging", "waiting", "closed"}
  /\ inRange \subseteq Dialers /\ visited \subseteq Dialers

\* Start.
ClientInit ==
  /\ closeFlag = FALSE /\ dialer = [d \in Dialers |-> "dial"]
  /\ C!ServeInit /\ cwg = {"dial"} \X Dialers /\ asking = {}
  /\ cowner = "run" /\ inRange = {} /\ visited = {}

-----------------------------------------------------------------------------
(* connect.                                                                *)

DialerAt(d, from, to) == dialer[d] = from /\ dialer' = [dialer EXCEPT ![d] = to]

\* DialTCP: the kernel of the server answers, before Accept returns it.
Connected(d) ==
  /\ listening /\ DialerAt(d, "dial", "check")
  /\ clientEnd' = [clientEnd EXCEPT ![d] = "open"]
  /\ serverEnd' = [serverEnd EXCEPT ![d] = "backlog"]
  /\ UNCHANGED <<listening, closeFlag, cserve, asking, cclose>>

\* The dialer returns without a connection.
DialerDone(d) ==
  /\ dialer' = [dialer EXCEPT ![d] = "done"]
  /\ cwg' = cwg \ {<<"dial", d>>}
  /\ UNCHANGED <<closeFlag, cconns, cstage, cloops, asking, cclose>>

\* Slip: dial looks at err alone.
DialErrorLoops(d) ==
  /\ dialer[d] = "dial" /\ ~listening /\ closeFlag
  /\ UNCHANGED <<sockets, client>>

\* An error makes dial sleep and try again, until closeFlag is set.
DialErrorClosed(d) ==
  /\ dialer[d] = "dial" /\ ~listening /\ closeFlag
  /\ DialerDone(d) /\ UNCHANGED sockets

\* ResolveTCPAddr gives an error.
DialNoAddr(d) ==
  /\ dialer[d] = "dial"
  /\ DialerDone(d) /\ UNCHANGED sockets

\* closeFlag is read (line 71) ...
CheckOpen(d) ==
  /\ ~closeFlag /\ DialerAt(d, "check", "store")
  /\ UNCHANGED <<closeFlag, cserve, asking, cclose, sockets>>

\* Slip: the connection is dropped and not closed.
CheckClosedLeaks(d) ==
  /\ dialer[d] = "check" /\ closeFlag
  /\ DialerDone(d) /\ UNCHANGED sockets

CheckClosed(d) ==
  /\ dialer[d] = "check" /\ closeFlag
  /\ DialerDone(d)
  /\ clientEnd' = [clientEnd EXCEPT ![d] = "closed"]
  /\ UNCHANGED <<listening, serverEnd>>

\* ... and the connection is stored later (line 75).  wg.Add(1) comes
\* before the goroutine starts, and connect returns.
Store(d) ==
  /\ DialerAt(d, "store", "done")
  /\ cconns' = cconns \cup {d}
  /\ cwg' = (cwg \ {<<"dial", d>>}) \cup {<<"conn", d>>}
  /\ cstage' = [cstage EXCEPT ![d] = "start"]
  /\ UNCHANGED <<closeFlag, cloops, asking, cclose, sockets>>

Connect(d) ==
  \/ Connected(d) \/ DialErrorClosed(d) \/ CheckOpen(d) \/ CheckClosed(d) \/ Store(d)

-----------------------------------------------------------------------------
(* Close.                                                                  *)

SetCloseFlag ==
  /\ cowner = "run" /\ cowner' = "flagged"
  /\ closeFlag' = TRUE
  /\ UNCHANGED <<dialer, cserve, asking, inRange, visited, sockets>>

RangeBegin ==
  /\ cowner = "flagged" /\ cowner' = "ranging"
  /\ inRange' = cconns
  /\ UNCHANGED <<closeFlag, dialer, cserve, asking, visited, sockets>>

\* Slip: Range visits and does not close.
RangeCloseNot(d) ==
  /\ cowner = "ranging" /\ d \in cconns \ visited
  /\ visited' = visited \cup {d}
  /\ UNCHANGED <<closeFlag, dialer, cserve, asking, cowner, inRange, sockets>>

\* sync.Map.Range visits a connection that is stored meanwhile, or not.
RangeClose(d) ==
  /\ cowner = "ranging" /\ d \in cconns \ visited
  /\ visited' = visited \cup {d}
  /\ clientEnd' = [clientEnd EXCEPT ![d] = "closed"]
  /\ UNCHANGED <<closeFlag, dialer, cserve, asking, cowner, inRange, listening, serverEnd>>

RangeEnd ==
  /\ cowner = "ranging" /\ inRange \cap cconns \subseteq visited
  /\ cowner' = "waiting" /\ inRange' = {}
  /\ UNCHANGED <<closeFlag, dialer, cserve, asking, visited, sockets>>

WaitEnd ==
  /\ cowner = "waiting" /\ cwg = {}
  /\ cowner' = "closed"
  /\ UNCHANGED <<closeFlag, dialer, cserve, asking, inRange, visited, sockets>>

CloseGoesOn == RangeBegin \/ (\E d \in Dialers : RangeClose(d)) \/ RangeEnd \/ WaitEnd

-----------------------------------------------------------------------------
(* The goroutine of a connection.  While its handler asks, nobody takes    *)
(* from packetRecvChan, which holds nothing (NewTCPOption's default), so   *)
(* readLoop may be kept from the socket by a message it wants to hand over.*)

ServeOnly == UNCHANGED <<closeFlag, dialer, asking, cclose, listening, serverEnd>>

\* Steps that need nobody at the console.
ClientServe(d) ==
  /\ \/ C!IOEnd(d)
     \/ d \notin asking /\ (C!ReadNotices(d) \/ C!HandleNotices(d))
  /\ ServeOnly

ConsoleOnly == UNCHANGED <<closeFlag, dialer, cserve, cclose, sockets>>

\* A handler asks for a room or a nickname: the server has sent something.
\* What is asked after either end was closed is taken as asked before.
Asks(d) ==
  /\ <<"client", d>> \in Restless
  /\ cstage[d] = "serving" /\ clientEnd[d] = "open" /\ serverEnd[d] = "open"
  /\ d \notin asking /\ asking' = asking \cup {d}
  /\ ConsoleOnly

\* The user has entered what the handler waits for.
Answer(d) == d \in asking /\ asking' = asking \ {d} /\ ConsoleOnly

\* Steps that wait for the user, OnConnect for a nickname.
ClientConsole(d) ==
  \/ Asks(d) \/ Answer(d)
  \/ (C!OnConnect(d) \/ (d \in asking /\ C!ReadNotices(d))) /\ ServeOnly

ClientQuit(d) ==
  /\ \/ C!Refuse(d) \/ C!IOReturns(d)
     \/ cstage[d] = "serving" /\ d \notin asking /\ C!HandleReturns(d)
  /\ ServeOnly

ClientGoesOn == (\E d \in Dialers : Connect(d) \/ ClientServe(d)) \/ CloseGoesOn

ClientNext ==
  \/ ClientGoesOn \/ SetCloseFlag
  \/ \E d \in Dialers : ClientConsole(d)
  \/ \E d \in Dialers : <<"client", d>> \in Restless /\ (DialNoAddr(d) \/ ClientQuit(d))
==============================================================================
