------------------------------ MODULE ConnServe ------------------------------
(***************************************************************************)
(* The goroutines of a connection, the same at both ends: the one that     *)
(* TCPClient.connect and TCPServer.Serve start, and the loops that         *)
(* TCPConn.serve starts from it.  What the loops do with messages is       *)
(* TCPConn's matter; here they run and end.                                *)
(*                                                                         *)
(* A sync.WaitGroup is the set of what it waits for: Add(1) puts an        *)
(* element in, Done takes it out, Wait wants the set empty.                *)
(***************************************************************************)
CONSTANT Dialers

VARIABLES
  conns,      \* the sync.Map
  wg,         \* the WaitGroup
  stage,      \* "none", "start", "serving", "closing": TCPConn.Close was called, "ended"
  loops,      \* that run
  own, peer   \* the ends of the connection

\* readLoop and writeLoop are taken as a pair, "io": nothing but the
\* WaitGroup looks at them, and it wants both ended.
Loops == {"io", "handle"}

ServeInit ==
  /\ conns = {} /\ stage = [d \in Dialers |-> "none"] /\ loops = [d \in Dialers |-> {}]

ServeOK ==
  /\ conns \subseteq Dialers
  /\ wg \subseteq {"dial", "conn", "io"} \X Dialers
  /\ stage \in [Dialers -> {"none", "start", "serving", "closing", "ended"}]
  /\ loops \in [Dialers -> SUBSET Loops]

\* serve has returned, or OnConnect has refused: the deferred calls.
ConnEnd(d) ==
  /\ stage' = [stage EXCEPT ![d] = "ended"]
  /\ own' = [own EXCEPT ![d] = "closed"]
  /\ conns' = conns \ {d}
  /\ wg' = wg \ {<<"conn", d>>}

\* OnConnect agrees, and serve starts the loops, two of them counted.  A
\* server's does so at once, a client's waits for the user before.
OnConnect(d) ==
  /\ stage[d] = "start"
  /\ stage' = [stage EXCEPT ![d] = "serving"]
  /\ loops' = [loops EXCEPT ![d] = Loops]
  /\ wg' = wg \cup {<<"io", d>>}
  /\ UNCHANGED <<conns, own>>

\* OnConnect refuses, as a client's does if its first message is not queued.
Refuse(d) == stage[d] = "start" /\ ConnEnd(d) /\ UNCHANGED loops

\* readLoop or writeLoop returns and calls TCPConn.Close.
IOReturns(d) ==
  /\ stage[d] = "serving"
  /\ stage' = [stage EXCEPT ![d] = "closing"]
  /\ own' = [own EXCEPT ![d] = "closed"]
  /\ UNCHANGED <<conns, wg, loops>>

\* Slip: the end of the stream is not an error.
ReadNoticesOwn(d) == own[d] = "closed" /\ IOReturns(d)

\* readLoop notices that this end or the other of the socket was closed.
ReadNotices(d) == (own[d] = "closed" \/ peer[d] = "closed") /\ IOReturns(d)

\* After Close both of them end.
IOEnd(d) ==
  /\ "io" \in loops[d] /\ stage[d] \in {"closing", "ended"}
  /\ loops' = [loops EXCEPT ![d] = @ \ {"io"}]
  /\ wg' = wg \ {<<"io", d>>}
  /\ UNCHANGED <<conns, stage, own>>

\* handleLoop returns, and serve with it.
HandleReturns(d) ==
  /\ "handle" \in loops[d]
  /\ loops' = [loops EXCEPT ![d] = @ \ {"handle"}]
  /\ ConnEnd(d)

HandleNotices(d) == stage[d] = "closing" /\ HandleReturns(d)

\* What a connection of the server does by itself, and what its handler or
\* an error on the wire may make it do.  A client's waits for the console
\* as well (TCPClient).
Serve(d) == OnConnect(d) \/ ReadNotices(d) \/ IOEnd(d) \/ HandleNotices(d)
Quit(d) == Refuse(d) \/ IOReturns(d) \/ (stage[d] = "serving" /\ HandleReturns(d))
==============================================================================
