-------------------------------- MODULE TCPConn --------------------------------
(***************************************************************************)
(* One connection, pkg/tcp/tcp_conn.go: the goroutines                     *)
(* readLoop, writeLoop and handleLoop, the goroutines of rooms and         *)
(* handlers that queue messages with AsyncSendPacket and AsyncSendBuff,    *)
(* and Close, which each loop runs when it ends and only the first         *)
(* executes.  Go's memory is sequentially consistent here for the flag and *)
(* the channels; the pointers inBuf and outBuf are read and set without    *)
(* synchronisation, and a step reads what was last set.                    *)
(*                                                                         *)
(* A panic that no function recovers ends the process.                     *)
(***************************************************************************)
EXTENDS Integers, FiniteSets

CONSTANTS
  Senders,      \* goroutines that call AsyncSend...
  Limits,       \* what WithSendChanLimit and WithRecvChanLimit are given, 0 if not
  DEFAULT_SEND_CHAN_LIMIT, DEFAULT_RECV_CHAN_LIMIT,
  BuffFactor    \* buffSendChan is this many times as long: 100 in newConn

ASSUME LimitsAssumption ==
  /\ Limits \subseteq [send : Int, recv : Nat]
  /\ DEFAULT_SEND_CHAN_LIMIT \in Nat \ {0} /\ DEFAULT_RECV_CHAN_LIMIT \in Nat
  /\ BuffFactor \in Nat

\* NewTCPOption.  The default of the receiving side is under a test of the
\* sending side, which never holds after the line above it.
NewTCPOption(limit) ==
  LET send == IF limit.send <= 0 THEN DEFAULT_SEND_CHAN_LIMIT ELSE limit.send
  IN [send |-> send,
      recv |-> IF send <= 0 THEN DEFAULT_RECV_CHAN_LIMIT ELSE limit.recv]

Loops == {"read", "write", "handle"}
\* What Close has done when its stage is this number.
CLOSE_CHAN  == 1
PACKET_SEND == 2
BUFF_SEND   == 3
PACKET_RECV == 4
IN_BUF      == 5
OUT_BUF     == 6
RAW_CONN    == 7
ON_CLOSE    == 8

VARIABLES
  opt,         \* tcpOption
  pc,          \* of each loop
  closeFlag,
  stage,       \* how far the goroutine that won Close has come
  closer,      \* that goroutine
  onClose,     \* history: calls of OnClose
  recvLen,     \* messages in packetRecvChan
  sendLen,     \* messages in packetSendChan
  buffLen,     \* messages in buffSendChan
  unflushed,   \* whether outBuf holds bytes
  broken,      \* the peer or the network is gone
  sender,      \* what each sender is doing
  crashed      \* a goroutine panicked: the process is gone

chans == <<recvLen, sendLen, buffLen>>
closing == <<closeFlag, stage, closer, onClose>>
vars == <<opt, pc, closing, chans, unflushed, broken, sender, crashed>>

\* newConn: capacities of packetRecvChan (0: unbuffered), packetSendChan and
\* buffSendChan.
RecvCap == opt.recv
SendCap == opt.send
BuffCap == opt.send * BuffFactor

TypeOK ==
  /\ opt \in [send : Nat \ {0}, recv : Nat]
  /\ pc \in [Loops -> {"select", "load", "read", "got", "send", "handling",
                       "tookBuff", "tookPacket", "write", "flush",
                       "close", "closing", "done"}]
  /\ closeFlag \in BOOLEAN /\ stage \in 0 .. ON_CLOSE
  /\ closer \in Loops \cup {"none"} /\ onClose \in 0 .. 3
  /\ recvLen \in 0 .. RecvCap /\ sendLen \in 0 .. SendCap /\ buffLen \in 0 .. BuffCap
  /\ unflushed \in BOOLEAN /\ broken \in BOOLEAN /\ crashed \in BOOLEAN
  /\ sender \in [Senders -> {"idle", "packet", "buff"}]

Init ==
  /\ \E limit \in Limits : opt = NewTCPOption(limit)
  /\ pc = [l \in Loops |-> "select"]
  /\ closeFlag = FALSE /\ stage = 0 /\ closer = "none" /\ onClose = 0
  /\ recvLen = 0 /\ sendLen = 0 /\ buffLen = 0
  /\ unflushed = FALSE /\ broken = FALSE /\ crashed = FALSE
  /\ sender = [s \in Senders |-> "idle"]

IsClosed == closeFlag
Goto(l, p) == pc' = [pc EXCEPT ![l] = p]
\* The loop goes on to p, or panics.
Unless(panic, l, p) == crashed' = panic /\ Goto(l, IF panic THEN "done" ELSE p)

-----------------------------------------------------------------------------
(* Close: the compare-and-swap, then one statement after the other.        *)

\* A slip is the definition after it with a mistake that a change of the code
\* might make; only the tests of the properties use it.
\* Slip of Close: no compare-and-swap.
CloseAgain(l) ==
  /\ pc[l] = "close"
  /\ closeFlag' = TRUE /\ closer' = l /\ stage' = 0
  /\ Goto(l, "closing")
  /\ UNCHANGED <<onClose, chans, unflushed, broken, sender, crashed>>

Close(l) ==
  /\ pc[l] = "close"
  /\ IF closeFlag
     THEN Goto(l, "done") /\ UNCHANGED closing
     ELSE /\ closeFlag' = TRUE /\ closer' = l
          /\ Goto(l, "closing")
          /\ UNCHANGED <<stage, onClose>>
  /\ UNCHANGED <<chans, unflushed, broken, sender, crashed>>

CloseNext(l) ==
  /\ pc[l] = "closing" /\ closer = l
  /\ stage' = stage + 1
  /\ onClose' = IF stage' = ON_CLOSE THEN onClose + 1 ELSE onClose
  /\ Goto(l, IF stage' = ON_CLOSE THEN "done" ELSE "closing")
  /\ UNCHANGED <<closeFlag, closer, chans, unflushed, broken, sender, crashed>>

-----------------------------------------------------------------------------
(* readLoop.                                                               *)

ReadCheck ==
  /\ pc["read"] = "select"
  /\ Goto("read", IF IsClosed THEN "close" ELSE "load")
  /\ UNCHANGED <<closing, chans, unflushed, broken, sender, crashed>>

\* c.inBuf is loaded for the call; the call on a nil reader panics.
ReadLoad ==
  /\ pc["read"] = "load"
  /\ Unless(stage >= IN_BUF, "read", "read")
  /\ UNCHANGED <<closing, chans, unflushed, broken, sender>>

\* ReadBufPacket returns a packet of the peer, or an error: the end of the
\* stream, a message that cannot be decoded, or the connection closed.
ReadPacket ==
  /\ pc["read"] = "read" /\ stage < RAW_CONN /\ ~broken
  /\ Goto("read", "got")
  /\ UNCHANGED <<closing, chans, unflushed, broken, sender, crashed>>

\* Slip of ReadError: the read goes on after Close, as without rawConn.Close().
ReadErrorOfPeer ==
  /\ pc["read"] = "read" /\ broken
  /\ Goto("read", "close")
  /\ UNCHANGED <<closing, chans, unflushed, broken, sender, crashed>>

ReadError ==
  /\ pc["read"] = "read" /\ (stage >= RAW_CONN \/ broken)
  /\ Goto("read", "close")
  /\ UNCHANGED <<closing, chans, unflushed, broken, sender, crashed>>

\* Slip of ReadGot: no second look at the flag.
ReadGotUnchecked ==
  /\ pc["read"] = "got"
  /\ Goto("read", "send")
  /\ UNCHANGED <<closing, chans, unflushed, broken, sender, crashed>>

ReadGot ==
  /\ pc["read"] = "got"
  /\ Goto("read", IF IsClosed THEN "close" ELSE "send")
  /\ UNCHANGED <<closing, chans, unflushed, broken, sender, crashed>>

\* The send to packetRecvChan blocks while it is full; on a closed channel
\* it panics, also when it was blocked when the channel was closed.
ReadSend ==
  /\ pc["read"] = "send" /\ (stage >= PACKET_RECV \/ recvLen < RecvCap)
  /\ Unless(stage >= PACKET_RECV, "read", "select")
  /\ recvLen' = IF stage >= PACKET_RECV THEN recvLen ELSE recvLen + 1
  /\ UNCHANGED <<closing, sendLen, buffLen, unflushed, broken, sender>>

-----------------------------------------------------------------------------
(* handleLoop.                                                             *)

\* Without a buffer, a packet passes from a blocked send to a waiting select.
Handover ==
  /\ pc["read"] = "send" /\ pc["handle"] = "select"
  /\ RecvCap = 0 /\ stage < PACKET_RECV
  /\ pc' = [pc EXCEPT !["read"] = "select", !["handle"] = "handling"]
  /\ UNCHANGED <<closing, chans, unflushed, broken, sender, crashed>>

HandleClosed ==
  /\ pc["handle"] = "select" /\ stage >= CLOSE_CHAN
  /\ Goto("handle", "close")
  /\ UNCHANGED <<closing, chans, unflushed, broken, sender, crashed>>

\* A closed and empty packetRecvChan yields nil, which Route refuses.
HandlePacket ==
  /\ pc["handle"] = "select" /\ (recvLen > 0 \/ stage >= PACKET_RECV)
  /\ Goto("handle", IF recvLen > 0 THEN "handling" ELSE "close")
  /\ recvLen' = IF recvLen > 0 THEN recvLen - 1 ELSE 0
  /\ UNCHANGED <<closing, sendLen, buffLen, unflushed, broken, sender, crashed>>

\* OnMessage returns; FALSE for a message that is not registered.
HandleReturn ==
  /\ pc["handle"] = "handling"
  /\ \E ok \in BOOLEAN : Goto("handle", IF ok THEN "select" ELSE "close")
  /\ UNCHANGED <<closing, chans, unflushed, broken, sender, crashed>>

-----------------------------------------------------------------------------
(* writeLoop.                                                              *)

WriteClosed ==
  /\ pc["write"] = "select" /\ stage >= CLOSE_CHAN
  /\ Goto("write", "close")
  /\ UNCHANGED <<closing, chans, unflushed, broken, sender, crashed>>

\* A closed and empty channel yields nil; the check of the flag comes next.
WriteTakeBuff ==
  /\ pc["write"] = "select" /\ (buffLen > 0 \/ stage >= BUFF_SEND)
  /\ Goto("write", "tookBuff")
  /\ buffLen' = IF buffLen > 0 THEN buffLen - 1 ELSE 0
  /\ UNCHANGED <<closing, recvLen, sendLen, unflushed, broken, sender, crashed>>

WriteTakePacket ==
  /\ pc["write"] = "select" /\ (sendLen > 0 \/ stage >= PACKET_SEND)
  /\ Goto("write", "tookPacket")
  /\ sendLen' = IF sendLen > 0 THEN sendLen - 1 ELSE 0
  /\ UNCHANGED <<closing, recvLen, buffLen, unflushed, broken, sender, crashed>>

\* A packet that cannot be encoded ends the loop before anything is written.
WriteCheck ==
  /\ pc["write"] \in {"tookBuff", "tookPacket"}
  /\ \/ Goto("write", IF IsClosed THEN "close" ELSE "write")
     \/ pc["write"] = "tookPacket" /\ Goto("write", "close")
  /\ UNCHANGED <<closing, chans, unflushed, broken, sender, crashed>>

\* The bytes go into outBuf; a nil writer panics.  (A frame larger than the
\* buffer is partly written through, and fails as the flush would.)
WriteBytes ==
  /\ pc["write"] = "write"
  /\ Unless(stage >= OUT_BUF, "write", "flush")
  /\ unflushed' = (unflushed \/ stage < OUT_BUF)
  /\ UNCHANGED <<closing, chans, broken, sender>>

\* Slip of WriteFlush: with lastFlushTime kept up to date, no flush within
\* DEFAULT_MAX_FLUSH_GAP of the last one.
WriteFlushRarely ==
  /\ pc["write"] = "flush" /\ stage < OUT_BUF
  /\ \E due \in BOOLEAN :
       /\ unflushed' = (unflushed /\ ~due)
       /\ Unless(FALSE, "write", IF due /\ (stage >= RAW_CONN \/ broken)
                                 THEN "close" ELSE "select")
  /\ UNCHANGED <<closing, chans, broken, sender>>

\* lastFlushTime stays 0, so the gap since the last flush is always too long
\* and every turn of the loop flushes.
WriteFlush ==
  /\ pc["write"] = "flush"
  /\ IF stage >= OUT_BUF THEN Unless(TRUE, "write", "close") /\ UNCHANGED unflushed
     ELSE IF stage >= RAW_CONN \/ broken
     THEN Unless(FALSE, "write", "close") /\ UNCHANGED unflushed
     ELSE Unless(FALSE, "write", "select") /\ unflushed' = FALSE
  /\ UNCHANGED <<closing, chans, broken, sender>>

-----------------------------------------------------------------------------
(* AsyncSendPacket and AsyncSendBuff: the check, then a send that does not *)
(* block; a panic of the send on a closed channel is recovered.            *)

SendCheck(s) ==
  /\ sender[s] = "idle" /\ ~IsClosed
  /\ \E chan \in {"packet", "buff"} : sender' = [sender EXCEPT ![s] = chan]
  /\ UNCHANGED <<pc, closing, chans, unflushed, broken, crashed>>

\* Slip of SendPacket: the channel grows when it is full.
SendPacketUnbounded(s) ==
  /\ sender[s] = "packet"
  /\ sendLen' = IF stage < PACKET_SEND THEN sendLen + 1 ELSE sendLen
  /\ sender' = [sender EXCEPT ![s] = "idle"]
  /\ UNCHANGED <<pc, closing, recvLen, buffLen, unflushed, broken, crashed>>

SendPacket(s) ==
  /\ sender[s] = "packet"
  /\ sendLen' = IF stage < PACKET_SEND /\ sendLen < SendCap THEN sendLen + 1 ELSE sendLen
  /\ sender' = [sender EXCEPT ![s] = "idle"]
  /\ UNCHANGED <<pc, closing, recvLen, buffLen, unflushed, broken, crashed>>

SendBuff(s) ==
  /\ sender[s] = "buff"
  /\ buffLen' = IF stage < BUFF_SEND /\ buffLen < BuffCap THEN buffLen + 1 ELSE buffLen
  /\ sender' = [sender EXCEPT ![s] = "idle"]
  /\ UNCHANGED <<pc, closing, recvLen, sendLen, unflushed, broken, crashed>>

\* The peer closes its side, or the network fails.
Break ==
  /\ ~broken
  /\ broken' = TRUE
  /\ UNCHANGED <<pc, closing, chans, unflushed, sender, crashed>>

-----------------------------------------------------------------------------
ReadLoop == ReadCheck \/ ReadLoad \/ ReadPacket \/ ReadError \/ ReadGot \/ ReadSend
HandleLoop == Handover \/ HandleClosed \/ HandlePacket \/ HandleReturn
WriteLoop == WriteClosed \/ WriteTakeBuff \/ WriteTakePacket \/ WriteCheck
               \/ WriteBytes \/ WriteFlush
CloseStep(l) == Close(l) \/ CloseNext(l)

\* The process has not panicked, and nothing changes a tcpOption.
Running == ~crashed /\ UNCHANGED opt

Next ==
  /\ Running
  /\ \/ ReadLoop \/ HandleLoop \/ WriteLoop
     \/ \E l \in Loops : CloseStep(l)
     \/ \E s \in Senders : SendCheck(s) \/ SendPacket(s) \/ SendBuff(s)
     \/ Break

Spec == Init /\ [][Next]_vars

\* Runnable goroutines are scheduled.  A select that finds closeChan closed
\* at every turn does not forever prefer the other cases (Go picks among the
\* ready ones at random): WriteClosed and HandleClosed need no more than
\* weak fairness, since the messages that were queued run out.
FairSpec ==
  /\ Spec
  /\ WF_vars(Running /\ ReadLoop) /\ WF_vars(Running /\ HandleLoop)
  /\ WF_vars(Running /\ WriteLoop)
  /\ \A l \in Loops : WF_vars(Running /\ CloseStep(l))

-----------------------------------------------------------------------------
\* OnClose runs once, whichever loops end at the same time: a user is logged
\* out once.
OnCloseOnce == onClose <= 1

\* Whenever writeLoop waits for messages, every byte it wrote has been
\* flushed: no message stays in outBuf until the next one comes.
FlushedWhenWaiting == pc["write"] = "select" => ~unflushed

\* The connection is closed, and no loop is between a look at the flag and
\* the use of what Close closes or clears.
Quiet ==
  /\ closeFlag /\ ~crashed
  /\ pc["read"] \notin {"load", "send"} /\ pc["write"] \notin {"write", "flush"}

\* From there on nothing panics, in whatever order Close goes on, the loops
\* end and late messages are queued: the panics that NoPanic reports need a
\* loop that looked at the flag before Close set it (tcp_conn.go:164, 181,
\* 202, 214), and each loop can do that once.
QuietForGood == [][Quiet => Quiet']_vars

\* A connection whose peer is gone or that any loop has closed is closed to
\* the end: the three loops return and OnClose has run (TCPServer.Close
\* waits for that), or else the process has ended in a panic.
LoopsEnd ==
  broken \/ closeFlag
    ~> crashed \/ (onClose = 1 /\ \A l \in Loops : pc[l] = "done")

-----------------------------------------------------------------------------
\* ErrConnClosing, "use of closed tcp connection" (tcp_conn.go:17), is what
\* using a closed connection should yield.  A loop that has checked IsClosed
\* uses packetRecvChan, inBuf and outBuf after Close has closed or cleared
\* them, and no function recovers the panic.
NoPanic == ~crashed
===============================================================================
