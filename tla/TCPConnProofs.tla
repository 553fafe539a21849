----------------------------- MODULE TCPConnProofs -----------------------------
(***************************************************************************)
(* Proofs about TCPConn for any number of senders and any capacities.      *)
(***************************************************************************)
EXTENDS TCPConn, TLAPS

\* The types, onClose without its bound.
Typed ==
  /\ opt \in [send : Nat \ {0}, recv : Nat]
  /\ pc \in [Loops -> {"select", "load", "read", "got", "send", "handling",
                       "tookBuff", "tookPacket", "write", "flush",
                       "close", "closing", "done"}]
  /\ closeFlag \in BOOLEAN /\ stage \in 0 .. ON_CLOSE
  /\ closer \in Loops \cup {"none"} /\ onClose \in Nat
  /\ recvLen \in 0 .. RecvCap /\ sendLen \in 0 .. SendCap /\ buffLen \in 0 .. BuffCap
  /\ unflushed \in BOOLEAN /\ broken \in BOOLEAN /\ crashed \in BOOLEAN
  /\ sender \in [Senders -> {"idle", "packet", "buff"}]

\* One goroutine closes: it has won the compare-and-swap, and has called
\* OnClose when its last stage is reached and not before.
OneCloser ==
  /\ closeFlag => closer # "none"
  /\ ~closeFlag => closer = "none"
  /\ closer = "none" => stage = 0 /\ onClose = 0
  /\ \A l \in Loops : pc[l] = "closing" => closer = l /\ stage < ON_CLOSE /\ onClose = 0
  /\ onClose <= 1

\* Bytes are in outBuf only from a write to the flush of the same turn.
FlushedInTurn ==
  pc["write"] \in {"select", "tookBuff", "tookPacket", "write"} => ~unflushed

IInv == Typed /\ OneCloser /\ FlushedInTurn

\* The capacities are lengths.
LEMMA CapInNat ==
  ASSUME opt \in [send : Nat \ {0}, recv : Nat]
  PROVE  RecvCap \in Nat /\ SendCap \in Nat \ {0} /\ BuffCap \in Nat
<1>1. \A i, j \in Nat : i * j \in Nat
  OBVIOUS
<1>2. QED
  BY <1>1, LimitsAssumption DEF RecvCap, SendCap, BuffCap

\* They stay as they are.
LEMMA CapsKept ==
  ASSUME UNCHANGED opt
  PROVE  RecvCap' = RecvCap /\ SendCap' = SendCap /\ BuffCap' = BuffCap
BY DEF RecvCap, SendCap, BuffCap

\* A new connection: nothing queued, nothing closed.
LEMMA IInvInit ==
  ASSUME Init
  PROVE  IInv
<1> USE DEF Init, Loops, ON_CLOSE
<1>1. Typed
  <2>1. closeFlag \in BOOLEAN /\ unflushed \in BOOLEAN /\ broken \in BOOLEAN
          /\ crashed \in BOOLEAN
    OBVIOUS
  <2>2. opt \in [send : Nat \ {0}, recv : Nat]
    BY LimitsAssumption DEF NewTCPOption
  <2>3. recvLen \in 0 .. RecvCap /\ sendLen \in 0 .. SendCap /\ buffLen \in 0 .. BuffCap
    BY <2>2, CapInNat
  <2>4. QED
    BY <2>1, <2>2, <2>3 DEF Typed
<1>2. ~closeFlag /\ ~crashed /\ ~unflushed
  OBVIOUS
<1>3. OneCloser
  BY <1>2, SMT DEF OneCloser
<1>4. FlushedInTurn
  BY <1>2 DEF FlushedInTurn
<1>5. QED
  BY <1>1, <1>3, <1>4 DEF IInv

\* Every step of a loop, of the closer, of a sender and of the peer.
LEMMA IInvNext ==
  ASSUME IInv, [Next]_vars
  PROVE  IInv'
<1>0. SUFFICES ASSUME Next
              PROVE  IInv'
  <2>1. ASSUME UNCHANGED vars
        PROVE  IInv'
    BY <2>1 DEF vars, IInv, Typed, OneCloser, FlushedInTurn, closing, chans,
         RecvCap, SendCap, BuffCap
  <2>2. QED
    BY <2>1
<1>a. ~crashed /\ UNCHANGED opt
  BY <1>0 DEF Next, Running
<1>b. RecvCap' = RecvCap /\ SendCap' = SendCap /\ BuffCap' = BuffCap
  BY <1>a, CapsKept
<1>c. RecvCap \in Nat /\ SendCap \in Nat \ {0} /\ BuffCap \in Nat
  BY CapInNat DEF IInv, Typed
<1> USE <1>a, <1>b, <1>c DEF IInv, Typed, OneCloser, FlushedInTurn, Goto,
      Unless, IsClosed, closing, chans, Loops, CLOSE_CHAN, PACKET_SEND, BUFF_SEND,
      PACKET_RECV, IN_BUF, OUT_BUF, RAW_CONN, ON_CLOSE
<1>1. CASE ReadLoop
  <2>1. CASE ReadCheck
    BY <2>1 DEF ReadCheck
  <2>2. CASE ReadLoad
    BY <2>2 DEF ReadLoad
  <2>3. CASE ReadPacket
    BY <2>3 DEF ReadPacket
  <2>4. CASE ReadError
    BY <2>4 DEF ReadError
  <2>5. CASE ReadGot
    BY <2>5 DEF ReadGot
  <2>6. CASE ReadSend
    BY <2>6 DEF ReadSend
  <2>7. QED
    BY <1>1, <2>1, <2>2, <2>3, <2>4, <2>5, <2>6 DEF ReadLoop
<1>2. CASE HandleLoop
  <2>0. CASE Handover
    BY <2>0 DEF Handover
  <2>1. CASE HandleClosed
    BY <2>1 DEF HandleClosed
  <2>2. CASE HandlePacket
    BY <2>2 DEF HandlePacket
  <2>3. CASE HandleReturn
    BY <2>3 DEF HandleReturn
  <2>4. QED
    BY <1>2, <2>0, <2>1, <2>2, <2>3 DEF HandleLoop
<1>3. CASE WriteLoop
  <2>1. CASE WriteClosed
    BY <2>1 DEF WriteClosed
  <2>2. CASE WriteTakeBuff
    BY <2>2 DEF WriteTakeBuff
  <2>3. CASE WriteTakePacket
    BY <2>3 DEF WriteTakePacket
  <2>4. CASE WriteCheck
    BY <2>4 DEF WriteCheck
  <2>5. CASE WriteBytes
    <3>1. pc["write"] = "write" /\ pc' = [pc EXCEPT !["write"] = pc'["write"]]
      BY <2>5 DEF WriteBytes
    <3>2. pc'["write"] = IF stage >= OUT_BUF THEN "done" ELSE "flush"
      BY <2>5 DEF WriteBytes
    <3>3. unflushed' \in BOOLEAN
      BY <2>5 DEF WriteBytes
    <3>4. crashed' = (stage >= OUT_BUF) /\ UNCHANGED <<closing, chans, broken, sender>>
      BY <2>5 DEF WriteBytes
    <3>5. QED
      BY <3>1, <3>2, <3>3, <3>4
  <2>6. CASE WriteFlush
    <3>1. CASE stage >= OUT_BUF
      BY <2>6, <3>1 DEF WriteFlush
    <3>2. CASE ~(stage >= OUT_BUF) /\ (stage >= RAW_CONN \/ broken)
      BY ZenonT(40), <2>6, <3>2 DEF WriteFlush
    <3>3. CASE ~(stage >= OUT_BUF) /\ ~(stage >= RAW_CONN \/ broken)
      BY ZenonT(40), <2>6, <3>3 DEF WriteFlush
    <3>4. QED
      BY <3>1, <3>2, <3>3
  <2>7. QED
    BY <1>3, <2>1, <2>2, <2>3, <2>4, <2>5, <2>6 DEF WriteLoop
<1>4. ASSUME NEW l \in Loops, CloseStep(l)
      PROVE  IInv'
  <2>1. CASE Close(l)
    <3>1. CASE closeFlag
      BY <2>1, <3>1 DEF Close
    <3>2. CASE ~closeFlag
      <4>1. closeFlag' /\ closer' = l /\ pc' = [pc EXCEPT ![l] = "closing"]
        BY <2>1, <3>2 DEF Close
      <4>2. /\ UNCHANGED <<stage, onClose, chans, unflushed, broken, sender, crashed>>
            /\ closeFlag' \in BOOLEAN /\ pc[l] = "close"
        BY <2>1, <3>2 DEF Close
      <4>3. stage = 0 /\ onClose = 0 /\ \A k \in Loops : pc[k] # "closing"
        BY <3>2
      <4>4. QED
        BY <4>1, <4>2, <4>3
    <3>3. QED
      BY <3>1, <3>2
  <2>2. CASE CloseNext(l)
    BY <2>2 DEF CloseNext
  <2>3. QED
    BY <1>4, <2>1, <2>2 DEF CloseStep
<1>5. ASSUME NEW s \in Senders, SendCheck(s) \/ SendPacket(s) \/ SendBuff(s)
      PROVE  IInv'
  BY <1>5 DEF SendCheck, SendPacket, SendBuff
<1>6. CASE Break
  BY <1>6 DEF Break
<1>7. QED
  BY <1>0, <1>1, <1>2, <1>3, <1>4, <1>5, <1>6 DEF Next

\* IInv holds in every run.
LEMMA Invariant == Spec => []IInv
BY IInvInit, IInvNext, PTL DEF Spec

\* Every variable keeps its type.
THEOREM TypeInvariant == Spec => []TypeOK
<1>1. IInv => TypeOK
  BY DEF IInv, Typed, OneCloser, TypeOK
<1>2. QED
  BY <1>1, Invariant, PTL

\* However the three loops race to close the connection, OnClose runs at most
\* once (tcp_conn.go:68-83): its user is logged out once.
THEOREM ClosedOnce == Spec => []OnCloseOnce
<1>1. IInv => OnCloseOnce
  BY DEF IInv, OneCloser, OnCloseOnce
<1>2. QED
  BY <1>1, Invariant, PTL

\* No byte stays in outBuf while writeLoop waits (tcp_conn.go:196-236).
THEOREM Flushed == Spec => []FlushedWhenWaiting
<1>1. IInv => FlushedWhenWaiting
  BY DEF IInv, FlushedInTurn, FlushedWhenWaiting
<1>2. QED
  BY <1>1, Invariant, PTL

\* Once the connection is closed and no loop is past its look at the flag,
\* nothing panics any more (tcp_conn.go:164, 181, 202, 214).
THEOREM NoLatePanic == Spec => QuietForGood
<1>1. ASSUME IInv, Next, Quiet
      PROVE  Quiet'
  <2> DEFINE Checked == /\ pc["read"] \notin {"load", "send"}
                        /\ pc["write"] \notin {"write", "flush"}
             Calm    == closeFlag /\ ~crashed
  <2>1. Checked /\ Calm /\ Typed
    BY <1>1 DEF Quiet, IInv
  <2> USE DEF Goto, Unless, IsClosed, closing, Loops
  <2>2. CASE ReadLoop
    <3> USE DEF ReadLoop, ReadCheck, ReadLoad, ReadPacket, ReadError, ReadGot, ReadSend
    <3>1. Checked'
      BY <2>1, <2>2 DEF Typed
    <3>2. UNCHANGED <<closeFlag, crashed>>
      BY <2>1, <2>2
    <3>3. QED
      BY <2>1, <3>1, <3>2, Zenon DEF Quiet
  <2>3. CASE HandleLoop
    <3> USE DEF HandleLoop, Handover, HandleClosed, HandlePacket, HandleReturn
    <3>1. Checked'
      BY <2>1, <2>3 DEF Typed
    <3>2. UNCHANGED <<closeFlag, crashed>>
      BY <2>1, <2>3
    <3>3. QED
      BY <2>1, <3>1, <3>2, Zenon DEF Quiet
  <2>4. CASE WriteLoop
    <3> USE DEF WriteLoop, WriteClosed, WriteTakeBuff, WriteTakePacket, WriteCheck,
                WriteBytes, WriteFlush
    <3>1. Checked'
      BY <2>1, <2>4 DEF Typed
    <3>2. UNCHANGED <<closeFlag, crashed>>
      BY <2>1, <2>4
    <3>3. QED
      BY <2>1, <3>1, <3>2, Zenon DEF Quiet
  <2>5. ASSUME NEW l \in Loops, CloseStep(l)
        PROVE  Quiet'
    <3> USE DEF CloseStep, Close, CloseNext
    <3>1. Checked'
      BY <2>1, <2>5 DEF Typed
    <3>2. UNCHANGED <<closeFlag, crashed>>
      BY <2>1, <2>5
    <3>3. QED
      BY <2>1, <3>1, <3>2, Zenon DEF Quiet
  <2>6. ASSUME NEW s \in Senders, SendCheck(s) \/ SendPacket(s) \/ SendBuff(s)
        PROVE  Quiet'
    <3>1. UNCHANGED <<pc, closeFlag, crashed>>
      BY <2>6 DEF SendCheck, SendPacket, SendBuff
    <3>2. QED
      BY <2>1, <3>1, Zenon DEF Quiet
  <2>7. CASE Break
    BY <2>1, <2>7, Zenon DEF Break, Quiet
  <2>8. QED
    BY <1>1, <2>2, <2>3, <2>4, <2>5, <2>6, <2>7 DEF Next
<1>2. IInv /\ [Next]_vars => [Quiet => Quiet']_vars
  BY <1>1
<1>3. QED
  BY <1>2, Invariant, PTL DEF Spec, QuietForGood
===============================================================================
