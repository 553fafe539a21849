------------------------------- MODULE Framing -------------------------------
(***************************************************************************)
(* One direction of a connection, as bytes: HeaderPacketParser of          *)
(* pkg/tcp/tcp_parser.go with the Marshal and Unmarshal of                 *)
(* pkg/tcp/protocol/gob.go at both ends, and between them a stream that    *)
(* arrives in pieces of any size and may be cut anywhere.                  *)
(*                                                                         *)
(* A byte is a number below Base (256 in the code).  A message is a record *)
(* of the name of its type and its value; what gob makes of the value is   *)
(* external and modelled by what the code relies on: it says how long it   *)
(* is, so a decoder that reads from a stream takes just its bytes.         *)
(***************************************************************************)
EXTENDS Integers, Sequences, SequencesExt

CONSTANTS
  Base,         \* values of a byte
  BufSize,      \* of inBuf, 1024 in newConn
  Registered,   \* names in msgInfo, the same in every program (reg.go)
  Messages,     \* that a sender may try
  MaxSent       \* bound of the model: calls of a sender

Byte == 0 .. Base - 1
MaxUint16 == Base * Base - 1

ASSUME SizesAssumption == Base \in Nat \ {0, 1} /\ BufSize \in Nat \ {0} /\ MaxSent \in Nat
ASSUME MessagesAssumption == Messages \subseteq [name : Seq(Byte), value : Seq(Byte)]

VARIABLES
  tries,        \* calls of a sender so far
  sent,         \* history: messages that were written
  sender,       \* "open"; "done": the sending side has closed
  wire,         \* bytes written and not read by the other side
  cut,          \* the connection broke and lost bytes
  plain,        \* the reader uses ReadPacket, on the connection itself
  rpc,          \* reader: "len" or "data" in ReadFull, "failed", "closed"
  got, need,    \* of ReadFull: bytes read, bytes asked for
  inBuf,        \* bytes buffered by bufio.Reader
  received      \* history: messages given to readLoop

out == <<tries, sent, sender>>
in == <<rpc, got, need, inBuf, received>>
vars == <<out, wire, cut, plain, in>>

LEN_BYTES == 2
PutUint16(k) == <<(k \div Base) % Base, k % Base>>
Uint16(bytes) == bytes[1] * Base + bytes[2]
Take(bytes, k) == SubSeq(bytes, 1, k)
Drop(bytes, k) == SubSeq(bytes, k + 1, Len(bytes))

\* encoding/gob: a length and as many bytes.
Gob(value) == PutUint16(Len(value)) \o value
GobLen(bytes) == LEN_BYTES + Uint16(bytes)
GobComplete(bytes) == Len(bytes) >= LEN_BYTES /\ Len(bytes) >= GobLen(bytes)
GobDecode(bytes) == Drop(Take(bytes, GobLen(bytes)), LEN_BYTES)

Marshal(msg) == PutUint16(Len(msg.name)) \o msg.name \o Gob(msg.value)

\* Slip: the length of the data is not compared with what 16 bits hold.
BuildableAny(msg) == msg.name \in Registered

Buildable(msg) == msg.name \in Registered /\ Len(Marshal(msg)) <= MaxUint16

\* BuildPacketBuf, WritePacket and WriteBufPacket give the same bytes.
Frame(msg) == PutUint16(Len(Marshal(msg))) \o Marshal(msg)

\* UnmarshalType and the name in Unmarshal: n wraps at 16 bits.
NameEnd(data) == (LEN_BYTES + Uint16(data)) % (MaxUint16 + 1)
HasName(data) == Len(data) >= LEN_BYTES /\ Len(data) >= NameEnd(data)
NameOf(data) == Drop(Take(data, NameEnd(data)), LEN_BYTES)
KnownType(data) == HasName(data) /\ NameOf(data) \in Registered

TypeOK ==
  /\ tries \in 0 .. MaxSent /\ sent \in Seq(Messages) /\ sender \in {"open", "done"}
  /\ wire \in Seq(Byte) /\ cut \in BOOLEAN /\ plain \in BOOLEAN
  /\ rpc \in {"len", "data", "failed", "closed"}
  /\ got \in Seq(Byte) /\ need \in 0 .. MaxUint16 /\ Len(got) <= need
  /\ inBuf \in Seq(Byte) /\ Len(inBuf) <= BufSize
  /\ received \in Seq([name : Seq(Byte), value : Seq(Byte)])

Init ==
  /\ tries = 0 /\ sent = << >> /\ sender = "open" /\ wire = << >> /\ cut = FALSE
  /\ plain \in BOOLEAN
  /\ rpc = "len" /\ got = << >> /\ need = LEN_BYTES /\ inBuf = << >> /\ received = << >>

-----------------------------------------------------------------------------
(* The sender and the connection.                                          *)

\* A message that can be framed is written, by either function.
Write(msg) ==
  /\ sender = "open" /\ tries < MaxSent /\ Buildable(msg)
  /\ tries' = tries + 1
  /\ sent' = Append(sent, msg)
  /\ wire' = wire \o Frame(msg)
  /\ UNCHANGED <<sender, cut, plain, in>>

\* BuildPacketBuf gives an error: nothing is written.
BuildPacketBufErr(msg) ==
  /\ sender = "open" /\ tries < MaxSent /\ ~Buildable(msg)
  /\ tries' = tries + 1
  /\ UNCHANGED <<sent, sender, wire, cut, plain, in>>

\* WriteBufPacket gives one: writeLoop returns and closes the connection;
\* or the sender closes it.  SetLinger(0) gives up any bytes on the way.
CloseSender(lost) ==
  /\ sender = "open" /\ sender' = "done"
  /\ wire' = Take(wire, Len(wire) - lost)
  /\ cut' = (lost > 0)
  /\ UNCHANGED <<tries, sent, plain, in>>

-----------------------------------------------------------------------------
(* The reader: io.ReadFull on the connection or on inBuf.                  *)

Reading == rpc \in {"len", "data"} /\ Len(got) < need

\* Slip: inBuf takes all there is.
FillAll ==
  /\ Reading /\ ~plain /\ inBuf = << >> /\ need - Len(got) < BufSize
  /\ \E k \in 1 .. Len(wire) : inBuf' = Take(wire, k) /\ wire' = Drop(wire, k)
  /\ UNCHANGED <<out, cut, plain, rpc, got, need, received>>

\* An empty inBuf is filled by one read of the connection.
Fill ==
  /\ Reading /\ ~plain /\ inBuf = << >> /\ need - Len(got) < BufSize
  /\ \E k \in 1 .. Len(wire) :
       k <= BufSize /\ inBuf' = Take(wire, k) /\ wire' = Drop(wire, k)
  /\ UNCHANGED <<out, cut, plain, rpc, got, need, received>>

\* A read of BufSize or more, or without a buffer, goes past inBuf.
ReadConn ==
  /\ Reading /\ inBuf = << >> /\ (plain \/ need - Len(got) >= BufSize)
  /\ \E k \in 1 .. Len(wire) :
       /\ k <= need - Len(got)
       /\ got' = got \o Take(wire, k) /\ wire' = Drop(wire, k)
  /\ UNCHANGED <<out, cut, plain, rpc, need, inBuf, received>>

ReadInBuf ==
  /\ Reading /\ inBuf # << >>
  /\ LET k == IF Len(inBuf) < need - Len(got) THEN Len(inBuf) ELSE need - Len(got) IN
       got' = got \o Take(inBuf, k) /\ inBuf' = Drop(inBuf, k)
  /\ UNCHANGED <<out, wire, cut, plain, rpc, need, received>>

\* Slip: the error of the second ReadFull is lost; msgData has zeros.
ReadEOFIgnored ==
  /\ Reading /\ sender = "done" /\ wire = << >> /\ inBuf = << >>
  /\ IF rpc = "len" THEN rpc' = "closed" /\ UNCHANGED got
     ELSE got' = got \o [i \in 1 .. need - Len(got) |-> 0] /\ UNCHANGED rpc
  /\ UNCHANGED <<out, wire, cut, plain, need, inBuf, received>>

\* io.EOF, at the end of a frame or inside: readLoop returns.
ReadEOF ==
  /\ Reading /\ sender = "done" /\ wire = << >> /\ inBuf = << >>
  /\ rpc' = "closed"
  /\ UNCHANGED <<out, wire, cut, plain, got, need, inBuf, received>>

HaveLen == rpc = "len" /\ Len(got) = need

\* The next call of ReadBufPacket or ReadPacket.
Return(name, value) ==
  /\ received' = Append(received, [name |-> name, value |-> value])
  /\ rpc' = "len" /\ got' = << >> /\ need' = LEN_BYTES

Fail == rpc' = "failed" /\ UNCHANGED <<got, need, received>>

\* Slip: the length of a frame is taken to count its own two bytes.
ReadDataLong ==
  /\ HaveLen /\ (plain \/ Len(inBuf) < Uint16(got))
  /\ rpc' = "data" /\ got' = << >> /\ need' = Uint16(got) + LEN_BYTES
  /\ UNCHANGED <<out, wire, cut, plain, inBuf, received>>

\* Not all of the frame is buffered: it is read to msgData.
ReadData ==
  /\ HaveLen /\ (plain \/ Len(inBuf) < Uint16(got))
  /\ rpc' = "data" /\ got' = << >> /\ need' = Uint16(got)
  /\ UNCHANGED <<out, wire, cut, plain, inBuf, received>>

Unmarshal ==
  /\ rpc = "data" /\ Len(got) = need
  /\ LET rest == Drop(got, NameEnd(got)) IN
       IF KnownType(got) /\ GobComplete(rest)
       THEN Return(NameOf(got), GobDecode(rest))
       ELSE Fail
  /\ UNCHANGED <<out, wire, cut, plain, inBuf>>

\* All of the frame is buffered: the name is peeked at, and the decoder
\* reads from inBuf.  The errors of Peek are ignored: where one asks for
\* more than is buffered, the model fails.
DecodeInBuf ==
  /\ HaveLen /\ ~plain /\ Len(inBuf) >= Uint16(got)
  /\ IF KnownType(inBuf) /\ GobComplete(Drop(inBuf, NameEnd(inBuf)))
     THEN LET rest == Drop(inBuf, NameEnd(inBuf)) IN
            /\ Return(NameOf(inBuf), GobDecode(rest))
            /\ inBuf' = Drop(rest, GobLen(rest))
     ELSE Fail /\ inBuf' = Drop(inBuf, Uint16(got))
  /\ UNCHANGED <<out, wire, cut, plain>>

-----------------------------------------------------------------------------
Send == \E msg \in Messages : Write(msg) \/ BuildPacketBufErr(msg)
Read == Fill \/ ReadConn \/ ReadInBuf \/ ReadEOF \/ ReadData \/ Unmarshal \/ DecodeInBuf

Next == Send \/ (\E lost \in 0 .. Len(wire) : CloseSender(lost)) \/ Read

\* Bytes on the way arrive, and readLoop is a goroutine that runs.
Spec == Init /\ [][Next]_vars /\ WF_vars(Read)

-----------------------------------------------------------------------------
\* What readLoop gets are the messages that were written, whole, in order
\* and without change, for frames that are buffered entirely, in part, or
\* too long for the buffer, and with the stream cut at any byte.
ReceivedInOrder == IsPrefix(received, sent)

\* The reader finds nothing wrong in a stream that the writers of this code
\* made: the name and the value lie inside the frame, what Peek asks for is
\* buffered, so the ignored errors never occur, and no 16 bit sum wraps.
ReaderAccepts == rpc # "failed"

\* Without a cut, what was written is received.
AllReceived ==
  \A k \in 1 .. MaxSent : (Len(sent) >= k) ~> (Len(received) >= k \/ cut)
==============================================================================
