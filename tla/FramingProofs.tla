----------------------------- MODULE FramingProofs -----------------------------
(***************************************************************************)
(* The stream of module Framing is taken apart as it was put together, for *)
(* any byte size, buffer and messages, however it is cut into pieces.      *)
(***************************************************************************)
EXTENDS Framing, TLAPS

-----------------------------------------------------------------------------
(* Parts of sequences of bytes.                                            *)

LEMMA Parts ==
  ASSUME NEW s \in Seq(Byte), NEW k \in 0 .. Len(s)
  PROVE  /\ Take(s, k) \in Seq(Byte) /\ Len(Take(s, k)) = k
         /\ \A i \in 1 .. k : Take(s, k)[i] = s[i]
         /\ Drop(s, k) \in Seq(Byte) /\ Len(Drop(s, k)) = Len(s) - k
         /\ \A i \in 1 .. Len(s) - k : Drop(s, k)[i] = s[k + i]
BY DEF Take, Drop

LEMMA Concat ==
  ASSUME NEW a \in Seq(Byte), NEW b \in Seq(Byte)
  PROVE  /\ a \o b \in Seq(Byte) /\ Len(a \o b) = Len(a) + Len(b)
         /\ \A i \in 1 .. Len(a) : (a \o b)[i] = a[i]
         /\ \A i \in 1 .. Len(b) : (a \o b)[Len(a) + i] = b[i]
OBVIOUS

LEMMA Lengths ==
  ASSUME NEW S, NEW a \in Seq(S), NEW b \in Seq(S)
  PROVE  a \o b \in Seq(S) /\ Len(a \o b) = Len(a) + Len(b)
OBVIOUS

LEMMA Assoc ==
  \A a, b, c \in Seq(Byte) : a \o (b \o c) = (a \o b) \o c
OBVIOUS

LEMMA Equal ==
  ASSUME NEW a \in Seq(Byte), NEW b \in Seq(Byte), Len(a) = Len(b),
         \A i \in 1 .. Len(a) : a[i] = b[i]
  PROVE  a = b
OBVIOUS

LEMMA Split ==
  ASSUME NEW s \in Seq(Byte), NEW k \in 0 .. Len(s)
  PROVE  s = Take(s, k) \o Drop(s, k)
<1> DEFINE a == Take(s, k)
           b == Drop(s, k)
<1>1. /\ a \in Seq(Byte) /\ Len(a) = k /\ \A i \in 1 .. k : a[i] = s[i]
      /\ b \in Seq(Byte) /\ Len(b) = Len(s) - k
      /\ \A i \in 1 .. Len(s) - k : b[i] = s[k + i]
  BY Parts
<1> HIDE DEF a, b
<1>2. Len(a \o b) = Len(s) /\ a \o b \in Seq(Byte)
  BY <1>1
<1>3. \A i \in 1 .. Len(s) : (a \o b)[i] = s[i]
  <2>1. ASSUME NEW i \in 1 .. Len(s), i <= k
        PROVE  (a \o b)[i] = s[i]
    BY <1>1, <2>1
  <2>2. ASSUME NEW i \in 1 .. Len(s), i > k
        PROVE  (a \o b)[i] = s[i]
    <3>1. i - k \in 1 .. Len(b) /\ i = Len(a) + (i - k)
      BY <1>1, <2>2
    <3>2. (a \o b)[Len(a) + (i - k)] = b[i - k]
      BY <1>1, <3>1, Concat
    <3>3. b[i - k] = s[i]
      BY <1>1, <3>1
    <3>4. QED
      BY <3>1, <3>2, <3>3
  <2>3. \A i \in 1 .. Len(s) : i <= k \/ i > k
    OBVIOUS
  <2>4. QED
    BY <2>1, <2>2, <2>3
<1>4. QED
  BY <1>2, <1>3, Equal DEF a, b

\* Of two concatenations that agree, the parts agree.
LEMMA Cancel ==
  ASSUME NEW a \in Seq(Byte), NEW b \in Seq(Byte), NEW c \in Seq(Byte), NEW d \in Seq(Byte),
         a \o b = c \o d, Len(a) = Len(c)
  PROVE  a = c /\ b = d
<1>1. \A i \in 1 .. Len(a) : a[i] = c[i]
  <2>1. /\ \A i \in 1 .. Len(a) : (a \o b)[i] = a[i]
        /\ \A i \in 1 .. Len(c) : (c \o d)[i] = c[i]
    BY Concat
  <2>2. QED
    BY <2>1
<1>2. Len(b) = Len(d)
  <2>1. Len(a \o b) = Len(a) + Len(b) /\ Len(c \o d) = Len(c) + Len(d)
    BY Concat
  <2>2. QED
    BY <2>1
<1>3. \A i \in 1 .. Len(b) : b[i] = d[i]
  <2>1. /\ \A i \in 1 .. Len(b) : (a \o b)[Len(a) + i] = b[i]
        /\ \A i \in 1 .. Len(d) : (c \o d)[Len(c) + i] = d[i]
    BY Concat
  <2>2. QED
    BY <1>2, <2>1
<1>4. QED
  BY <1>1, <1>2, <1>3, Equal

\* The first part of a concatenation, and what is behind it.
LEMMA PartsOfConcat ==
  ASSUME NEW a \in Seq(Byte), NEW b \in Seq(Byte)
  PROVE  Take(a \o b, Len(a)) = a /\ Drop(a \o b, Len(a)) = b
<1> DEFINE s == a \o b
<1>1. s \in Seq(Byte) /\ Len(a) \in 0 .. Len(s)
  BY Concat
<1>2. /\ Take(s, Len(a)) \in Seq(Byte) /\ Drop(s, Len(a)) \in Seq(Byte)
      /\ Len(Take(s, Len(a))) = Len(a) /\ s = Take(s, Len(a)) \o Drop(s, Len(a))
  BY <1>1, Parts, Split
<1>3. QED
  BY <1>2, Cancel

LEMMA Overlap ==
  ASSUME NEW a \in Seq(Byte), NEW b \in Seq(Byte), NEW c \in Seq(Byte), NEW d \in Seq(Byte),
         a \o b = c \o d, Len(a) >= Len(c)
  PROVE  /\ a = c \o Drop(a, Len(c))
         /\ Drop(a, Len(c)) \o b = d
<1> DEFINE x == Take(a, Len(c))
           y == Drop(a, Len(c))
<1>1. /\ x \in Seq(Byte) /\ y \in Seq(Byte) /\ Len(x) = Len(c) /\ a = x \o y
  BY Parts, Split
<1> HIDE DEF x, y
<1>2. x \o (y \o b) = c \o d /\ y \o b \in Seq(Byte)
  <2>1. x \o (y \o b) = (x \o y) \o b
    <3>1. x \in Seq(Byte) /\ y \in Seq(Byte) /\ b \in Seq(Byte)
      BY <1>1
    <3>2. QED
      BY ONLY ZenonT(90), <3>1, Assoc
  <2>2. y \o b \in Seq(Byte)
    BY <1>1, Concat
  <2>3. a \o b = c \o d
    OBVIOUS
  <2>4. (x \o y) \o b = c \o d
    BY ONLY <1>1, <2>3, Zenon
  <2>5. QED
    BY ONLY <2>1, <2>2, <2>4, Zenon
<1>3. x = c /\ y \o b = d
  BY <1>1, <1>2, Cancel
<1>4. QED
  BY <1>1, <1>3 DEF y

-----------------------------------------------------------------------------
(* Numbers and messages as bytes.                                          *)

LEMMA Numbers ==
  /\ Base \in Nat /\ Base > 1 /\ MaxUint16 \in Nat /\ MaxUint16 > LEN_BYTES
  /\ \A k \in 0 .. MaxUint16 : k % (MaxUint16 + 1) = k
<1>1. Base \in Nat /\ Base > 1
  BY SizesAssumption
<1>2. Base * Base \in Nat /\ Base * Base >= 4
  <2>1. \A b \in Nat : b > 1 => b * b \in Nat /\ b * b >= 4
    BY SMT
  <2>2. QED
    BY <1>1, <2>1
<1>3. MaxUint16 \in Nat /\ MaxUint16 > LEN_BYTES
  BY <1>1, <1>2 DEF MaxUint16, LEN_BYTES
<1>4. \A n \in Nat : \A k \in 0 .. n : k % (n + 1) = k
  BY SMT
<1>5. QED
  BY <1>1, <1>3, <1>4

LEMMA PutAndGet ==
  ASSUME NEW k \in 0 .. MaxUint16, NEW s \in Seq(Byte)
  PROVE  /\ PutUint16(k) \in Seq(Byte) /\ Len(PutUint16(k)) = LEN_BYTES
         /\ Uint16(PutUint16(k)) = k /\ Uint16(PutUint16(k) \o s) = k
<1> DEFINE h == k \div Base
           l == k % Base
<1>1. Base \in Nat /\ Base > 1
  BY Numbers
<1>2. h \in 0 .. Base - 1 /\ l \in 0 .. Base - 1 /\ k = Base * h + l
  BY SizesAssumption DEF MaxUint16
<1> HIDE DEF h, l
<1>3. h % Base = h
  BY <1>1, <1>2
<1>4. PutUint16(k) = <<h, l>>
  BY <1>3 DEF PutUint16, h, l
<1>5. h * Base + l = k
  BY <1>1, <1>2
<1>6. h \in Byte /\ l \in Byte
  BY <1>2 DEF Byte
<1>7. (<<h, l>> \o s)[1] = h /\ (<<h, l>> \o s)[2] = l
  BY <1>6
<1>8. QED
  BY <1>4, <1>5, <1>6, <1>7 DEF Uint16, LEN_BYTES

LEMMA MarshalType ==
  ASSUME NEW msg \in Messages, Buildable(msg)
  PROVE  /\ msg = [name |-> msg.name, value |-> msg.value]
         /\ msg.name \in Seq(Byte) /\ msg.value \in Seq(Byte) /\ Gob(msg.value) \in Seq(Byte)
         /\ Len(msg.name) \in 0 .. MaxUint16 /\ Len(msg.value) \in 0 .. MaxUint16
         /\ LEN_BYTES + Len(msg.name) \in 0 .. MaxUint16
         /\ Marshal(msg) \in Seq(Byte) /\ Len(Marshal(msg)) \in 0 .. MaxUint16
         /\ Marshal(msg) = PutUint16(Len(msg.name)) \o (msg.name \o Gob(msg.value))
         /\ Frame(msg) \in Seq(Byte) /\ Len(Frame(msg)) = LEN_BYTES + Len(Marshal(msg))
<1>1. msg \in [name : Seq(Byte), value : Seq(Byte)]
  BY MessagesAssumption
<1>2. /\ msg = [name |-> msg.name, value |-> msg.value]
      /\ msg.name \in Seq(Byte) /\ msg.value \in Seq(Byte)
  BY <1>1
<1> DEFINE n == PutUint16(Len(msg.name))
           v == PutUint16(Len(msg.value))
           len == PutUint16(Len(Marshal(msg)))
<1>3. \A k \in Nat : PutUint16(k) \in Seq(Int) /\ Len(PutUint16(k)) = 2
  <2>1. \A k \in Nat : k \div Base \in Int /\ k % Base \in Int /\ (k \div Base) % Base \in Int
    BY Numbers
  <2>2. QED
    BY <2>1 DEF PutUint16
<1>4. /\ Len(n) = 2 /\ Len(v) = 2 /\ n \in Seq(Int) /\ v \in Seq(Int)
      /\ Len(msg.name) \in Nat /\ Len(msg.value) \in Nat
      /\ msg.name \in Seq(Int) /\ msg.value \in Seq(Int)
  <2>1. Byte \subseteq Int
    BY Numbers DEF Byte
  <2>2. QED
    BY <1>2, <1>3, <2>1
<1>5. Marshal(msg) = n \o msg.name \o (v \o msg.value)
  BY DEF Marshal, Gob
<1> HIDE DEF n, v
<1>6. Len(Marshal(msg)) = 4 + Len(msg.name) + Len(msg.value)
  <2>1. /\ Len(n \o msg.name) = 2 + Len(msg.name) /\ n \o msg.name \in Seq(Int)
        /\ Len(v \o msg.value) = 2 + Len(msg.value) /\ v \o msg.value \in Seq(Int)
    BY ZenonT(40), <1>4, Lengths
  <2> DEFINE a == n \o msg.name
             b == v \o msg.value
  <2> HIDE DEF a, b
  <2>2. Len(a \o b) = Len(a) + Len(b)
    BY <2>1, Lengths DEF a, b
  <2>3. Len(a) = 2 + Len(msg.name) /\ Len(b) = 2 + Len(msg.value) /\ Marshal(msg) = a \o b
    BY <1>5, <2>1 DEF a, b
  <2>4. Len(msg.name) \in Nat /\ Len(msg.value) \in Nat
    BY <1>4
  <2>5. Len(Marshal(msg)) = (2 + Len(msg.name)) + (2 + Len(msg.value))
    BY ONLY <2>2, <2>3, Zenon
  <2>6. \A x, y \in Nat : (2 + x) + (2 + y) = 4 + x + y
    OBVIOUS
  <2>7. QED
    BY ONLY <2>4, <2>5, <2>6, Zenon
<1>7. /\ Len(Marshal(msg)) \in 0 .. MaxUint16
      /\ Len(msg.name) \in 0 .. MaxUint16 /\ Len(msg.value) \in 0 .. MaxUint16
      /\ LEN_BYTES + Len(msg.name) \in 0 .. MaxUint16
  <2>1. Len(Marshal(msg)) <= MaxUint16
    BY DEF Buildable
  <2>2. \A x, y, z, m \in Nat : z = 4 + x + y /\ z <= m =>
           z \in 0 .. m /\ x \in 0 .. m /\ y \in 0 .. m /\ 2 + x \in 0 .. m
    OBVIOUS
  <2>3. Len(msg.name) \in Nat /\ Len(msg.value) \in Nat /\ Len(Marshal(msg)) \in Nat
    <3>1. Len(msg.name) \in Nat /\ Len(msg.value) \in Nat
      BY <1>4
    <3>2. \A x, y \in Nat : 4 + x + y \in Nat
      OBVIOUS
    <3>3. QED
      BY ONLY <1>6, <3>1, <3>2, Zenon
  <2>4. QED
    BY <1>6, <2>1, <2>2, <2>3, Numbers DEF LEN_BYTES
<1>8. n \in Seq(Byte) /\ v \in Seq(Byte) /\ len \in Seq(Byte) /\ Len(len) = LEN_BYTES
  <2>1. <<>> \in Seq(Byte)
    OBVIOUS
  <2>2. QED
    BY <1>7, <2>1, PutAndGet DEF n, v
<1>9. v \o msg.value \in Seq(Byte)
  BY <1>2, <1>8, Concat
<1>10. n \o (msg.name \o (v \o msg.value)) = (n \o msg.name) \o (v \o msg.value)
  <2>1. n \in Seq(Byte) /\ msg.name \in Seq(Byte) /\ v \o msg.value \in Seq(Byte)
    BY <1>2, <1>8, <1>9
  <2>2. QED
    BY ONLY ZenonT(40), <2>1, Assoc
<1>11. Marshal(msg) \in Seq(Byte)
  <2>1. n \o msg.name \in Seq(Byte)
    BY <1>2, <1>8, Concat
  <2>2. QED
    BY <1>5, <1>9, <2>1, Concat
<1>12. Frame(msg) \in Seq(Byte) /\ Len(Frame(msg)) = LEN_BYTES + Len(Marshal(msg))
  <2>1. Frame(msg) = len \o Marshal(msg)
    BY DEF Frame
  <2> HIDE DEF len
  <2>2. QED
    BY <1>8, <1>11, <2>1, Concat
<1>13. QED
  BY <1>2, <1>5, <1>7, <1>9, <1>10, <1>11, <1>12 DEF Gob, n, v

\* UnmarshalType and Unmarshal get back what Marshal put in, and leave what is
\* behind it alone.
LEMMA Parse ==
  ASSUME NEW msg \in Messages, Buildable(msg), NEW tail \in Seq(Byte), NEW data \in Seq(Byte),
         data = Marshal(msg) \o tail
  PROVE  LET rest == Drop(data, NameEnd(data)) IN
         /\ KnownType(data) /\ NameOf(data) = msg.name
         /\ GobComplete(rest) /\ GobDecode(rest) = msg.value
         /\ Drop(rest, GobLen(rest)) = tail
<1> DEFINE n == PutUint16(Len(msg.name))
           v == PutUint16(Len(msg.value))
           name == msg.name
           value == msg.value
           g == Gob(value)
           rest == Drop(data, NameEnd(data))
<1>1. /\ name \in Seq(Byte) /\ value \in Seq(Byte) /\ g \in Seq(Byte)
      /\ Len(name) \in 0 .. MaxUint16 /\ Len(value) \in 0 .. MaxUint16
      /\ LEN_BYTES + Len(name) \in 0 .. MaxUint16
      /\ Marshal(msg) = n \o (name \o g)
  BY MarshalType
<1>2. /\ n \in Seq(Byte) /\ Len(n) = LEN_BYTES /\ v \in Seq(Byte) /\ Len(v) = LEN_BYTES
      /\ \A s \in Seq(Byte) : Uint16(n \o s) = Len(name) /\ Uint16(v \o s) = Len(value)
  BY <1>1, PutAndGet
<1>3. g = v \o value /\ name \in Registered
  BY DEF Gob, Buildable
<1> DEFINE whole == name \o (g \o tail)
           head == n \o name
<1> HIDE DEF n, v, name, value, g, rest
<1>4. g \o tail \in Seq(Byte) /\ whole \in Seq(Byte) /\ head \in Seq(Byte) /\ name \o g \in Seq(Byte)
      /\ Len(head) = LEN_BYTES + Len(name) /\ Len(g) = LEN_BYTES + Len(value)
      /\ value \o tail \in Seq(Byte)
  <2>1. g \o tail \in Seq(Byte) /\ head \in Seq(Byte) /\ Len(head) = Len(n) + Len(name)
    BY <1>1, <1>2, Concat
  <2>2. whole \in Seq(Byte) /\ name \o g \in Seq(Byte) /\ value \o tail \in Seq(Byte)
    BY <1>1, <2>1, Concat
  <2>3. Len(g) = Len(v) + Len(value)
    BY <1>1, <1>2, <1>3, Concat
  <2>4. QED
    BY <1>2, <2>1, <2>2, <2>3
<1>5. data = n \o whole
  <2>1. (n \o (name \o g)) \o tail = n \o ((name \o g) \o tail)
    <3>1. n \in Seq(Byte) /\ name \o g \in Seq(Byte) /\ tail \in Seq(Byte)
      BY <1>2, <1>4
    <3>2. QED
      BY ONLY ZenonT(40), <3>1, Assoc
  <2>2. (name \o g) \o tail = name \o (g \o tail)
    <3>1. name \in Seq(Byte) /\ g \in Seq(Byte) /\ tail \in Seq(Byte)
      BY <1>1
    <3>2. QED
      BY ONLY ZenonT(40), <3>1, Assoc
  <2>3. QED
    BY <1>1, <2>1, <2>2
<1>6. data = head \o (g \o tail)
  <2>1. n \in Seq(Byte) /\ name \in Seq(Byte) /\ g \o tail \in Seq(Byte)
    BY <1>1, <1>2, <1>4
  <2>2. n \o (name \o (g \o tail)) = (n \o name) \o (g \o tail)
    BY ONLY ZenonT(40), <2>1, Assoc
  <2>3. QED
    BY <1>5, <2>2 DEF whole, head
<1>7. g \o tail = v \o (value \o tail)
  <2>1. v \in Seq(Byte) /\ value \in Seq(Byte) /\ tail \in Seq(Byte)
    BY <1>1, <1>2
  <2>2. v \o (value \o tail) = (v \o value) \o tail
    BY ONLY ZenonT(40), <2>1, Assoc
  <2>3. QED
    BY <1>3, <2>2
<1> HIDE DEF whole, head
<1>8. Uint16(data) = Len(name)
  BY <1>2, <1>4, <1>5
<1>9. NameEnd(data) = Len(head) /\ LEN_BYTES \in Nat
  BY <1>1, <1>4, <1>8, Numbers DEF NameEnd, LEN_BYTES
<1>10. Take(data, NameEnd(data)) = head /\ rest = g \o tail
  BY ZenonT(40), <1>4, <1>6, <1>9, PartsOfConcat DEF rest
<1>11. NameOf(data) = name
  <2>1. Drop(n \o name, Len(n)) = name
    BY <1>1, <1>2, PartsOfConcat
  <2>2. QED
    BY <1>2, <1>10, <2>1 DEF NameOf, head
<1>12. HasName(data)
  <2>1. Len(data) = Len(head) + Len(g \o tail)
    BY <1>4, <1>6, Lengths
  <2>2. Len(g \o tail) \in Nat /\ Len(name) \in Nat
    BY <1>1, <1>4
  <2>3. QED
    BY <1>4, <1>9, <2>1, <2>2 DEF HasName
<1>13. GobLen(rest) = Len(g)
  <2>1. Uint16(v \o (value \o tail)) = Len(value)
    BY <1>2, <1>4
  <2>2. QED
    BY <1>4, <1>7, <1>10, <2>1 DEF GobLen
<1>14. GobComplete(rest)
  <2>1. Len(rest) = Len(g) + Len(tail) /\ Len(tail) \in Nat /\ Len(value) \in Nat
    BY <1>1, <1>10, Concat
  <2>2. QED
    BY <1>4, <1>9, <1>13, <2>1 DEF GobComplete
<1>15. Take(rest, GobLen(rest)) = g /\ Drop(rest, GobLen(rest)) = tail
  BY <1>1, <1>10, <1>13, PartsOfConcat
<1>16. GobDecode(rest) = value
  <2>1. Drop(v \o value, Len(v)) = value
    BY <1>1, <1>2, PartsOfConcat
  <2>2. QED
    BY <1>2, <1>3, <1>15, <2>1 DEF GobDecode
<1>17. QED
  BY <1>3, <1>11, <1>12, <1>14, <1>15, <1>16 DEF KnownType, rest, name, value

-----------------------------------------------------------------------------
(* The invariant: what is on its way to the reader, with what a cut lost,  *)
(* is the rest of the frames.                                              *)

\* rests[k] is what the frames of s behind the first k make.
Streams(s) ==
  { rests \in [0 .. Len(s) -> Seq(Byte)] :
      /\ rests[Len(s)] = <<>>
      /\ \A k \in 0 .. Len(s) - 1 : rests[k] = Frame(s[k + 1]) \o rests[k + 1] }

\* Bytes of the present ReadFull, bytes buffered, and bytes on the way.
Pending(lost) == got \o (inBuf \o (wire \o lost))

\* Between frames, or behind the length of the next one.
Position(rests, lost) ==
  /\ sender = "open" => lost = <<>>
  /\ rpc = "len" =>
       /\ need = LEN_BYTES
       /\ Pending(lost) = rests[Len(received)]
  /\ rpc = "data" =>
       /\ Len(received) < Len(sent)
       /\ need = Len(Marshal(sent[Len(received) + 1]))
       /\ Pending(lost) = Marshal(sent[Len(received) + 1]) \o rests[Len(received) + 1]

\* The messages written could be framed, and those received are the first of them.
Delivered ==
  /\ \A i \in DOMAIN sent : Buildable(sent[i])
  /\ Len(received) <= Len(sent)
  /\ \A i \in DOMAIN received : received[i] = sent[i]
  /\ rpc # "failed"

FramingInv ==
  /\ TypeOK
  /\ Delivered
  /\ \E rests \in Streams(sent), lost \in Seq(Byte) : Position(rests, lost)

LEMMA Refilled ==
  ASSUME NEW x \in Seq(Byte), NEW k \in 0 .. Len(x), NEW y \in Seq(Byte)
  PROVE  Take(x, k) \o (Drop(x, k) \o y) = x \o y
<1>1. Take(x, k) \in Seq(Byte) /\ Drop(x, k) \in Seq(Byte)
  BY Parts
<1>2. Take(x, k) \o (Drop(x, k) \o y) = (Take(x, k) \o Drop(x, k)) \o y
  <2> DEFINE a == Take(x, k)
             b == Drop(x, k)
  <2>1. a \in Seq(Byte) /\ b \in Seq(Byte) /\ y \in Seq(Byte)
    BY <1>1
  <2> HIDE DEF a, b
  <2>2. a \o (b \o y) = (a \o b) \o y
    BY ONLY ZenonT(40), <2>1, Assoc
  <2>3. QED
    BY <2>2 DEF a, b
<1>3. x = Take(x, k) \o Drop(x, k)
  BY Split
<1>4. QED
  BY ONLY <1>2, <1>3, Zenon

LEMMA Moved ==
  ASSUME NEW g \in Seq(Byte), NEW x \in Seq(Byte), NEW k \in 0 .. Len(x), NEW y \in Seq(Byte)
  PROVE  (g \o Take(x, k)) \o (Drop(x, k) \o y) = g \o (x \o y)
<1> DEFINE a == Take(x, k)
           b == Drop(x, k) \o y
<1>1. a \in Seq(Byte) /\ b \in Seq(Byte) /\ g \in Seq(Byte)
  BY Parts, Concat
<1>2. a \o b = x \o y
  BY Refilled
<1> HIDE DEF a, b
<1>3. g \o (a \o b) = (g \o a) \o b
  BY ONLY ZenonT(40), <1>1, Assoc
<1>4. QED
  BY ONLY <1>2, <1>3, Zenon DEF a, b

-----------------------------------------------------------------------------
(* The steps of the reader that move bytes.                                *)

LEMMA PendingSame ==
  ASSUME FramingInv, TypeOK', UNCHANGED <<out, rpc, need, received>>,
         \A lost \in Seq(Byte) : got' \o (inBuf' \o (wire' \o lost)) = Pending(lost)
  PROVE  FramingInv'
<1>1. PICK rests \in Streams(sent), lost \in Seq(Byte) : Position(rests, lost)
  BY DEF FramingInv
<1>2. Position(rests, lost)'
  BY <1>1 DEF Position, Pending, out
<1>3. Delivered'
  BY DEF FramingInv, Delivered, out
<1>4. sent' = sent
  BY DEF out
<1>5. QED
  BY <1>1, <1>2, <1>3, <1>4 DEF FramingInv

LEMMA FillStep ==
  ASSUME FramingInv, Fill
  PROVE  FramingInv'
<1>1. PICK k \in 1 .. Len(wire) : /\ k <= BufSize /\ inBuf' = Take(wire, k)
                                  /\ wire' = Drop(wire, k)
  BY DEF Fill
<1>2. /\ inBuf = <<>> /\ UNCHANGED <<out, cut, plain, rpc, got, need, received>>
      /\ wire \in Seq(Byte) /\ got \in Seq(Byte) /\ k \in 0 .. Len(wire)
  BY DEF Fill, FramingInv, TypeOK
<1>3. /\ inBuf' \in Seq(Byte) /\ Len(inBuf') = k /\ wire' \in Seq(Byte)
  BY <1>1, <1>2, Parts
<1>4. TypeOK'
  BY <1>1, <1>2, <1>3 DEF FramingInv, TypeOK, out
<1>5. ASSUME NEW lost \in Seq(Byte)
      PROVE  got' \o (inBuf' \o (wire' \o lost)) = Pending(lost)
  <2>1. inBuf' \o (wire' \o lost) = wire \o lost
    BY <1>1, <1>2, Refilled
  <2>2. wire \o lost \in Seq(Byte)
    BY <1>2, Concat
  <2>3. \A s \in Seq(Byte) : <<>> \o s = s
    OBVIOUS
  <2>4. QED
    BY <1>2, <2>1, <2>2, <2>3, Zenon DEF Pending
<1>6. QED
  BY <1>2, <1>4, <1>5, PendingSame

LEMMA ReadConnStep ==
  ASSUME FramingInv, ReadConn
  PROVE  FramingInv'
<1>1. PICK k \in 1 .. Len(wire) : /\ k <= need - Len(got)
                                  /\ got' = got \o Take(wire, k) /\ wire' = Drop(wire, k)
  BY DEF ReadConn
<1>2. /\ inBuf = <<>> /\ UNCHANGED <<out, cut, plain, rpc, need, inBuf, received>>
      /\ wire \in Seq(Byte) /\ got \in Seq(Byte) /\ k \in 0 .. Len(wire)
      /\ need \in Nat
  BY Numbers DEF ReadConn, FramingInv, TypeOK
<1>3. /\ got' \in Seq(Byte) /\ Len(got') = Len(got) + k /\ wire' \in Seq(Byte)
  <2> DEFINE t == Take(wire, k)
  <2>1. t \in Seq(Byte) /\ Len(t) = k /\ Drop(wire, k) \in Seq(Byte)
    BY <1>2, Parts
  <2> HIDE DEF t
  <2>2. got \o t \in Seq(Byte) /\ Len(got \o t) = Len(got) + Len(t)
    BY <1>2, <2>1, Lengths
  <2>3. QED
    BY <1>1, <2>1, <2>2 DEF t
<1>4. Len(got') <= need
  BY <1>1, <1>2, <1>3
<1>5. TypeOK'
  BY <1>2, <1>3, <1>4 DEF FramingInv, TypeOK, out
<1>6. ASSUME NEW lost \in Seq(Byte)
      PROVE  got' \o (inBuf' \o (wire' \o lost)) = Pending(lost)
  <2>1. got' \o (wire' \o lost) = got \o (wire \o lost)
    BY <1>1, <1>2, Moved
  <2>2. wire \o lost \in Seq(Byte) /\ wire' \o lost \in Seq(Byte)
    BY <1>2, <1>3, Concat
  <2>3. \A s \in Seq(Byte) : <<>> \o s = s
    OBVIOUS
  <2>4. QED
    BY <1>2, <2>1, <2>2, <2>3, Zenon DEF Pending
<1>7. QED
  BY <1>2, <1>5, <1>6, PendingSame

LEMMA ReadInBufStep ==
  ASSUME FramingInv, ReadInBuf
  PROVE  FramingInv'
<1> DEFINE k == IF Len(inBuf) < need - Len(got) THEN Len(inBuf) ELSE need - Len(got)
<1>1. got' = got \o Take(inBuf, k) /\ inBuf' = Drop(inBuf, k)
  BY DEF ReadInBuf
<1>2. /\ UNCHANGED <<out, wire, cut, plain, rpc, need, received>>
      /\ wire \in Seq(Byte) /\ got \in Seq(Byte) /\ inBuf \in Seq(Byte)
      /\ need \in Nat /\ Len(got) < need /\ BufSize \in Nat /\ Len(inBuf) <= BufSize
  BY Numbers, SizesAssumption DEF ReadInBuf, Reading, FramingInv, TypeOK
<1>3. k \in 0 .. Len(inBuf) /\ k <= need - Len(got)
  BY <1>2
<1> HIDE DEF k
<1>4. /\ got' \in Seq(Byte) /\ Len(got') = Len(got) + k
      /\ inBuf' \in Seq(Byte) /\ Len(inBuf') = Len(inBuf) - k
  <2> DEFINE t == Take(inBuf, k)
  <2>1. /\ t \in Seq(Byte) /\ Len(t) = k /\ Drop(inBuf, k) \in Seq(Byte)
        /\ Len(Drop(inBuf, k)) = Len(inBuf) - k
    BY <1>2, <1>3, Parts
  <2> HIDE DEF t
  <2>2. got \o t \in Seq(Byte) /\ Len(got \o t) = Len(got) + Len(t)
    BY <1>2, <2>1, Lengths
  <2>3. QED
    BY <1>1, <2>1, <2>2 DEF t
<1>5. Len(got') <= need /\ Len(inBuf') <= BufSize
  BY <1>2, <1>3, <1>4
<1>6. TypeOK'
  BY <1>2, <1>4, <1>5 DEF FramingInv, TypeOK, out
<1>7. ASSUME NEW lost \in Seq(Byte)
      PROVE  got' \o (inBuf' \o (wire' \o lost)) = Pending(lost)
  <2>1. wire \o lost \in Seq(Byte)
    BY <1>2, Concat
  <2>2. (got \o Take(inBuf, k)) \o (Drop(inBuf, k) \o (wire \o lost))
          = got \o (inBuf \o (wire \o lost))
    BY ZenonT(40), <1>2, <1>3, <2>1, Moved
  <2>3. QED
    BY <1>1, <1>2, <2>2, Zenon DEF Pending
<1>8. QED
  BY <1>2, <1>6, <1>7, PendingSame

LEMMA ReadEOFStep ==
  ASSUME FramingInv, ReadEOF
  PROVE  FramingInv'
<1>1. rpc' = "closed" /\ UNCHANGED <<out, wire, cut, plain, got, need, inBuf, received>>
  BY DEF ReadEOF
<1>2. PICK rests \in Streams(sent), lost \in Seq(Byte) : Position(rests, lost)
  BY DEF FramingInv
<1>3. Position(rests, lost)'
  BY <1>1, <1>2 DEF Position, out
<1>4. TypeOK' /\ Delivered' /\ sent' = sent
  BY <1>1 DEF FramingInv, TypeOK, Delivered, out
<1>5. QED
  BY <1>2, <1>3, <1>4 DEF FramingInv

-----------------------------------------------------------------------------
(* The steps of the sender.                                                *)

LEMMA WriteStep ==
  ASSUME FramingInv, NEW msg \in Messages, Write(msg)
  PROVE  FramingInv'
<1> DEFINE f == Frame(msg)
           n == Len(sent)
<1>1. /\ sender = "open" /\ tries < MaxSent /\ Buildable(msg)
      /\ tries' = tries + 1 /\ sent' = Append(sent, msg) /\ wire' = wire \o f
      /\ UNCHANGED <<sender, cut, plain, rpc, got, need, inBuf, received>>
  BY DEF Write, in
<1>2. /\ sent \in Seq(Messages) /\ wire \in Seq(Byte) /\ inBuf \in Seq(Byte) /\ got \in Seq(Byte)
      /\ f \in Seq(Byte) /\ n \in Nat /\ received \in Seq([name : Seq(Byte), value : Seq(Byte)])
      /\ Len(received) \in Nat /\ tries \in Nat /\ MaxSent \in Nat
  <2>1. f \in Seq(Byte)
    BY <1>1, MarshalType
  <2>2. MaxSent \in Nat
    BY SizesAssumption
  <2>3. QED
    BY <2>1, <2>2 DEF FramingInv, TypeOK
<1> HIDE DEF f
<1>3. /\ sent' \in Seq(Messages) /\ Len(sent') = n + 1 /\ sent'[n + 1] = msg
      /\ \A i \in 1 .. n : sent'[i] = sent[i]
  BY <1>1, <1>2
<1>4. wire' \in Seq(Byte)
  BY <1>1, <1>2, Concat
<1>5. TypeOK'
  <2>1. tries' \in 0 .. MaxSent
    BY <1>1, <1>2
  <2>2. QED
    BY <1>1, <1>3, <1>4, <2>1 DEF FramingInv, TypeOK
<1>6. Delivered'
  <2>1. \A i \in 1 .. n + 1 : i \in 1 .. n \/ i = n + 1
    BY <1>2
  <2>2. \A i \in 1 .. n : Buildable(sent[i])
    BY <1>2 DEF FramingInv, Delivered
  <2>3. \A i \in 1 .. n + 1 : Buildable(sent'[i])
    BY <1>1, <1>3, <2>1, <2>2
  <2>4. DOMAIN sent' = 1 .. n + 1
    BY <1>3
  <2>5. Len(received) <= n /\ \A i \in 1 .. Len(received) : received[i] = sent[i]
    BY SMTT(30), <1>2 DEF FramingInv, Delivered
  <2>6. Len(received) <= n + 1 /\ \A i \in 1 .. Len(received) : received[i] = sent'[i]
    BY <1>2, <1>3, <2>5
  <2>7. rpc # "failed" /\ DOMAIN received = 1 .. Len(received)
    BY <1>2 DEF FramingInv, Delivered
  <2>8. QED
    BY <1>1, <1>3, <2>3, <2>4, <2>6, <2>7 DEF Delivered
<1>7. PICK rests \in Streams(sent), lost \in Seq(Byte) : Position(rests, lost)
  BY DEF FramingInv
<1>8. /\ rests \in [0 .. n -> Seq(Byte)] /\ rests[n] = <<>>
      /\ \A k \in 0 .. n - 1 : rests[k] = Frame(sent[k + 1]) \o rests[k + 1]
  BY <1>7 DEF Streams
<1>9. PICK more \in [0 .. n + 1 -> Seq(Byte)] :
         /\ \A k \in 0 .. n : more[k] = rests[k] \o f
         /\ more[n + 1] = <<>>
  <2> DEFINE h == [k \in 0 .. n + 1 |-> IF k <= n THEN rests[k] \o f ELSE <<>>]
  <2>1. <<>> \in Seq(Byte) /\ \A k \in 0 .. n : rests[k] \o f \in Seq(Byte)
    BY SMTT(30), <1>2, <1>8, Lengths
  <2>2. \A k \in 0 .. n + 1 : k \in Nat /\ (k <= n => k \in 0 .. n)
    BY <1>2
  <2>3. h \in [0 .. n + 1 -> Seq(Byte)]
    BY <2>1, <2>2
  <2>4. (\A k \in 0 .. n : h[k] = rests[k] \o f) /\ h[n + 1] = <<>>
    <3>1. n \in Nat
      BY <1>2
    <3> HIDE DEF n
    <3>2. \A k \in 0 .. n : k \in 0 .. n + 1 /\ k <= n
      BY <3>1
    <3>3. n + 1 \in 0 .. n + 1 /\ ~(n + 1 <= n)
      BY <3>1
    <3>4. QED
      BY <3>2, <3>3
  <2> HIDE DEF h
  <2>5. QED
    BY <2>3, <2>4
<1>10. more \in Streams(sent')
  <2>1. more \in [0 .. Len(sent') -> Seq(Byte)]
    BY <1>3
  <2>2. ASSUME NEW k \in 0 .. n - 1
        PROVE  more[k] = Frame(sent'[k + 1]) \o more[k + 1]
    <3> DEFINE g == Frame(sent[k + 1])
               r == rests[k + 1]
    <3>1. k \in 0 .. n /\ k + 1 \in 0 .. n /\ k + 1 \in 1 .. n /\ sent[k + 1] \in Messages
      BY <1>2
    <3>2. g \in Seq(Byte) /\ r \in Seq(Byte) /\ f \in Seq(Byte)
      <4>1. Buildable(sent[k + 1])
        BY <1>2, <3>1 DEF FramingInv, Delivered
      <4>2. g \in Seq(Byte)
        BY <3>1, <4>1, MarshalType
      <4>3. QED
        BY <1>2, <1>8, <3>1, <4>2
    <3>3. rests[k] = g \o r /\ more[k] = rests[k] \o f /\ more[k + 1] = r \o f
          /\ sent'[k + 1] = sent[k + 1]
      BY <1>3, <1>8, <1>9, <3>1
    <3> HIDE DEF g, r
    <3>4. g \o (r \o f) = (g \o r) \o f
      BY ONLY ZenonT(40), <3>2, Assoc
    <3>5. QED
      BY <3>3, <3>4, Zenon DEF g
  <2>3. more[n] = Frame(sent'[n + 1]) \o more[n + 1]
    <3>1. \A s \in Seq(Byte) : s = <<>> \o s /\ s = s \o <<>>
      OBVIOUS
    <3>2. n \in 0 .. n /\ more[n] = <<>> \o f
      <4>1. n \in 0 .. n
        BY <1>2
      <4>2. more[n] = rests[n] \o f
        BY <1>9, <4>1
      <4>3. QED
        BY <1>8, <4>1, <4>2, Zenon
    <3>3. QED
      BY <1>2, <1>3, <1>9, <3>1, <3>2, Zenon DEF f
  <2>4. \A k \in 0 .. n + 1 - 1 : k \in 0 .. n - 1 \/ k = n
    BY <1>2
  <2>5. Len(sent') = n + 1 /\ Len(sent') - 1 = n + 1 - 1 /\ more[Len(sent')] = <<>>
    BY <1>2, <1>3, <1>9
  <2>6. \A k \in 0 .. Len(sent') - 1 : more[k] = Frame(sent'[k + 1]) \o more[k + 1]
    BY <2>2, <2>3, <2>4, <2>5
  <2>7. QED
    BY <2>1, <2>5, <2>6 DEF Streams
<1>11. Pending(lost)' = Pending(lost) \o f /\ Pending(lost) \in Seq(Byte)
  <2>1. lost = <<>>
    BY <1>1, <1>7 DEF Position
  <2>2. \A s \in Seq(Byte) : s \o <<>> = s
    OBVIOUS
  <2>3. wire \o lost = wire /\ wire' \o lost = wire \o f
    BY <1>1, <1>2, <1>4, <2>1, <2>2, Zenon
  <2>4. inBuf \o (wire \o f) = (inBuf \o wire) \o f
    BY ONLY ZenonT(40), <1>2, Assoc
  <2>5. inBuf \o wire \in Seq(Byte) /\ got \o (inBuf \o wire) \in Seq(Byte)
    BY <1>2, Concat
  <2> DEFINE b == inBuf \o wire
  <2>6. got \o (b \o f) = (got \o b) \o f
    <3>1. got \in Seq(Byte) /\ b \in Seq(Byte) /\ f \in Seq(Byte)
      BY <1>2, <2>5
    <3> HIDE DEF b
    <3>2. QED
      BY ONLY ZenonT(40), <3>1, Assoc
  <2>7. QED
    BY <1>1, <2>3, <2>4, <2>5, <2>6, Zenon DEF Pending
<1>12. Position(more, lost)'
  <2> DEFINE m == Len(received)
  <2>1. CASE rpc = "len"
    <3>1. m \in 0 .. n
      BY <1>2 DEF FramingInv, Delivered
    <3>2. Pending(lost) = rests[m]
      BY <1>7, <2>1 DEF Position
    <3>3. Pending(lost)' = more[m]
      BY <1>9, <1>11, <3>1, <3>2
    <3>4. QED
      BY <1>1, <1>7, <2>1, <3>3 DEF Position
  <2>2. CASE rpc = "data"
    <3> DEFINE d == Marshal(sent[m + 1])
               r == rests[m + 1]
    <3>1. m < n /\ need = Len(d) /\ Pending(lost) = d \o r
      BY <1>7, <2>2 DEF Position
    <3>2. m + 1 \in 1 .. n /\ m + 1 \in 0 .. n /\ m < n + 1
      BY <1>2, <3>1
    <3>3. sent[m + 1] \in Messages /\ Buildable(sent[m + 1]) /\ sent'[m + 1] = sent[m + 1]
      <4>1. Buildable(sent[m + 1])
        BY <1>2, <3>2 DEF FramingInv, Delivered
      <4>2. QED
        BY <1>2, <1>3, <3>2, <4>1
    <3>4. d \in Seq(Byte) /\ r \in Seq(Byte) /\ f \in Seq(Byte)
      BY <1>2, <1>8, <3>2, <3>3, MarshalType
    <3>5. more[m + 1] = r \o f
      BY <1>9, <3>2
    <3> HIDE DEF d, r
    <3>6. d \o (r \o f) = (d \o r) \o f
      BY ONLY ZenonT(40), <3>4, Assoc
    <3>7. Pending(lost)' = d \o more[m + 1]
      BY <1>11, <3>1, <3>5, <3>6, Zenon
    <3>8. QED
      BY <1>1, <1>3, <1>7, <2>2, <3>1, <3>2, <3>3, <3>7 DEF Position, d
  <2>3. CASE rpc \notin {"len", "data"}
    BY <1>1, <1>7, <2>3 DEF Position
  <2>4. QED
    BY <2>1, <2>2, <2>3
<1>13. QED
  BY <1>5, <1>6, <1>10, <1>12 DEF FramingInv

LEMMA RefusedStep ==
  ASSUME FramingInv, NEW msg \in Messages, BuildPacketBufErr(msg)
  PROVE  FramingInv'
<1>1. /\ tries' = tries + 1 /\ tries < MaxSent
      /\ UNCHANGED <<sent, sender, wire, cut, plain, rpc, got, need, inBuf, received>>
  BY DEF BuildPacketBufErr, in
<1>2. TypeOK'
  BY <1>1, SizesAssumption DEF FramingInv, TypeOK
<1>3. PICK rests \in Streams(sent), lost \in Seq(Byte) : Position(rests, lost)
  BY DEF FramingInv
<1>4. Position(rests, lost)'
  BY <1>1, <1>3 DEF Position, Pending
<1>5. Delivered' /\ sent' = sent
  BY <1>1 DEF FramingInv, Delivered
<1>6. QED
  BY <1>2, <1>3, <1>4, <1>5 DEF FramingInv

LEMMA CloseSenderStep ==
  ASSUME FramingInv, NEW gone \in 0 .. Len(wire), CloseSender(gone)
  PROVE  FramingInv'
<1> DEFINE k == Len(wire) - gone
<1>1. /\ sender = "open" /\ sender' = "done" /\ wire' = Take(wire, k) /\ cut' = (gone > 0)
      /\ UNCHANGED <<tries, sent, plain, rpc, got, need, inBuf, received>>
  BY DEF CloseSender, in
<1>2. wire \in Seq(Byte) /\ k \in 0 .. Len(wire)
  BY DEF FramingInv, TypeOK
<1> HIDE DEF k
<1>3. wire' \in Seq(Byte) /\ Drop(wire, k) \in Seq(Byte)
  BY <1>1, <1>2, Parts
<1>4. TypeOK'
  BY <1>1, <1>3 DEF FramingInv, TypeOK
<1>5. PICK rests \in Streams(sent), lost \in Seq(Byte) : Position(rests, lost)
  BY DEF FramingInv
<1>6. Drop(wire, k) \o lost \in Seq(Byte) /\ wire' \o (Drop(wire, k) \o lost) = wire \o lost
  BY <1>1, <1>2, <1>3, Concat, Refilled
<1>7. PICK new \in Seq(Byte) : wire' \o new = wire \o lost
  BY <1>6
<1>8. Pending(new)' = Pending(lost)
  BY <1>1, <1>7 DEF Pending
<1>9. Position(rests, new)'
  BY <1>1, <1>5, <1>8 DEF Position
<1>10. Delivered' /\ sent' = sent
  BY <1>1 DEF FramingInv, Delivered
<1>11. QED
  BY <1>4, <1>5, <1>7, <1>9, <1>10 DEF FramingInv

-----------------------------------------------------------------------------
(* The steps of the reader that take a frame apart.                        *)

\* With both bytes of the length there, a frame follows; they are its length,
\* and what is behind them starts with its data.
LEMMA NextFrame ==
  ASSUME FramingInv, HaveLen,
         NEW rests \in Streams(sent), NEW lost \in Seq(Byte), Position(rests, lost)
  PROVE  LET msg == sent[Len(received) + 1] IN
         /\ Len(received) < Len(sent) /\ Len(received) + 1 \in DOMAIN sent
         /\ msg \in Messages /\ Buildable(msg)
         /\ Uint16(got) = Len(Marshal(msg))
         /\ rests[Len(received) + 1] \in Seq(Byte)
         /\ inBuf \o (wire \o lost) = Marshal(msg) \o rests[Len(received) + 1]
<1> DEFINE m == Len(received)
           n == Len(sent)
           msg == sent[m + 1]
           next == rests[m + 1]
           on == inBuf \o (wire \o lost)
<1>1. rpc = "len" /\ Len(got) = LEN_BYTES /\ got \o on = rests[m]
  BY DEF HaveLen, Position, Pending
<1>2. /\ got \in Seq(Byte) /\ inBuf \in Seq(Byte) /\ wire \in Seq(Byte)
      /\ sent \in Seq(Messages) /\ m \in Nat /\ n \in Nat /\ m <= n
  BY DEF FramingInv, TypeOK, Delivered
<1>3. /\ rests \in [0 .. n -> Seq(Byte)] /\ rests[n] = <<>>
      /\ \A k \in 0 .. n - 1 : rests[k] = Frame(sent[k + 1]) \o rests[k + 1]
  BY DEF Streams
<1>4. on \in Seq(Byte)
  BY <1>2, Concat
<1>5. m < n
  <2>1. Len(got \o on) = Len(got) + Len(on) /\ Len(on) \in Nat
    <3> HIDE DEF on
    <3>1. QED
      BY <1>2, <1>4, Lengths
  <2>2. Len(rests[m]) # 0
    <3> HIDE DEF on
    <3>1. QED
      BY <1>1, <2>1 DEF LEN_BYTES
  <2>3. rests[m] # <<>>
    BY <2>2
  <2>4. QED
    BY <1>2, <1>3, <2>3
<1>6. m + 1 \in 1 .. n /\ m + 1 \in 0 .. n /\ m \in 0 .. n - 1
  BY <1>2, <1>5
<1>7. msg \in Messages /\ Buildable(msg) /\ next \in Seq(Byte)
  <2>1. msg \in Messages
    BY <1>2, <1>6
  <2>2. Buildable(msg)
    BY <1>2, <1>6 DEF FramingInv, Delivered
  <2>3. QED
    BY <1>3, <1>6, <2>1, <2>2
<1> DEFINE d == Marshal(msg)
           len == PutUint16(Len(d))
<1>8. d \in Seq(Byte) /\ Len(d) \in 0 .. MaxUint16
  BY <1>7, MarshalType
<1>9. len \in Seq(Byte) /\ Len(len) = LEN_BYTES /\ Uint16(len) = Len(d)
  BY <1>4, <1>8, PutAndGet
<1>10. rests[m] = (len \o d) \o next
  BY <1>3, <1>6 DEF Frame
<1> HIDE DEF len, d, next, on
<1>11. len \o (d \o next) = (len \o d) \o next
  BY ONLY ZenonT(40), <1>7, <1>8, <1>9, Assoc
<1>12. d \o next \in Seq(Byte)
  BY <1>7, <1>8, Concat
<1>13. got \o on = len \o (d \o next)
  BY <1>1, <1>10, <1>11, Zenon
<1>14. got = len /\ on = d \o next
  BY <1>1, <1>2, <1>4, <1>9, <1>12, <1>13, Cancel
<1>15. QED
  BY <1>2, <1>5, <1>6, <1>7, <1>9, <1>14 DEF d, next, on

LEMMA ReadDataStep ==
  ASSUME FramingInv, ReadData
  PROVE  FramingInv'
<1> DEFINE msg == sent[Len(received) + 1]
<1>1. /\ rpc' = "data" /\ got' = <<>> /\ need' = Uint16(got) /\ HaveLen
      /\ UNCHANGED <<out, wire, cut, plain, inBuf, received>>
  BY DEF ReadData
<1>2. PICK rests \in Streams(sent), lost \in Seq(Byte) : Position(rests, lost)
  BY DEF FramingInv
<1>3. /\ Len(received) < Len(sent) /\ msg \in Messages /\ Buildable(msg)
      /\ Uint16(got) = Len(Marshal(msg))
      /\ inBuf \o (wire \o lost) = Marshal(msg) \o rests[Len(received) + 1]
  BY <1>1, <1>2, NextFrame
<1>4. Len(Marshal(msg)) \in 0 .. MaxUint16
  BY <1>3, MarshalType
<1>5. TypeOK'
  <2>1. <<>> \in Seq(Byte) /\ Len(<<>>) = 0 /\ need' \in 0 .. MaxUint16
    BY <1>1, <1>3, <1>4
  <2>2. 0 <= need'
    BY <2>1
  <2>3. QED
    BY <1>1, <2>1, <2>2 DEF FramingInv, TypeOK, out
<1>6. Delivered'
  BY <1>1 DEF FramingInv, Delivered, out
<1>7. Pending(lost)' = Marshal(msg) \o rests[Len(received) + 1]
  <2>1. inBuf \o (wire \o lost) \in Seq(Byte)
    BY Concat DEF FramingInv, TypeOK
  <2>2. \A s \in Seq(Byte) : <<>> \o s = s
    OBVIOUS
  <2>3. QED
    BY <1>1, <1>3, <2>1, <2>2, Zenon DEF Pending
<1>8. sent' = sent /\ sender' = sender
  BY <1>1 DEF out
<1>9. Position(rests, lost)'
  BY <1>1, <1>2, <1>3, <1>7, <1>8 DEF Position
<1>10. QED
  BY <1>2, <1>5, <1>6, <1>8, <1>9 DEF FramingInv

\* The next message is given to readLoop, and the reader stands behind its frame.
LEMMA Returned ==
  ASSUME FramingInv, Len(received) + 1 \in DOMAIN sent,
         Return(sent[Len(received) + 1].name, sent[Len(received) + 1].value),
         UNCHANGED <<out, wire, cut, plain>>,
         inBuf' \in Seq(Byte), Len(inBuf') <= BufSize,
         NEW rests \in Streams(sent), NEW lost \in Seq(Byte),
         sender = "open" => lost = <<>>,
         inBuf' \o (wire \o lost) = rests[Len(received) + 1]
  PROVE  FramingInv'
<1> DEFINE m == Len(received)
           msg == sent[m + 1]
<1>1. /\ received' = Append(received, [name |-> msg.name, value |-> msg.value])
      /\ rpc' = "len" /\ got' = <<>> /\ need' = LEN_BYTES
  BY DEF Return
<1>2. /\ received \in Seq([name : Seq(Byte), value : Seq(Byte)]) /\ m \in Nat /\ m + 1 <= Len(sent)
      /\ sent \in Seq(Messages) /\ wire \in Seq(Byte)
  BY DEF FramingInv, TypeOK
<1>3. msg \in Messages /\ msg = [name |-> msg.name, value |-> msg.value]
      /\ msg \in [name : Seq(Byte), value : Seq(Byte)]
  <2>1. msg \in Messages
    BY <1>2
  <2>2. msg \in [name : Seq(Byte), value : Seq(Byte)]
    BY <2>1, MessagesAssumption
  <2>3. QED
    BY <2>1, <2>2
<1>4. received' = Append(received, msg)
  BY <1>1, <1>3
<1> HIDE DEF msg
<1>5. /\ received' \in Seq([name : Seq(Byte), value : Seq(Byte)])
      /\ Len(received') = m + 1 /\ received'[m + 1] = msg
      /\ \A i \in 1 .. m : received'[i] = received[i]
  BY <1>2, <1>3, <1>4
<1>6. TypeOK'
  <2>1. <<>> \in Seq(Byte) /\ Len(<<>>) = 0 /\ LEN_BYTES \in 0 .. MaxUint16 /\ 0 <= LEN_BYTES
    BY Numbers DEF LEN_BYTES
  <2>2. QED
    BY <1>1, <1>5, <2>1 DEF FramingInv, TypeOK, out
<1>7. Delivered'
  <2>1. \A i \in 1 .. m : received[i] = sent[i]
    BY SMTT(30), <1>2 DEF FramingInv, Delivered
  <2>2. \A i \in 1 .. m + 1 : i \in 1 .. m \/ i = m + 1
    BY <1>2
  <2>3. \A i \in 1 .. m + 1 : received'[i] = sent[i]
    BY <1>5, <2>1, <2>2 DEF msg
  <2>4. DOMAIN received' = 1 .. m + 1
    BY <1>5
  <2>5. \A i \in DOMAIN sent : Buildable(sent[i])
    BY DEF FramingInv, Delivered
  <2>6. QED
    BY <1>1, <1>2, <1>5, <2>3, <2>4, <2>5 DEF Delivered, out
<1>8. Pending(lost)' = rests[m + 1]
  <2>1. inBuf' \o (wire \o lost) \in Seq(Byte)
    BY <1>2, Concat
  <2>2. \A s \in Seq(Byte) : <<>> \o s = s
    OBVIOUS
  <2>3. QED
    BY <1>1, <2>1, <2>2, Zenon DEF Pending
<1>9. sent' = sent /\ sender' = sender
  BY DEF out
<1>10. Position(rests, lost)'
  BY <1>1, <1>5, <1>8, <1>9 DEF Position
<1>11. QED
  BY <1>6, <1>7, <1>9, <1>10 DEF FramingInv

LEMMA UnmarshalStep ==
  ASSUME FramingInv, Unmarshal
  PROVE  FramingInv'
<1> DEFINE m == Len(received)
           msg == sent[m + 1]
           d == Marshal(msg)
           rest == Drop(got, NameEnd(got))
<1>1. PICK rests \in Streams(sent), lost \in Seq(Byte) : Position(rests, lost)
  BY DEF FramingInv
<1>2. /\ rpc = "data" /\ Len(got) = need /\ UNCHANGED <<out, wire, cut, plain, inBuf>>
  BY DEF Unmarshal
<1>3. /\ m < Len(sent) /\ need = Len(d) /\ (sender = "open" => lost = <<>>)
      /\ got \o (inBuf \o (wire \o lost)) = d \o rests[m + 1]
  BY <1>1, <1>2 DEF Position, Pending
<1>4. /\ got \in Seq(Byte) /\ inBuf \in Seq(Byte) /\ wire \in Seq(Byte) /\ Len(inBuf) <= BufSize
      /\ sent \in Seq(Messages) /\ m \in Nat /\ Len(sent) \in Nat
  BY DEF FramingInv, TypeOK
<1>5. m + 1 \in DOMAIN sent /\ m + 1 \in 0 .. Len(sent)
  BY <1>3, <1>4
<1>6. msg \in Messages /\ Buildable(msg) /\ rests[m + 1] \in Seq(Byte)
  <2>1. msg \in Messages
    BY <1>4, <1>5
  <2>2. Buildable(msg)
    BY <1>5 DEF FramingInv, Delivered
  <2>3. rests \in [0 .. Len(sent) -> Seq(Byte)]
    BY DEF Streams
  <2>4. QED
    BY <1>5, <2>1, <2>2, <2>3
<1>7. d \in Seq(Byte)
  BY <1>6, MarshalType
<1> DEFINE on == inBuf \o (wire \o lost)
<1>8. on \in Seq(Byte)
  BY <1>4, Concat
<1> HIDE DEF on, d
<1>9. got = d /\ on = rests[m + 1]
  <2> DEFINE r == rests[m + 1]
  <2>1. /\ got \in Seq(Byte) /\ on \in Seq(Byte) /\ d \in Seq(Byte) /\ r \in Seq(Byte)
        /\ got \o on = d \o r /\ Len(got) = Len(d)
    BY <1>2, <1>3, <1>4, <1>6, <1>7, <1>8 DEF on
  <2> HIDE DEF r
  <2>2. got = d /\ on = r
    BY ONLY <2>1, Cancel
  <2>3. QED
    BY <2>2 DEF r
<1>10. /\ KnownType(got) /\ NameOf(got) = msg.name
       /\ GobComplete(rest) /\ GobDecode(rest) = msg.value
  <2>1. d = d \o <<>> /\ <<>> \in Seq(Byte)
    BY <1>7
  <2>2. got = Marshal(msg) \o <<>>
    BY <1>9, <2>1 DEF d
  <2> HIDE DEF msg
  <2>3. QED
    BY <1>4, <1>6, <2>1, <2>2, Parse
<1>11. Return(msg.name, msg.value)
  BY <1>10 DEF Unmarshal
<1>12. inBuf' \o (wire \o lost) = rests[m + 1] /\ inBuf' \in Seq(Byte) /\ Len(inBuf') <= BufSize
  BY <1>2, <1>4, <1>9 DEF on
<1>13. QED
  BY <1>2, <1>3, <1>5, <1>11, <1>12, Returned

LEMMA DecodeInBufStep ==
  ASSUME FramingInv, DecodeInBuf
  PROVE  FramingInv'
<1> DEFINE m == Len(received)
           msg == sent[m + 1]
           d == Marshal(msg)
           rest == Drop(inBuf, NameEnd(inBuf))
           tail == Drop(inBuf, Len(d))
<1>1. PICK rests \in Streams(sent), lost \in Seq(Byte) : Position(rests, lost)
  BY DEF FramingInv
<1>2. /\ HaveLen /\ Len(inBuf) >= Uint16(got) /\ UNCHANGED <<out, wire, cut, plain>>
  BY DEF DecodeInBuf
<1>3. /\ msg \in Messages /\ Buildable(msg) /\ Uint16(got) = Len(d) /\ m + 1 \in DOMAIN sent
      /\ rests[m + 1] \in Seq(Byte)
      /\ inBuf \o (wire \o lost) = d \o rests[m + 1]
  BY <1>1, <1>2, NextFrame
<1>4. /\ inBuf \in Seq(Byte) /\ wire \in Seq(Byte) /\ Len(inBuf) <= BufSize /\ BufSize \in Nat
  BY SizesAssumption DEF FramingInv, TypeOK
<1>5. d \in Seq(Byte)
  BY <1>3, MarshalType
<1>6. wire \o lost \in Seq(Byte)
  BY <1>4, Concat
<1>7. Len(inBuf) >= Len(d)
  BY <1>2, <1>3
<1>8. inBuf = d \o tail /\ tail \o (wire \o lost) = rests[m + 1]
  <2> DEFINE w == wire \o lost
             r == rests[m + 1]
  <2>1. /\ inBuf \in Seq(Byte) /\ w \in Seq(Byte) /\ d \in Seq(Byte) /\ r \in Seq(Byte)
        /\ inBuf \o w = d \o r /\ Len(inBuf) >= Len(d)
    BY <1>3, <1>4, <1>5, <1>6, <1>7
  <2> HIDE DEF d, w, r
  <2>2. inBuf = d \o Drop(inBuf, Len(d)) /\ Drop(inBuf, Len(d)) \o w = r
    BY ONLY <2>1, Overlap
  <2>3. QED
    BY <2>2 DEF w, r
<1>9. tail \in Seq(Byte) /\ Len(tail) <= BufSize
  <2>1. Len(d) \in 0 .. Len(inBuf)
    BY <1>4, <1>5, <1>7
  <2> HIDE DEF d, msg
  <2>2. Len(tail) = Len(inBuf) - Len(d) /\ tail \in Seq(Byte)
    BY <1>4, <2>1, Parts
  <2>3. QED
    BY <1>4, <2>1, <2>2
<1>10. /\ KnownType(inBuf) /\ NameOf(inBuf) = msg.name
       /\ GobComplete(rest) /\ GobDecode(rest) = msg.value /\ Drop(rest, GobLen(rest)) = tail
  <2>1. tail \in Seq(Byte) /\ inBuf = Marshal(msg) \o tail
    BY <1>8, <1>9
  <2> HIDE DEF msg, tail
  <2>2. QED
    BY <1>3, <1>4, <2>1, Parse
<1>11. Return(msg.name, msg.value) /\ inBuf' = tail
  BY <1>10 DEF DecodeInBuf
<1>12. sender = "open" => lost = <<>>
  BY <1>1 DEF Position
<1>13. inBuf' \o (wire \o lost) = rests[m + 1] /\ inBuf' \in Seq(Byte) /\ Len(inBuf') <= BufSize
  BY <1>8, <1>9, <1>11
<1>14. QED
  BY <1>2, <1>3, <1>11, <1>12, <1>13, Returned

-----------------------------------------------------------------------------
(* The properties.                                                         *)

LEMMA FramingInvariance == Spec => []FramingInv
<1>1. Init => FramingInv
  <2> SUFFICES ASSUME Init
               PROVE  FramingInv
    OBVIOUS
  <2>1. TypeOK
    <3>1. <<>> \in Seq(Byte) /\ Len(<<>>) = 0 /\ LEN_BYTES \in 0 .. MaxUint16 /\ 0 <= LEN_BYTES
      BY Numbers DEF LEN_BYTES
    <3>2. 0 \in 0 .. MaxSent /\ 0 <= BufSize
      BY SizesAssumption
    <3>3. <<>> \in Seq(Messages) /\ <<>> \in Seq([name : Seq(Byte), value : Seq(Byte)])
      OBVIOUS
    <3>4. QED
      BY <3>1, <3>2, <3>3 DEF Init, TypeOK
  <2>2. Delivered
    BY DEF Init, Delivered
  <2> DEFINE rests == [k \in 0 .. 0 |-> <<>>]
  <2>3. rests \in Streams(sent)
    <3>1. Len(sent) = 0 /\ <<>> \in Seq(Byte)
      BY DEF Init
    <3>2. rests \in [0 .. Len(sent) -> Seq(Byte)] /\ rests[Len(sent)] = <<>>
          /\ 0 .. Len(sent) - 1 = {}
      BY <3>1
    <3> HIDE DEF rests
    <3>3. QED
      BY <3>2 DEF Streams
  <2>4. Position(rests, <<>>)
    <3>1. <<>> \o (<<>> \o (<<>> \o <<>>)) = <<>>
      OBVIOUS
    <3>2. QED
      BY <3>1 DEF Init, Position, Pending
  <2> HIDE DEF rests
  <2>5. <<>> \in Seq(Byte)
    OBVIOUS
  <2>6. QED
    BY <2>1, <2>2, <2>3, <2>4, <2>5 DEF FramingInv
<1>2. FramingInv /\ [Next]_vars => FramingInv'
  <2> SUFFICES ASSUME FramingInv, [Next]_vars
               PROVE  FramingInv'
    OBVIOUS
  <2>1. CASE Send
    BY <2>1, WriteStep, RefusedStep DEF Send
  <2>2. CASE \E gone \in 0 .. Len(wire) : CloseSender(gone)
    BY <2>2, CloseSenderStep
  <2>3. CASE Read
    BY <2>3, FillStep, ReadConnStep, ReadInBufStep, ReadEOFStep, ReadDataStep, UnmarshalStep,
       DecodeInBufStep DEF Read
  <2>4. CASE UNCHANGED vars
    <3>1. TypeOK' /\ UNCHANGED <<out, rpc, need, received, got, inBuf, wire>>
      BY <2>4 DEF vars, out, in, FramingInv, TypeOK
    <3>2. QED
      BY <3>1, PendingSame DEF Pending
  <2>5. QED
    BY <2>1, <2>2, <2>3, <2>4 DEF Next
<1>3. QED
  BY <1>1, <1>2, PTL DEF Spec

\* The buffer never holds more than its size, and ReadFull never reads more
\* than it was asked for, of a length that 16 bits hold (tcp_parser.go:28, 91).
THEOREM FramingTypeCorrect == Spec => []TypeOK
<1>1. FramingInv => TypeOK
  BY DEF FramingInv
<1>2. QED
  BY <1>1, FramingInvariance, PTL

\* readLoop is given the messages that were written, whole and in order, however
\* the stream is cut into pieces (tcp_parser.go:28-133, gob.go:108-168).
THEOREM ReceivedInOrderAlways == Spec => []ReceivedInOrder
<1>1. FramingInv => ReceivedInOrder
  BY DEF FramingInv, TypeOK, Delivered, ReceivedInOrder, IsPrefix
<1>2. QED
  BY <1>1, FramingInvariance, PTL

\* The reader refuses nothing that the writers of this code made: no type is
\* unknown, no Peek asks for more than is buffered and no sum wraps
\* (tcp_parser.go:115-131, gob.go:131-147).
THEOREM ReaderAcceptsAlways == Spec => []ReaderAccepts
<1>1. FramingInv => ReaderAccepts
  BY DEF FramingInv, Delivered, ReaderAccepts
<1>2. QED
  BY <1>1, FramingInvariance, PTL

===============================================================================
