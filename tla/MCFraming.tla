------------------------------ MODULE MCFraming ------------------------------
(* Small instances of Framing: bytes are 0 to 3, so a length is below 16.   *)
EXTENDS Framing

MCRegistered == {<<1>>, <<2, 3>>, [i \in 1 .. 14 |-> 1]}

Msg(name, size) == [name |-> name, value |-> [i \in 1 .. size |-> 1 + (i % 3)]]

\* Data of 5, 7 and 15 bytes (the most there can be); of 16; a name of 14
\* bytes, to which adding LEN_BYTES would wrap; an unregistered type.
MCMessages ==
  { Msg(<<1>>, 0), Msg(<<2, 3>>, 1), Msg(<<1>>, 10),
    Msg(<<1>>, 11), Msg([i \in 1 .. 14 |-> 1], 0), Msg(<<3>>, 0) }
==============================================================================
