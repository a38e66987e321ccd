-------------------------------- MODULE Wire --------------------------------
(***************************************************************************)
(* The frames on a connection: Socket.write and Socket.read of             *)
(* server/net.py, and those of src/lib/net/Socket.cpp, which agree with    *)
(* them.  A message has a header, a dictionary of texts, and a payload.    *)
(* A text is a sequence of bytes.                                          *)
(***************************************************************************)
EXTENDS Integers, Sequences, FiniteSets
LOCAL INSTANCE SequencesExt

CONSTANTS
  Base,        \* the values of a byte: 256
  Texts,       \* keys and values of headers
  Payloads,
  MaxFields    \* bound: fields of a header

Byte == 0..Base - 1
ASSUME WireAssumption ==
  Base > 1 /\ MaxFields \in Nat /\ Texts \cup Payloads \subseteq Seq(Byte)

Headers == UNION {[D -> Texts] : D \in {S \in SUBSET Texts : Cardinality(S) <= MaxFields}}
Messages == [header : Headers, payload : Payloads]
\* A dictionary is written in the order its keys were set, a C++ map in that of the keys.
Orders(m) == SetToSeqs(DOMAIN m.header)
-----------------------------------------------------------------------------
(* Writing.  The length of a text takes one byte, that of the whole four. *)

LengthBytes == 4
Field(s) == <<Len(s) % Base>> \o s
Content(m, keys) ==
  FlattenSeq([k \in 1..Len(keys) |-> Field(keys[k]) \o Field(m.header[keys[k]])])
    \o <<0>> \o m.payload
Mut_CanWrite(m, c) == \A key \in DOMAIN m.header : Len(key) < Base /\ Len(m.header[key]) < Base
CanWrite(m, c) ==
  /\ \A key \in DOMAIN m.header : key # <<>> /\ Len(key) < Base /\ Len(m.header[key]) < Base
  /\ Len(c) < Base ^ LengthBytes
Digits(n) == [k \in 1..LengthBytes |-> (n \div Base ^ (LengthBytes - k)) % Base]

\* A message that cannot be packed raises before a byte of it is sent.
Written(m, keys) ==
  LET c == Content(m, keys) IN IF CanWrite(m, c) THEN Digits(Len(c)) \o c ELSE <<>>
-----------------------------------------------------------------------------
(* Reading.  recv may return less than it is asked for; the loop of line 49 goes on *)
(* until the content is complete, so that pieces do not show.                       *)

Malformed == [header |-> <<>>, payload |-> <<>>, ok |-> FALSE]
Number(d) == d[1] * Base ^ 3 + d[2] * Base ^ 2 + d[3] * Base + d[4]
TextAt(c, i) == SubSeq(c, i + 1, i + c[i])                 \* the text whose length is at i
After(c, i) == i + 1 + c[i]

\* The loop of lines 58-65, from position i with the fields read so far.
Parse(c) ==
  LET Fields[i \in 1..Len(c)] ==
        IF c[i] = 0 THEN [header |-> <<>>, payload |-> SubSeq(c, i + 1, Len(c)), ok |-> TRUE]
        ELSE LET j == After(c, i) IN
          IF j > Len(c) \/ After(c, j) > Len(c) THEN Malformed
          ELSE LET rest == Fields[After(c, j)]
                   keys == {TextAt(c, i)} \cup DOMAIN rest.header IN
               [rest EXCEPT !.header =
                 [key \in keys |-> IF key \in DOMAIN rest.header THEN rest.header[key]
                                   ELSE TextAt(c, j)]]
  IN IF c = <<>> THEN Malformed ELSE Fields[1]

\* What is read from a stream, message by message; a header that ends too early raises.
Received(stream) ==
  LET From[i \in 1..Len(stream) + 1] ==
        IF i + LengthBytes > Len(stream) THEN <<>>
        ELSE LET start == i + LengthBytes
                 end == start + Number(SubSeq(stream, i, start - 1)) IN
             IF end > Len(stream) + 1 THEN <<>>
             ELSE <<Parse(SubSeq(stream, start, end - 1))>> \o From[end]
  IN From[1]
-----------------------------------------------------------------------------
Complete(m) == [header |-> m.header, payload |-> m.payload, ok |-> TRUE]
Sendable(m, keys) == IF CanWrite(m, Content(m, keys)) THEN <<Complete(m)>> ELSE <<>>

\* Two messages written one after the other, in any order of their fields, are read
\* as they were, and nothing else is; one that cannot be written, because a text is
\* too long for its byte, a key is empty or the whole is too long (net.py:73-81),
\* leaves the stream as it was.  A length that is wrong by one, or a text that passes
\* for the end of the header, would show in the second.  Here are the exceptions.
Misread ==
  {<<m, n>> \in Messages \X {x \in Messages : Cardinality(DOMAIN x.header) = 1} :
    \E a \in Orders(m), b \in Orders(n) :
      Received(Written(m, a) \o Written(n, b)) # Sendable(m, a) \o Sendable(n, b)}
=============================================================================
