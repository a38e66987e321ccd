---------------------------- MODULE MCLifecycle ----------------------------
(* Small casts of clients, solver processes and lemma servers, and messages of a few *)
(* bytes, for TLC.                                                                   *)
EXTENDS Lifecycle, Wire
CONSTANTS c1, c2, p1, p2, l1, l2

\* Who comes, and what c1 and c2 send.
Scene(S, a, b) ==
  [come |-> S, says |-> [c \in Client |-> IF c = c1 THEN a ELSE b], log |-> FALSE]
Logged(s) == [s EXCEPT !.log = TRUE]
Casts ==
  { Scene({c1, p1, p2}, <<"f", "g">>, <<>>),           \* a second instance
    Scene({c1, p2, l1}, <<"f", "g">>, <<>>),           \* and its lemma server
    Scene({c1, p1, p2, l1}, <<"f">>, <<>>),
    Scene({c1, p1, l1, l2}, <<"f">>, <<>>),            \* the lemma server is replaced
    Scene({c1, c2, p1, p2}, <<"f">>, <<"eval">>),
    Scene({c1, c2, p1}, <<"f">>, <<"terminate">>),
    Scene({c1, p2}, <<"h", "h">>, <<>>),               \* two files of one name
    Logged(Scene({c1, p1, p2}, <<"f">>, <<>>)) }

\* With Base 3 a text of three bytes is too long, and a payload of 80 makes any message so.
SmallTexts == {<<>>, <<0>>, <<1, 2>>, <<2, 0, 1>>}
SmallPayloads == {<<>>, <<0, 1>>, [k \in 1..80 |-> 1]}

\* On the sockets that the server serves, messages are read as they were written, one
\* after the other, and what cannot be written leaves nothing behind (net.py:43-84):
\* that is why a message of Lifecycle arrives whole or not at all.
FramesRead == Sockets # {} => Misread = {}
=============================================================================
