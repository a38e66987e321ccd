------------------------------ MODULE MCMoves ------------------------------
(* One process at a time, two instances; as fixedpoint instances, the programs of at *)
(* most two rules over two relations, and some with longer derivations or whose     *)
(* names collide with those of the parts.                                           *)
EXTENDS Display, Text, TLC
CONSTANTS s1, i1, i2

q == <<"q">>
q0 == <<"q", 0>>
r == <<"r">>
x == <<"x">>
Rule(f, b, h) == [form |-> f, body |-> b, head |-> h]
Fact(h) == Rule("fact", {}, h)
Rules == {Rule(f, b, h) : f \in {"=>", "let"}, b \in {{}, {q}, {r}}, h \in {q, r}}
           \cup {Fact(h) : h \in {q, r}}
Program(d, rs) == [declared |-> d, query |-> q, rules |-> rs]
SmallPrograms ==
  {Program({q, r}, rs) : rs \in UNION {[1..n -> Rules] : n \in 1..2}}
    \cup {Program({q, r, x}, <<Fact(h), Rule("let", {r}, q), Rule("=>", {q}, x), Rule("=>", {x}, q)>>) :
            h \in {r, x}}
    \cup {Program({q, q0, r}, <<Rule("=>", {r}, q), Fact(h)>>) : h \in {q0, r}}
    \cup {Program({}, <<>>)}
Renamed == Permutations(Instance)

\* The text of a fixedpoint instance becomes the JSON of its items, and back
\* (utils.py:155-209, framework.py:245, 279): that is why Fixedpoint may begin with rules.
JsonMeansText == kind.type = "fixedpoint" => Misconverted = {}
=============================================================================
