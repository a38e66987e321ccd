----------------------------- MODULE Fixedpoint -----------------------------
(***************************************************************************)
(* The partition of a fixedpoint instance (Fixedpoint in                   *)
(* server/framework.py).  A program declares relations and has a sequence  *)
(* of rules; its query asks whether a relation can be derived.  A rule is  *)
(* an implication, an implication below let, or a fact without one.  The   *)
(* name of a relation is the sequence of a base and numbers, as the code   *)
(* makes names by appending a number.                                      *)
(***************************************************************************)
EXTENDS Integers, Sequences, FiniteSets

IsRule(r) ==
  /\ r = [form |-> r.form, body |-> r.body, head |-> r.head]
  /\ r.form \in {"=>", "let", "fact"}
IsProgram(p) == Len(p.rules) \in Nat /\ \A k \in 1..Len(p.rules) : IsRule(p.rules[k])

\* What a program derives: the least set closed under its rules.
Used(p) == UNION {{p.rules[k].head} \cup p.rules[k].body : k \in 1..Len(p.rules)}
Closed(p, S) == \A k \in 1..Len(p.rules) : p.rules[k].body \subseteq S => p.rules[k].head \in S
Derived(p) == {r \in Used(p) : \A S \in SUBSET Used(p) : Closed(p, S) => r \in S}

\* The rules that the loop of lines 260-271 finds, and their new heads.
Mut_Splits(p, rule) == rule.form = "=>" /\ rule.head = p.query
Splits(p, rule) == rule.form \in {"=>", "let"} /\ rule.head = p.query
Split(p) == {k \in 1..Len(p.rules) : Splits(p, p.rules[k])}
Nth(p, k) == Cardinality({j \in Split(p) : j < k})
Part(p, k) == Append(p.query, Nth(p, k))

\* All parts share one program, the text of the OR node; each asks for its own head.
Queries(p) == {Part(p, k) : k \in Split(p)}
Partitioned(p) ==
  [declared |-> p.declared \cup IF p.declared = {} THEN {} ELSE Queries(p),
   rules |-> [k \in 1..Len(p.rules) |->
     IF k \in Split(p) THEN [p.rules[k] EXCEPT !.head = Part(p, k)] ELSE p.rules[k]]]
=============================================================================
