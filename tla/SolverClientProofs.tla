------------------------- MODULE SolverClientProofs -------------------------
(***************************************************************************)
(* Proofs about the threads of a solver process: the types, the assertion  *)
(* that GotVerdict states, and that the threads implement the process the  *)
(* server counts on (Client.tla), for every number of nodes, pull workers, *)
(* commands and pulls.                                                     *)
(*                                                                         *)
(* Two facts carry the proof.  The orders on their way (on the wire, in    *)
(* the queue, in the hand of the communicator) form one queue: the server  *)
(* adds at its end, the listener passes orders on inside it, and the       *)
(* communicator takes from its front; the lemmas Flow... say so for each   *)
(* action and for any set of orders.  And on this route each request for   *)
(* parts is about the node that the move before it leads to, so that the   *)
(* communicator forks a partitioner for the node it works on (Route).      *)
(*                                                                         *)
(* Only and Path are recursive functions: what they compute is proved from *)
(* a least counterexample.                                                 *)
(***************************************************************************)
EXTENDS SolverClientProps, TLAPS, SequenceTheorems, WellFoundedInduction

\* A process that was not told to solve does nothing yet.
Begun ==
  /\ ~seed => /\ comm = "off" /\ pos = None /\ header = None /\ events = <<>> /\ future = "none"
              /\ ~shouldStop /\ ~answered /\ ~decided /\ partitioner = "none"
  /\ Up /\ seed => comm # "off"
  /\ comm # "off" => Up /\ seed /\ pos \in Node /\ header = pos
  /\ \A p \in Puller : pull[p] # None => header \in Node
  /\ comm \in {"stop", "join", "execute"} => event \in Event

\* Until it handles an event, the communicator does not ask the search to stop.
Unstopped == comm \in {"wait", "get"} => ~shouldStop /\ future # "unknown"

\* The result of the search, and whether it was reported.
Results ==
  /\ future \in Verdict => decided /\ ~answered /\ future = Truth(pos)
  /\ future \in {"running", "unknown"} => ~decided /\ ~answered
  /\ future = "none" => decided = answered
  /\ comm = "execute" => future = "none"

PartsOfPos == partitioner = "running" => splits = pos /\ pos \in Node

\* Each request for parts is about the node that the process is sent to before it.
Moves == [op : {"SOLVE", "INCREMENTAL", "PARTITION"}, node : Node]
Follows(Q, p, begun, h) ==
  /\ \A i \in 1..Len(Q) : /\ Q[i].op = "PARTITION" => Q[i].node = IF i = 1 THEN p ELSE Q[i - 1].node
                          /\ Q[i].op = "SOLVE" <=> i = 1 /\ ~begun
  /\ h = IF Q = <<>> THEN p ELSE Q[Len(Q)].node
Route == Follows(OnTheWay(Moves), pos, seed, heading)

IInv == TypeOK /\ Begun /\ Unstopped /\ Results /\ PartsOfPos /\ (Up => Route)

-----------------------------------------------------------------------------
(* The selected elements of a queue. *)

\* Every set of numbers has a least one: the proofs about the recursive functions
\* take the least counterexample.
LEMMA LeastNat ==
  ASSUME NEW T, T \subseteq Nat, T # {}
  PROVE  \E x \in T : \A y \in T : x <= y
<1>1. PICK x \in T : \A y \in T : <<y, x>> \notin OpToRel(<, Nat)
  BY NatLessThanWellFounded, WFMin
<1>2. \A y \in T : ~(y < x) BY <1>1 DEF OpToRel
<1> QED BY <1>2

\* f selects the elements of M of s, up to the nth.
Selects(f, M, s, n) ==
  f = [i \in 0..n |-> IF i = 0 THEN <<>> ELSE IF s[i] \in M THEN Append(f[i - 1], s[i]) ELSE f[i - 1]]

\* There is such a function.
LEMMA SelectsExists ==
  ASSUME NEW M, NEW s
  PROVE  \A n \in Nat : \E f : Selects(f, M, s, n)
<1> SUFFICES ASSUME NEW T, T = {n \in Nat : ~\E f : Selects(f, M, s, n)}, T # {} PROVE FALSE
  OBVIOUS
<1>1. PICK n \in T : \A y \in T : n <= y BY LeastNat
<1>2. n \in Nat /\ ~\E f : Selects(f, M, s, n) BY <1>1
<1>3. CASE n = 0
  <2> DEFINE f == [i \in 0..0 |-> <<>>]
  <2>1. \A i \in 0..0 : f[i] = IF i = 0 THEN <<>> ELSE IF s[i] \in M THEN Append(f[i - 1], s[i]) ELSE f[i - 1]
    OBVIOUS
  <2>2. f = [i \in 0..0 |-> IF i = 0 THEN <<>> ELSE IF s[i] \in M THEN Append(f[i - 1], s[i]) ELSE f[i - 1]]
    BY <2>1
  <2>3. Selects(f, M, s, 0)
    <3> HIDE DEF f
    <3> QED BY <2>2 DEF Selects
  <2> QED BY <1>2, <1>3, <2>3
<1>4. CASE n # 0
  <2>1. n - 1 \in Nat /\ n - 1 \notin T BY <1>1, <1>2, <1>4
  <2>2. PICK f : Selects(f, M, s, n - 1) BY <2>1
  <2> DEFINE g == [i \in 0..n |-> IF i = n THEN IF s[n] \in M THEN Append(f[n - 1], s[n]) ELSE f[n - 1] ELSE f[i]]
  <2>3. \A i \in 0..n : g[i] = IF i = 0 THEN <<>> ELSE IF s[i] \in M THEN Append(g[i - 1], s[i]) ELSE g[i - 1]
    <3> SUFFICES ASSUME NEW i \in 0..n
                 PROVE g[i] = IF i = 0 THEN <<>> ELSE IF s[i] \in M THEN Append(g[i - 1], s[i]) ELSE g[i - 1]
      OBVIOUS
    <3>1. i # 0 => g[i - 1] = f[i - 1] BY <1>2
    <3>2. CASE i = n BY <1>4, <3>1, <3>2
    <3>3. CASE i # n
      <4>1. i \in 0..(n - 1) BY <1>2, <3>3
      <4>2. f[i] = IF i = 0 THEN <<>> ELSE IF s[i] \in M THEN Append(f[i - 1], s[i]) ELSE f[i - 1]
        BY <2>2, <4>1 DEF Selects
      <4> QED BY <3>1, <3>3, <4>2
    <3> QED BY <3>2, <3>3
  <2>4. g = [i \in 0..n |-> g[i]] OBVIOUS
  <2>5. Selects(g, M, s, n)
    <3> HIDE DEF g
    <3> QED BY <2>3, <2>4 DEF Selects
  <2> QED BY <1>2, <2>5
<1> QED BY <1>3, <1>4

\* Only is its last value.
LEMMA OnlyIs ==
  ASSUME NEW M, NEW s, Len(s) \in Nat
  PROVE  \E f : Selects(f, M, s, Len(s)) /\ Only(M, s) = f[Len(s)]
<1> DEFINE F(f) == [i \in 0..Len(s) |-> IF i = 0 THEN <<>>
                                      ELSE IF s[i] \in M THEN Append(f[i - 1], s[i]) ELSE f[i - 1]]
           f == CHOOSE f : f = F(f)
<1>1. \E g : g = F(g)
  <2>1. PICK g : Selects(g, M, s, Len(s)) BY SelectsExists
  <2>2. g = F(g) BY <2>1, Zenon DEF Selects
  <2> HIDE DEF F
  <2> QED BY <2>2
<1>2. f = F(f) BY <1>1, Zenon
<1>3. Only(M, s) = f[Len(s)] BY Zenon DEF Only
<1> QED BY <1>2, <1>3, Zenon DEF Selects

\* Its values one by one.
LEMMA SelectsSteps ==
  ASSUME NEW f, NEW M, NEW s, NEW n \in Nat, Selects(f, M, s, n)
  PROVE  /\ f[0] = <<>>
         /\ \A i \in 0..n : i + 1 \in 0..n =>
              f[i + 1] = IF s[i + 1] \in M THEN Append(f[i], s[i + 1]) ELSE f[i]
<1>1. \A i \in 0..n : f[i] = IF i = 0 THEN <<>> ELSE IF s[i] \in M THEN Append(f[i - 1], s[i]) ELSE f[i - 1]
  BY DEF Selects
<1>2. f[0] = <<>> BY <1>1
<1>3. ASSUME NEW i \in 0..n, i + 1 \in 0..n
      PROVE  f[i + 1] = IF s[i + 1] \in M THEN Append(f[i], s[i + 1]) ELSE f[i]
  <2>1. i + 1 # 0 /\ (i + 1) - 1 = i OBVIOUS
  <2> QED BY <1>1, <1>3, <2>1
<1> QED BY <1>2, <1>3

\* What is selected is a sequence.
LEMMA SelectsType ==
  ASSUME NEW S, NEW M, NEW s \in Seq(S), NEW f, Selects(f, M, s, Len(s))
  PROVE  \A i \in 0..Len(s) : f[i] \in Seq(S \cap M)
<1> SUFFICES ASSUME NEW T, T = {i \in 0..Len(s) : f[i] \notin Seq(S \cap M)}, T # {} PROVE FALSE
  OBVIOUS
<1>1. PICK i \in T : \A y \in T : i <= y
  <2>1. Len(s) \in Nat OBVIOUS
  <2>2. T \subseteq Nat BY <2>1
  <2> QED BY <2>2, LeastNat
<1>2. i \in 0..Len(s) /\ f[i] \notin Seq(S \cap M) /\ Len(s) \in Nat BY <1>1
<1>3. f[0] = <<>> /\ \A j \in 0..Len(s) : j + 1 \in 0..Len(s) =>
                        f[j + 1] = IF s[j + 1] \in M THEN Append(f[j], s[j + 1]) ELSE f[j]
  BY <1>2, SelectsSteps
<1>4. i # 0
  <2>1. <<>> \in Seq(S \cap M) OBVIOUS
  <2> QED BY <1>2, <1>3, <2>1
<1>5. i - 1 \in 0..Len(s) /\ i - 1 \notin T /\ (i - 1) + 1 = i BY <1>1, <1>2, <1>4
<1>6. f[i - 1] \in Seq(S \cap M) BY <1>5
<1>7. f[i] = IF s[i] \in M THEN Append(f[i - 1], s[i]) ELSE f[i - 1] BY <1>2, <1>3, <1>5
<1>8. s[i] \in S BY <1>2, <1>4
<1> QED BY <1>2, <1>6, <1>7, <1>8

\* The selection is a sequence of elements of the set.
LEMMA OnlyType ==
  ASSUME NEW S, NEW M, NEW s \in Seq(S)
  PROVE  Only(M, s) \in Seq(S \cap M)
<1>1. Len(s) \in Nat OBVIOUS
<1>2. PICK f : Selects(f, M, s, Len(s)) /\ Only(M, s) = f[Len(s)] BY <1>1, OnlyIs
<1> QED BY <1>1, <1>2, SelectsType

\* Nothing is selected from nothing.
LEMMA OnlyEmpty == \A M : Only(M, <<>>) = <<>>
<1> SUFFICES ASSUME NEW M PROVE Only(M, <<>>) = <<>> OBVIOUS
<1>1. Len(<<>>) = 0 OBVIOUS
<1>2. PICK f : Selects(f, M, <<>>, 0) /\ Only(M, <<>>) = f[0] BY <1>1, OnlyIs
<1> QED BY <1>2, SelectsSteps

\* An element at the end of the queue is the last selected, if it is selected.
LEMMA OnlyAppend ==
  ASSUME NEW S, NEW M, NEW s \in Seq(S), NEW e \in S
  PROVE  /\ e \in M => Only(M, Append(s, e)) = Append(Only(M, s), e)
         /\ e \notin M => Only(M, Append(s, e)) = Only(M, s)
<1> DEFINE t == Append(s, e)
           n == Len(s)
<1>1. n \in Nat /\ Len(t) = n + 1 /\ t[n + 1] = e /\ \A i \in 1..n : t[i] = s[i] OBVIOUS
<1>2. PICK f : Selects(f, M, s, n) /\ Only(M, s) = f[n] BY <1>1, OnlyIs
<1>3. PICK g : Selects(g, M, t, n + 1) /\ Only(M, t) = g[n + 1]
  <2>1. Len(t) \in Nat BY <1>1
  <2> HIDE DEF t
  <2> QED BY <1>1, <2>1, OnlyIs
<1> HIDE DEF t, n
<1>4. /\ f[0] = <<>>
      /\ \A j \in 0..n : j + 1 \in 0..n => f[j + 1] = IF s[j + 1] \in M THEN Append(f[j], s[j + 1]) ELSE f[j]
  BY <1>1, <1>2, SelectsSteps
<1>5. /\ g[0] = <<>>
      /\ \A j \in 0..(n + 1) : j + 1 \in 0..(n + 1) =>
           g[j + 1] = IF t[j + 1] \in M THEN Append(g[j], t[j + 1]) ELSE g[j]
  <2>1. n + 1 \in Nat BY <1>1
  <2> QED BY <1>3, <2>1, SelectsSteps
<1>6. \A i \in 0..n : f[i] = g[i]
  <2> SUFFICES ASSUME NEW T, T = {i \in 0..n : f[i] # g[i]}, T # {} PROVE FALSE OBVIOUS
  <2>0. T \subseteq Nat BY <1>1
  <2>1. PICK i \in T : \A y \in T : i <= y BY <2>0, LeastNat
  <2>2. i \in 0..n /\ f[i] # g[i] BY <2>1
  <2>3. i # 0 BY <1>4, <1>5, <2>2
  <2>4. i - 1 \in 0..n /\ i - 1 \in 0..(n + 1) /\ i \in 0..(n + 1) /\ i - 1 \notin T /\ (i - 1) + 1 = i
    BY <1>1, <2>1, <2>2, <2>3
  <2>5. f[i - 1] = g[i - 1] /\ t[i] = s[i] BY <1>1, <2>2, <2>3, <2>4
  <2>6. f[i] = IF s[i] \in M THEN Append(f[i - 1], s[i]) ELSE f[i - 1] BY <1>4, <2>2, <2>4
  <2>7. g[i] = IF t[i] \in M THEN Append(g[i - 1], t[i]) ELSE g[i - 1] BY <1>5, <2>4
  <2> QED BY <2>2, <2>5, <2>6, <2>7
<1>7. g[n + 1] = IF e \in M THEN Append(g[n], e) ELSE g[n] BY <1>1, <1>5
<1> QED BY <1>1, <1>2, <1>3, <1>6, <1>7 DEF t

\* Adding after joining is joining after adding.
LEMMA ConcatAppend ==
  ASSUME NEW S, NEW s \in Seq(S), NEW t \in Seq(S), NEW e \in S
  PROVE  s \o Append(t, e) = Append(s \o t, e) /\ s \o Append(t, e) \in Seq(S)
<1>1. <<e>> \in Seq(S) /\ s \o t \in Seq(S) OBVIOUS
<1>2. Append(t, e) = t \o <<e>> BY AppendIsConcat
<1>3. Append(s \o t, e) = (s \o t) \o <<e>> BY <1>1, AppendIsConcat
<1>4. (s \o t) \o <<e>> = s \o (t \o <<e>>) BY <1>1, ConcatAssociative
<1>5. Append(t, e) \in Seq(S) OBVIOUS
<1>6. s \o Append(t, e) \in Seq(S) BY <1>5
<1> QED BY <1>2, <1>3, <1>4, <1>6

\* The first element of a queue is the first selected, if it is selected.
LEMMA OnlyTail ==
  ASSUME NEW S, NEW M, NEW s \in Seq(S), s # <<>>
  PROVE  /\ Head(s) \in M => Only(M, s) = <<Head(s)>> \o Only(M, Tail(s))
         /\ Head(s) \notin M => Only(M, s) = Only(M, Tail(s))
<1> DEFINE t == Tail(s)
           n == Len(t)
           x == IF Head(s) \in M THEN <<Head(s)>> ELSE <<>>
<1>1. /\ n \in Nat /\ Len(s) = n + 1 /\ Head(s) = s[1] /\ t \in Seq(S)
      /\ \A i \in 1..n : t[i] = s[i + 1]
  BY HeadTailProperties
<1>2. PICK f : Selects(f, M, t, n) /\ Only(M, t) = f[n]
  <2> HIDE DEF t
  <2> QED BY <1>1, OnlyIs
<1>3. PICK g : Selects(g, M, s, n + 1) /\ Only(M, s) = g[n + 1]
  <2>1. Len(s) \in Nat BY <1>1
  <2> QED BY <1>1, <2>1, OnlyIs
<1>4. \A i \in 0..n : f[i] \in Seq(S \cap M)
  <2> HIDE DEF t
  <2> QED BY <1>1, <1>2, SelectsType
<1>5. x \in Seq(S) /\ \A q \in Seq(S) : x \o q \in Seq(S)
  <2>1. Head(s) \in S OBVIOUS
  <2>2. x \in Seq(S) BY <2>1
  <2> HIDE DEF x
  <2> QED BY <2>2
<1>11. \A q \in Seq(S) : \A e \in S : x \o Append(q, e) = Append(x \o q, e)
  <2>1. x \in Seq(S) BY <1>5
  <2> HIDE DEF x
  <2> QED BY <2>1, ConcatAppend
<1>6. x = IF s[1] \in M THEN Append(<<>>, s[1]) ELSE <<>> BY <1>1
<1> HIDE DEF t, n, x
<1>7. /\ f[0] = <<>>
      /\ \A j \in 0..n : j + 1 \in 0..n => f[j + 1] = IF t[j + 1] \in M THEN Append(f[j], t[j + 1]) ELSE f[j]
  BY <1>1, <1>2, SelectsSteps
<1>8. /\ g[0] = <<>>
      /\ \A j \in 0..(n + 1) : j + 1 \in 0..(n + 1) =>
           g[j + 1] = IF s[j + 1] \in M THEN Append(g[j], s[j + 1]) ELSE g[j]
  <2>1. n + 1 \in Nat BY <1>1
  <2> QED BY <1>3, <2>1, SelectsSteps
<1>9. \A i \in 0..n : g[i + 1] = x \o f[i]
  <2> SUFFICES ASSUME NEW T, T = {i \in 0..n : g[i + 1] # x \o f[i]}, T # {} PROVE FALSE OBVIOUS
  <2>0. T \subseteq Nat BY <1>1
  <2>1. PICK i \in T : \A y \in T : i <= y BY <2>0, LeastNat
  <2>2. i \in 0..n /\ g[i + 1] # x \o f[i] BY <2>1
  <2>3. CASE i = 0
    <3>1. g[1] = IF s[1] \in M THEN Append(<<>>, s[1]) ELSE <<>>
      <4>1. 0 \in 0..(n + 1) /\ 0 + 1 \in 0..(n + 1) /\ 0 + 1 = 1 BY <1>1
      <4> QED BY <1>8, <4>1
    <3>2. x \o <<>> = x BY <1>5, ConcatEmptySeq
    <3>3. f[i] = <<>> /\ g[i + 1] = g[1] BY <1>7, <2>3
    <3> QED BY <1>6, <2>2, <3>1, <3>2, <3>3
  <2>4. CASE i # 0
    <3>1. i - 1 \in 0..n /\ (i - 1) + 1 = i /\ i \in 0..(n + 1) /\ i + 1 \in 0..(n + 1) /\ i \in 1..n
      BY <1>1, <2>2, <2>4
    <3>2. g[i] = x \o f[i - 1]
      <4>1. ~(i <= i - 1) BY <1>1, <3>1
      <4>2. i - 1 \notin T BY <2>1, <4>1
      <4> QED BY <3>1, <4>2
    <3>3. f[i] = IF t[i] \in M THEN Append(f[i - 1], t[i]) ELSE f[i - 1] BY <1>7, <2>2, <3>1
    <3>4. g[i + 1] = IF s[i + 1] \in M THEN Append(g[i], s[i + 1]) ELSE g[i] BY <1>8, <3>1
    <3>5. t[i] = s[i + 1] /\ t[i] \in S BY <1>1, <3>1
    <3>6. f[i - 1] \in Seq(S) BY ONLY <1>4, <3>1
    <3>7. x \o Append(f[i - 1], t[i]) = Append(x \o f[i - 1], t[i]) BY <1>11, <3>5, <3>6
    <3> QED BY <2>2, <3>2, <3>3, <3>4, <3>5, <3>7
  <2> QED BY <2>3, <2>4
<1>10. n \in 0..n BY <1>1
<1>12. Only(M, s) = x \o Only(M, t) BY <1>2, <1>3, <1>9, <1>10
<1>13. Only(M, t) \in Seq(S \cap M) BY <1>1, OnlyType
<1>14. <<>> \o Only(M, t) = Only(M, t) BY <1>13, ConcatEmptySeq
<1>15. Head(s) \in M => Only(M, s) = <<Head(s)>> \o Only(M, t) BY <1>12 DEF x
<1>16. Head(s) \notin M => Only(M, s) = Only(M, t) BY <1>12, <1>14 DEF x
<1> QED BY <1>15, <1>16 DEF t

-----------------------------------------------------------------------------
(* The path of a node. *)

\* The parent of a node is a node with a lower number.
LEMMA ParBelow ==
  ASSUME NEW n \in Node \ {Root}
  PROVE  (n - 1) \div K \in Node /\ (n - 1) \div K < n /\ n \in Nat
BY ClientAssumption DEF Node, Root

\* g solves the recursion of Path up to n.
Partial(g, n) == g = [m \in 0..n |-> {m} \cup (IF m = Root THEN {} ELSE g[(m - 1) \div K])]

\* There is such a function.
LEMMA PartialExists == \A n \in Node : \E g : Partial(g, n)
<1> SUFFICES ASSUME NEW T, T = {n \in Node : ~\E g : Partial(g, n)}, T # {} PROVE FALSE
  OBVIOUS
<1>1. PICK n \in T : \A y \in T : n <= y
  <2>1. T \subseteq Nat BY ClientAssumption DEF Node
  <2> QED BY <2>1, LeastNat
<1>2. n \in Node /\ ~\E g : Partial(g, n) BY <1>1
<1>3. CASE n = Root
  <2> DEFINE g == [m \in 0..0 |-> {m} \cup {}]
  <2>1. Partial(g, 0) BY DEF Partial, Root
  <2> QED BY <1>2, <1>3, <2>1 DEF Root
<1>4. CASE n # Root
  <2>0. n \in Nat /\ n > 0 /\ n - 1 \in Node BY <1>2, <1>4, ClientAssumption DEF Node, Root
  <2>1. n - 1 \notin T BY <1>1, <2>0
  <2>2. PICK g : Partial(g, n - 1) BY <2>0, <2>1
  <2> DEFINE h == [m \in 0..n |-> IF m = n THEN {n} \cup g[(n - 1) \div K] ELSE g[m]]
  <2>3. \A m \in 0..n : m # Root => (m - 1) \div K \in 0..(n - 1) /\ (m - 1) \div K < m
    BY <2>0, <1>2, ParBelow, ClientAssumption DEF Node, Root
  <2>4. \A m \in 0..n : h[m] = {m} \cup (IF m = Root THEN {} ELSE h[(m - 1) \div K])
    <3> SUFFICES ASSUME NEW m \in 0..n PROVE h[m] = {m} \cup (IF m = Root THEN {} ELSE h[(m - 1) \div K]) OBVIOUS
    <3>1. m # Root => h[(m - 1) \div K] = g[(m - 1) \div K] BY <2>0, <2>3
    <3>2. CASE m = n BY <1>4, <3>1, <3>2
    <3>3. CASE m # n
      <4>1. m \in 0..(n - 1) BY <2>0, <3>3
      <4>2. g[m] = {m} \cup (IF m = Root THEN {} ELSE g[(m - 1) \div K]) BY <2>2, <4>1 DEF Partial
      <4> QED BY <3>1, <3>3, <4>2
    <3> QED BY <3>2, <3>3
  <2>5. Partial(h, n)
    <3>1. h = [m \in 0..n |-> h[m]] OBVIOUS
    <3> HIDE DEF h
    <3> QED BY <2>4, <3>1 DEF Partial
  <2> QED BY <1>2, <2>5
<1> QED BY <1>3, <1>4

\* Path satisfies the equation that defines it.
LEMMA PathUnfold == \A n \in Node : Path[n] = {n} \cup (IF n = Root THEN {} ELSE Path[(n - 1) \div K])
<1> DEFINE F(f) == [n \in Node |-> {n} \cup (IF n = Root THEN {} ELSE f[(n - 1) \div K])]
<1>1. \E g : g = F(g)
  <2>1. MaxNode \in Node BY ClientAssumption DEF Node
  <2>2. PICK g : Partial(g, MaxNode) BY <2>1, PartialExists
  <2>3. g = F(g) BY <2>2 DEF Partial, Node
  <2> HIDE DEF F
  <2> QED BY <2>3
<1>2. Path = F(Path) BY <1>1, Zenon DEF Path
<1>3. \A n \in Node : F(Path)[n] = {n} \cup (IF n = Root THEN {} ELSE Path[(n - 1) \div K]) OBVIOUS
<1> HIDE DEF F
<1> QED BY <1>2, <1>3

\* A path consists of nodes.
LEMMA PathNodes == \A n \in Node : Path[n] \subseteq Node
<1> SUFFICES ASSUME NEW T, T = {n \in Node : ~(Path[n] \subseteq Node)}, T # {} PROVE FALSE
  OBVIOUS
<1>1. PICK n \in T : \A y \in T : n <= y
  <2>1. T \subseteq Nat BY ClientAssumption DEF Node
  <2> QED BY <2>1, LeastNat
<1>2. n \in Node /\ ~(Path[n] \subseteq Node) BY <1>1
<1>3. n # Root BY <1>2, PathUnfold
<1>4. (n - 1) \div K \in Node /\ (n - 1) \div K < n /\ n \in Nat /\ (n - 1) \div K \in Nat
  BY <1>2, <1>3, ParBelow, ClientAssumption DEF Node
<1>5. ~(n <= (n - 1) \div K) BY <1>4
<1>6. Path[(n - 1) \div K] \subseteq Node BY <1>1, <1>4, <1>5
<1> QED BY <1>2, <1>3, <1>6, PathUnfold

-----------------------------------------------------------------------------
(* The orders on their way. *)

\* What is on its way is a sequence of the orders asked for.
LEMMA OnTheWayType ==
  ASSUME TypeOK, NEW M
  PROVE  /\ Held(M) \in Seq(M) /\ Only(M, events) \in Seq(M) /\ Only(M, wire) \in Seq(M)
         /\ OnTheWay(M) \in Seq(M)
<1>1. Held(M) \in Seq(M) BY DEF Held
<1>2. events \in Seq(Event) /\ wire \in Seq(Order) BY DEF TypeOK
<1>3. Only(M, events) \in Seq(Event \cap M) /\ Only(M, wire) \in Seq(Order \cap M) BY <1>2, OnlyType
<1>4. Only(M, events) \in Seq(M) /\ Only(M, wire) \in Seq(M)
  <2>1. \A S : Seq(S \cap M) \subseteq Seq(M)
    <3> SUFFICES ASSUME NEW S, NEW q \in Seq(S \cap M) PROVE q \in Seq(M) OBVIOUS
    <3> QED OBVIOUS
  <2> QED BY <1>3, <2>1
<1> QED BY <1>1, <1>4 DEF OnTheWay

\* The server adds to the end.
LEMMA FlowSends ==
  ASSUME TypeOK, NEW M, NEW c \in Order, Send(c)
  PROVE  OnTheWay(M)' = IF c \in M THEN Append(OnTheWay(M), c) ELSE OnTheWay(M)
<1>1. /\ wire' = Append(wire, c) /\ UNCHANGED <<events, comm, event>> BY DEF Send, commVars
<1>2. wire \in Seq(Order) BY DEF TypeOK
<1>3. Only(M, wire)' = IF c \in M THEN Append(Only(M, wire), c) ELSE Only(M, wire)
  <2>1. Only(M, wire') = IF c \in M THEN Append(Only(M, wire), c) ELSE Only(M, wire) BY <1>1, <1>2, OnlyAppend
  <2> QED BY <2>1 DEF Only
<1>4. Held(M)' = Held(M) BY <1>1 DEF Held
<1>5. Only(M, events)' = Only(M, events) BY <1>1 DEF Only
<1>6. CASE c \notin M BY <1>3, <1>4, <1>5, <1>6 DEF OnTheWay
<1>7. CASE c \in M
  <2> DEFINE front == Held(M) \o Only(M, events)
  <2>1. front \in Seq(M) /\ Only(M, wire) \in Seq(M) BY OnTheWayType
  <2>2. OnTheWay(M)' = front \o Append(Only(M, wire), c) BY <1>3, <1>4, <1>5, <1>7 DEF OnTheWay
  <2> HIDE DEF front
  <2>3. OnTheWay(M)' = Append(front \o Only(M, wire), c) BY <1>7, <2>1, <2>2, ConcatAppend
  <2> QED BY <1>7, <2>3 DEF front, OnTheWay
<1> QED BY <1>6, <1>7

\* The communicator takes the first when it executes an event, unless the event is its
\* own business.
LEMMA FlowExecutes ==
  ASSUME TypeOK, NEW M, Execute
  PROVE  /\ event \in M => OnTheWay(M) = <<event>> \o OnTheWay(M)'
         /\ event \notin M => OnTheWay(M) = OnTheWay(M)'
<1>1. comm = "execute" /\ comm' = "wait" /\ UNCHANGED <<wire, events>>
  BY DEF Execute, ExecuteResume, ExecuteMove, ExecutePartition, ExecuteInject, Executes, Submit, serverVars
<1>2. Held(M)' = <<>> /\ Only(M, events)' = Only(M, events) /\ Only(M, wire)' = Only(M, wire)
  BY <1>1 DEF Held, Only
<1>3. Held(M) = IF event \in M THEN <<event>> ELSE <<>> BY <1>1 DEF Held
<1> DEFINE h == Held(M)
           e == Only(M, events)
           w == Only(M, wire)
<1>4. h \in Seq(M) /\ e \in Seq(M) /\ w \in Seq(M) BY OnTheWayType
<1>5. OnTheWay(M) = (h \o e) \o w BY DEF OnTheWay
<1>6. OnTheWay(M)' = (<<>> \o e) \o w BY <1>2 DEF OnTheWay
<1> HIDE DEF h, e, w
<1>7. <<>> \o e = e BY <1>4, ConcatEmptySeq
<1>8. (h \o e) \o w = h \o (e \o w) BY <1>4, ConcatAssociative
<1>9. e \o w \in Seq(M) BY <1>4
<1>10. <<>> \o (e \o w) = e \o w BY <1>9, ConcatEmptySeq
<1>11. OnTheWay(M) = h \o OnTheWay(M)' /\ OnTheWay(M)' = e \o w BY <1>5, <1>6, <1>7, <1>8
<1> QED BY <1>3, <1>10, <1>11 DEF h

\* So does the listener when it reads the first order.
LEMMA FlowSolves ==
  ASSUME TypeOK, NEW M \in SUBSET Order, ListenSolve, comm = "off", events = <<>>
  PROVE  /\ Head(wire) \in M => OnTheWay(M) = <<Head(wire)>> \o OnTheWay(M)'
         /\ Head(wire) \notin M => OnTheWay(M) = OnTheWay(M)'
<1>1. wire # <<>> /\ Head(wire).op = "SOLVE" /\ wire' = Tail(wire) /\ wire \in Seq(Order)
  BY DEF ListenSolve, Reads, TypeOK
<1>2. Head(wire) \in Order BY <1>1
<1>3. Held(M) = <<>> /\ Held(M)' = <<>> BY DEF Held, ListenSolve
<1>4. Only(M, events) = <<>> BY OnlyEmpty
<1>5. Only(M, events)' = <<>>
  <2> DEFINE e == [op |-> "RESUME", node |-> pos']
             S == Order \cup {e}
  <2>1. events' = Append(<<>>, e) BY DEF ListenSolve
  <2>2. e \notin M
    <3>1. e.op = "RESUME" OBVIOUS
    <3>2. \A o \in Order : o.op # "RESUME" BY DEF Order
    <3> QED BY <3>1, <3>2
  <2>3. <<>> \in Seq(S) /\ e \in S OBVIOUS
  <2> HIDE DEF e, S
  <2>4. Only(M, Append(<<>>, e)) = Only(M, <<>>)
    <3> DEFINE q == <<>>
    <3>1. q \in Seq(S) BY <2>3
    <3> HIDE DEF q
    <3>2. Only(M, Append(q, e)) = Only(M, q) BY <2>2, <2>3, <3>1, OnlyAppend
    <3> QED BY <3>2 DEF q
  <2>5. Only(M, events') = <<>> BY <2>1, <2>4, OnlyEmpty
  <2> QED BY <2>5 DEF Only
<1>6. Only(M, wire)' = Only(M, Tail(wire)) BY <1>1 DEF Only
<1> DEFINE w == Only(M, wire)
           v == Only(M, Tail(wire))
<1>7. (Head(wire) \in M => w = <<Head(wire)>> \o v) /\ (Head(wire) \notin M => w = v)
  BY <1>1, OnlyTail
<1>8. w \in Seq(M) BY OnTheWayType
<1>9. v \in Seq(M)
  <2>1. Tail(wire) \in Seq(Order) BY <1>1
  <2>2. v \in Seq(Order \cap M) BY <2>1, OnlyType
  <2> HIDE DEF v
  <2> QED BY <2>2
<1>10. OnTheWay(M) = (<<>> \o <<>>) \o w BY <1>3, <1>4 DEF OnTheWay
<1>11. OnTheWay(M)' = (<<>> \o <<>>) \o v BY <1>3, <1>5, <1>6 DEF OnTheWay
<1> HIDE DEF w, v
<1>12. <<>> \o <<>> = <<>> OBVIOUS
<1>13. <<>> \o w = w /\ <<>> \o v = v BY <1>8, <1>9, ConcatEmptySeq
<1>14. OnTheWay(M) = w /\ OnTheWay(M)' = v BY <1>10, <1>11, <1>12, <1>13
<1> QED BY <1>7, <1>14

\* The orders that the listener passes on stay on their way.
LEMMA FlowListens ==
  ASSUME TypeOK, NEW M \in SUBSET Obeyed, ListenEvent \/ ListenLemmas
  PROVE  OnTheWay(M)' = OnTheWay(M)
<1>1. /\ wire # <<>> /\ wire' = Tail(wire) /\ wire \in Seq(Order) /\ events \in Seq(Event)
      /\ UNCHANGED <<comm, event>>
  BY DEF ListenEvent, ListenLemmas, Reads, TypeOK, commVars
<1>2. Held(M)' = Held(M) BY <1>1 DEF Held
<1>3. Only(M, wire)' = Only(M, Tail(wire)) BY <1>1 DEF Only
<1>4. CASE Head(wire) \notin M
  <2>1. Only(M, wire)' = Only(M, wire) BY <1>1, <1>3, <1>4, OnlyTail
  <2>2. CASE ListenLemmas
    <3>1. Only(M, events)' = Only(M, events) BY <2>2 DEF ListenLemmas, Only
    <3> QED BY <1>2, <2>1, <3>1 DEF OnTheWay
  <2>3. CASE ListenEvent
    <3>1. events' = Append(events, Head(wire)) BY <2>3 DEF ListenEvent
    <3>2. Head(wire) \in Order BY <1>1
    <3> DEFINE S == Event \cup Order
    <3>3. events \in Seq(S) /\ Head(wire) \in S \ M BY <1>1, <1>4, <3>2
    <3> HIDE DEF S
    <3>4. Only(M, events') = Only(M, events) BY <3>1, <3>3, OnlyAppend
    <3>5. Only(M, events)' = Only(M, events) BY <3>4 DEF Only
    <3> QED BY <1>2, <2>1, <3>5 DEF OnTheWay
  <2> QED BY <2>2, <2>3
<1>5. CASE Head(wire) \in M
  <2>1. ListenEvent
    <3>1. ASSUME ListenLemmas PROVE FALSE
      <4>1. Head(wire).op = "LEMMAS" /\ Head(wire) \in Order BY <1>1, <3>1 DEF ListenLemmas, Reads
      <4>2. Head(wire) = [op |-> "LEMMAS"] BY <4>1 DEF Order
      <4> QED BY <1>5, <4>2 DEF Obeyed
    <3> QED BY <3>1
  <2> DEFINE x == Head(wire)
             h == Held(M)
             e == Only(M, events)
             v == Only(M, Tail(wire))
             S == Event \cup Order
  <2>2. x \in Order /\ Tail(wire) \in Seq(Order) BY <1>1
  <2>3. events \in Seq(S) /\ x \in S BY <1>1, <2>2
  <2>4. events' = Append(events, x) BY <2>1 DEF ListenEvent
  <2>5. Only(M, events') = Append(e, x)
    <3> HIDE DEF x, S
    <3>1. x \in M BY <1>5 DEF x
    <3> QED BY <2>3, <2>4, <3>1, OnlyAppend
  <2>6. Only(M, events)' = Append(e, x) BY <2>5 DEF Only
  <2>7. Only(M, wire) = <<x>> \o v BY <1>1, <1>5, OnlyTail
  <2>8. h \in Seq(M) /\ e \in Seq(M) BY OnTheWayType
  <2>9. v \in Seq(M)
    <3>1. v \in Seq(Order \cap M) BY <2>2, OnlyType
    <3> HIDE DEF v
    <3> QED BY <3>1
  <2>10. OnTheWay(M) = (h \o e) \o (<<x>> \o v) BY <2>7 DEF OnTheWay
  <2>11. OnTheWay(M)' = (h \o Append(e, x)) \o v BY <1>2, <1>3, <2>6 DEF OnTheWay
  <2> HIDE DEF h, e, v, x
  <2>12. x \in M /\ <<x>> \in Seq(M) /\ h \o e \in Seq(M) BY <1>5, <2>8 DEF x
  <2>13. h \o Append(e, x) = Append(h \o e, x) BY <2>8, <2>12, ConcatAppend
  <2>14. Append(h \o e, x) = (h \o e) \o <<x>> BY <2>12, AppendIsConcat
  <2>15. ((h \o e) \o <<x>>) \o v = (h \o e) \o (<<x>> \o v) BY <2>9, <2>12, ConcatAssociative
  <2> QED BY <2>10, <2>11, <2>13, <2>14, <2>15
<1> QED BY <1>4, <1>5

\* So do those that the communicator takes to handle them.
LEMMA FlowTakes ==
  ASSUME TypeOK, NEW M, TakeEvent
  PROVE  OnTheWay(M)' = OnTheWay(M)
<1>1. /\ comm = "wait" /\ comm' = "stop" /\ events # <<>> /\ event' = Head(events) /\ events' = Tail(events)
      /\ UNCHANGED wire /\ events \in Seq(Event)
  BY DEF TakeEvent, Waits, TypeOK, serverVars
<1> DEFINE x == IF Head(events) \in M THEN <<Head(events)>> ELSE <<>>
           e == Only(M, events)
           v == Only(M, Tail(events))
           w == Only(M, wire)
<1>2. Held(M) = <<>> /\ Held(M)' = x BY <1>1 DEF Held
<1>3. Only(M, events)' = v /\ Only(M, wire)' = w BY <1>1 DEF Only
<1>4. e = x \o v
  <2>1. (Head(events) \in M => e = <<Head(events)>> \o v) /\ (Head(events) \notin M => e = v)
    BY <1>1, OnlyTail
  <2>2. Tail(events) \in Seq(Event) BY <1>1
  <2>3. v \in Seq(Event \cap M) BY <2>2, OnlyType
  <2> HIDE DEF e, v
  <2>4. <<>> \o v = v BY <2>3, ConcatEmptySeq
  <2> QED BY <2>1, <2>4
<1>5. e \in Seq(M) BY OnTheWayType
<1>6. OnTheWay(M) = (<<>> \o e) \o w BY <1>2 DEF OnTheWay
<1>7. OnTheWay(M)' = (x \o v) \o w BY <1>2, <1>3 DEF OnTheWay
<1> HIDE DEF x, e, v, w
<1>8. <<>> \o e = e BY <1>5, ConcatEmptySeq
<1> QED BY <1>4, <1>6, <1>7, <1>8

\* No other step changes what is on its way.
LEMMA FlowStays ==
  ASSUME TypeOK, NEW M \in SUBSET Obeyed,
         \/ UNCHANGED <<wire, events, commVars>>
         \/ TakeFlag \/ Get \/ AskStop \/ Join
         \/ \E p \in Puller : EndPull(p)
  PROVE  OnTheWay(M)' = OnTheWay(M)
<1>1. ASSUME UNCHANGED <<wire, events>>, Held(M)' = Held(M) PROVE OnTheWay(M)' = OnTheWay(M)
  <2>1. Only(M, wire)' = Only(M, wire) /\ Only(M, events)' = Only(M, events) BY <1>1 DEF Only
  <2> QED BY <1>1, <2>1 DEF OnTheWay
<1>2. CASE UNCHANGED <<wire, events, commVars>> BY <1>1, <1>2 DEF Held, commVars
<1>3. CASE TakeFlag \/ Get \/ AskStop \/ Join
  <2>1. /\ UNCHANGED <<wire, events, event>>
        /\ comm \in {"stop", "join", "execute"} <=> comm' \in {"stop", "join", "execute"}
    BY <1>3 DEF TakeFlag, Waits, Get, AskStop, Join, serverVars
  <2> QED BY <1>1, <2>1 DEF Held
<1>4. ASSUME NEW p \in Puller, EndPull(p) PROVE OnTheWay(M)' = OnTheWay(M)
  <2>1. UNCHANGED <<wire, comm, event>> BY <1>4 DEF EndPull, serverVars, commVars
  <2>2. Held(M)' = Held(M) BY <2>1 DEF Held
  <2>3. Only(M, wire)' = Only(M, wire) BY <2>1 DEF Only
  <2>4. CASE UNCHANGED events BY <1>1, <2>1, <2>2, <2>4
  <2>5. CASE events' = Append(events, [op |-> "INJECT", node |-> pull[p]])
    <3> DEFINE e == [op |-> "INJECT", node |-> pull[p]]
               S == Event \cup {e}
    <3>1. e \notin M
      <4>1. e.op = "INJECT" OBVIOUS
      <4>2. \A o \in Order : o.op # "INJECT" BY DEF Order
      <4> QED BY <4>1, <4>2 DEF Obeyed
    <3>2. events \in Seq(S) /\ e \in S BY DEF TypeOK
    <3> HIDE DEF e, S
    <3>3. Only(M, Append(events, e)) = Only(M, events) BY <3>1, <3>2, OnlyAppend
    <3>4. events' = Append(events, e) BY <2>5 DEF e
    <3>5. Only(M, events') = Only(M, events) BY <3>3, <3>4
    <3>6. Only(M, events)' = Only(M, events) BY <3>5 DEF Only
    <3> QED BY <2>2, <2>3, <3>6 DEF OnTheWay
  <2> QED BY <1>4, <2>4, <2>5 DEF EndPull
<1> QED BY <1>2, <1>3, <1>4

-----------------------------------------------------------------------------
(* What the communicator and the listener find first. *)

\* A record of an order is one of the moves or one of the others.
LEMMA OrderKinds ==
  /\ Moves \subseteq Obeyed /\ Obeyed \subseteq Order
  /\ \A o \in Order : \/ o \in Moves
                      \/ o.op \in {"LEMMAS", "STOP", "TERMINATE"} /\ o \notin Moves
  /\ \A o \in Moves : o.op \in {"SOLVE", "INCREMENTAL", "PARTITION"} /\ o.node \in Node
  /\ \A o \in Order : o # [op |-> "LEMMAS"] => o.op # "LEMMAS"
BY DEF Order, Moves, Obeyed

\* The first order on the wire is on its way, and behind nothing but the queue and the
\* event that is handled.
LEMMA FirstRead ==
  ASSUME TypeOK, NEW M, wire # <<>>, Head(wire) \in M
  PROVE  \E i \in 1..Len(OnTheWay(M)) :
           OnTheWay(M)[i] = Head(wire) /\ (Held(M) = <<>> /\ Only(M, events) = <<>> => i = 1)
<1> DEFINE Q == OnTheWay(M)
           h == Held(M)
           e == Only(M, events)
           w == Only(M, wire)
<1>1. h \in Seq(M) /\ e \in Seq(M) /\ w \in Seq(M) /\ Q \in Seq(M) BY OnTheWayType
<1>2. Q = (h \o e) \o w BY DEF OnTheWay
<1>3. wire \in Seq(Order) BY DEF TypeOK
<1>4. w = <<Head(wire)>> \o Only(M, Tail(wire)) BY <1>3, OnlyTail
<1>5. Only(M, Tail(wire)) \in Seq(M)
  <2>1. Tail(wire) \in Seq(Order) BY <1>3
  <2>2. Only(M, Tail(wire)) \in Seq(Order \cap M) BY <2>1, OnlyType
  <2> QED BY <2>2
<1>6. Len(w) >= 1 /\ w[1] = Head(wire) BY <1>4, <1>5
<1>7. h = <<>> /\ e = <<>> => Len(h) = 0 /\ Len(e) = 0 OBVIOUS
<1> HIDE DEF Q, h, e, w
<1>8. Len(h \o e) = Len(h) + Len(e) /\ h \o e \in Seq(M) BY <1>1
<1>9. Len(h) \in Nat /\ Len(e) \in Nat /\ Len(w) \in Nat BY <1>1
<1>10. Len(Q) = Len(h) + Len(e) + Len(w) BY <1>1, <1>2, <1>8
<1> DEFINE k == Len(h) + Len(e) + 1
<1>11. k \in 1..Len(Q) /\ k - Len(h \o e) = 1 BY <1>6, <1>8, <1>9, <1>10
<1>12. Q[k] = w[1] BY <1>1, <1>2, <1>6, <1>8, <1>9, <1>11
<1>13. h = <<>> /\ e = <<>> => k = 1 BY <1>7
<1> HIDE DEF k
<1> QED BY <1>6, <1>11, <1>12, <1>13 DEF Q, h, e

\* The first order that the listener reads, and the event that the communicator executes,
\* are in their place on the route.
LEMMA RouteFirst ==
  ASSUME TypeOK, Begun, Up, Route
  PROVE  /\ ListenSolve => ~seed /\ Head(wire) \in Moves
         /\ ListenEvent => seed
         /\ comm = "execute" /\ event \in Moves /\ event.op = "PARTITION" => event.node = pos
         /\ comm = "execute" /\ event \in Moves => event.op # "SOLVE"
<1> DEFINE Q == OnTheWay(Moves)
           h == Held(Moves)
           e == Only(Moves, events)
           w == Only(Moves, wire)
<1>1. h \in Seq(Moves) /\ e \in Seq(Moves) /\ w \in Seq(Moves) /\ Q \in Seq(Moves) BY OnTheWayType
<1>2. Q = (h \o e) \o w BY DEF OnTheWay
<1>3. \A i \in 1..Len(Q) : /\ Q[i].op = "PARTITION" => Q[i].node = IF i = 1 THEN pos ELSE Q[i - 1].node
                           /\ Q[i].op = "SOLVE" <=> i = 1 /\ ~seed
  BY DEF Route, Follows
<1>4. ASSUME ListenSolve \/ ListenEvent
      PROVE  \E i \in 1..Len(Q) : Q[i] = Head(wire) /\ (~seed => i = 1) /\ Head(wire) \in Moves
  <2>1. wire # <<>> /\ wire \in Seq(Order) /\ Head(wire).op \in {"SOLVE", "INCREMENTAL", "PARTITION"}
    BY <1>4 DEF ListenSolve, ListenEvent, Reads, TypeOK
  <2>2. Head(wire) \in Moves
    <3>1. Head(wire) \in Order BY <2>1
    <3> QED BY <2>1, <3>1, OrderKinds
  <2>3. ~seed => h = <<>> /\ e = <<>>
    <3>1. ASSUME ~seed PROVE h = <<>> BY <3>1 DEF Begun, Held
    <3>2. ASSUME ~seed PROVE e = <<>> BY <3>2, OnlyEmpty DEF Begun
    <3> QED BY <3>1, <3>2
  <2> QED BY <2>1, <2>2, <2>3, FirstRead
<1>5. ASSUME ListenSolve PROVE ~seed /\ Head(wire) \in Moves
  <2>1. Head(wire).op = "SOLVE" BY <1>5 DEF ListenSolve, Reads
  <2> HIDE DEF Q
  <2> QED BY <1>3, <1>4, <1>5, <2>1
<1>6. ASSUME ListenEvent PROVE seed
  <2>1. Head(wire).op # "SOLVE" BY <1>6 DEF ListenEvent, Reads
  <2> HIDE DEF Q
  <2> QED BY <1>3, <1>4, <1>6, <2>1
<1>7. ASSUME comm = "execute", event \in Moves
      PROVE  event.op = "PARTITION" => event.node = pos /\ event.op # "SOLVE"
  <2>1. h = <<event>> BY <1>7 DEF Held
  <2> HIDE DEF Q, h, e, w
  <2>2. Len(Q) >= 1 /\ Q[1] = event BY <1>1, <1>2, <1>7, <2>1
  <2>3. 1 \in 1..Len(Q) BY <1>1, <2>2
  <2>4. seed BY <1>7 DEF Begun
  <2> QED BY <1>3, <2>2, <2>3, <2>4
<1>8. ASSUME comm = "execute", event \in Moves PROVE event.op # "SOLVE"
  <2>1. event \in Event BY <1>8 DEF Begun
  <2> QED BY <2>1 DEF Event
<1> QED BY <1>5, <1>6, <1>7, <1>8

-----------------------------------------------------------------------------
(* The invariant. *)

\* An event is one of the sorts that the queue holds.
LEMMA EventType ==
  /\ \A o \in {"RESUME", "INCREMENTAL", "PARTITION", "INJECT"} : \A n \in Node : [op |-> o, node |-> n] \in Event
  /\ \A e \in Event : e.node \in Node
  /\ \A o \in Order : o.op \in {"INCREMENTAL", "PARTITION"} => o \in Event
  /\ \A o \in Order : o.op = "SOLVE" => o.node \in Node
  /\ None \notin Node
BY ClientAssumption DEF Event, Order, Node

\* What the process reports is an answer.
LEMMA AnswerType ==
  /\ \A n \in Node : \A k \in Verdict : [kind |-> k, node |-> n] \in Answer
  /\ \A n \in Node : \A m \in 0..K : [kind |-> "parts", node |-> n, size |-> m] \in Answer
BY DEF Answer

\* The server keeps the types.
LEMMA ServerTypes == TypeOK /\ Server => TypeOK'
<1> SUFFICES ASSUME TypeOK, Server PROVE TypeOK' OBVIOUS
<1> USE DEF TypeOK
<1>1. ASSUME NEW c \in Order, Send(c), heading' \in Node \cup {None}, asked' \subseteq Node PROVE TypeOK'
  <2>1. wire' \in Seq(Order) /\ sent' \in 0..MaxSends BY <1>1, ClientAssumption DEF Send
  <2> QED BY <1>1, <2>1 DEF Send, processVars, flagVars, commVars, solverVars, partVars, pullVars
<1>2. ASSUME NEW n \in Node, SendMove(n) PROVE TypeOK'
  <2>1. [op |-> IF heading = None THEN "SOLVE" ELSE "INCREMENTAL", node |-> n] \in Order BY DEF Order
  <2> QED BY <1>1, <1>2, <2>1 DEF SendMove
<1>3. CASE SendPartition
  <2>1. heading \in Node BY <1>3 DEF SendPartition
  <2>2. [op |-> "PARTITION", node |-> heading] \in Order BY <2>1 DEF Order
  <2> QED BY <1>1, <1>3, <2>1, <2>2 DEF SendPartition
<1>4. CASE SendOther
  <2>1. PICK o \in {"LEMMAS", "STOP", "TERMINATE"} : Send([op |-> o]) BY <1>4 DEF SendOther
  <2>2. [op |-> o] \in Order BY DEF Order
  <2> QED BY <1>1, <1>4, <2>1, <2>2 DEF SendOther
<1>5. CASE ServerReads
  <2>1. reports' \in Seq(Answer) BY <1>5 DEF ServerReads
  <2> QED BY <1>5, <2>1 DEF ServerReads, serverVars, processVars, flagVars, commVars, solverVars, partVars, pullVars
<1> QED BY <1>2, <1>3, <1>4, <1>5 DEF Server

\* So does the listener.
LEMMA ListenerTypes == TypeOK /\ Listener => TypeOK'
<1> SUFFICES ASSUME TypeOK, Listener PROVE TypeOK' OBVIOUS
<1> USE DEF TypeOK
<1>1. ASSUME NEW o, Reads(o)
      PROVE  Head(wire) \in Order /\ wire' \in Seq(Order) /\ Head(wire).op \in o
  <2>1. wire \in Seq(Order) /\ wire # <<>> BY <1>1 DEF Reads
  <2> QED BY <1>1, <2>1 DEF Reads
<1>2. CASE ListenSolve
  <2>1. Head(wire).node \in Node
    <3>1. Reads({"SOLVE"}) BY <1>2 DEF ListenSolve
    <3>2. Head(wire) \in Order /\ Head(wire).op = "SOLVE" BY <1>1, <3>1
    <3> HIDE DEF TypeOK
    <3> QED BY ONLY <3>2, EventType
  <2>2. events' \in Seq(Event) /\ pos' \in Node /\ header' \in Node
    <3>1. pos' = Head(wire).node /\ header' = pos' /\ events' = Append(events, [op |-> "RESUME", node |-> pos'])
      BY <1>2 DEF ListenSolve
    <3>2. [op |-> "RESUME", node |-> pos'] \in Event BY <2>1, <3>1, EventType
    <3> QED BY <2>1, <3>1, <3>2
  <2>3. workers' \subseteq Puller BY <1>2 DEF ListenSolve, StartWorkers
  <2>4. wire' \in Seq(Order) BY <1>1, <1>2 DEF ListenSolve
  <2>5. comm' = "wait" /\ seed' = TRUE BY <1>2 DEF ListenSolve
  <2> QED BY <1>2, <2>2, <2>3, <2>4, <2>5 DEF ListenSolve, flagVars, partVars
<1>3. CASE ListenLemmas
  <2>1. workers' \subseteq Puller BY <1>3 DEF ListenLemmas, StartWorkers
  <2>2. wire' \in Seq(Order) BY <1>1, <1>3 DEF ListenLemmas
  <2> QED BY <1>3, <2>1, <2>2 DEF ListenLemmas, flagVars, commVars, solverVars, partVars
<1>4. CASE ListenEvent
  <2>1. Head(wire) \in Event /\ wire' \in Seq(Order) BY <1>1, <1>4, EventType DEF ListenEvent
  <2>2. events' \in Seq(Event) BY <1>4, <2>1 DEF ListenEvent
  <2> QED BY <1>4, <2>1, <2>2 DEF ListenEvent, processVars, flagVars, commVars, solverVars, partVars, pullVars
<1>5. CASE Exit
  <2>1. wire' \in Seq(Order) /\ events' \in Seq(Event) /\ pull' \in [Puller -> Node \cup {None}] BY <1>5 DEF Exit
  <2>2. UNCHANGED <<sent, heading, asked, reports, seed, socket, header, shallStop, shouldStop, pulled, pulls>>
    BY <1>5 DEF Exit, flagVars
  <2> QED BY <1>5, <2>1, <2>2 DEF Exit
<1> QED BY <1>2, <1>3, <1>4, <1>5 DEF Listener, ListenStop, MemoryOut

\* So does the communicator: it reports only answers.
LEMMA CommunicatorTypes == TypeOK /\ Begun /\ Unstopped /\ Communicator => TypeOK'
<1> SUFFICES ASSUME TypeOK, Begun, Unstopped, Communicator PROVE TypeOK' OBVIOUS
<1> USE DEF TypeOK
<1>1. ASSUME comm # "off", future \in Verdict, Report([kind |-> future, node |-> header])
      PROVE  reports' \in Seq(Answer)
  <2>1. header \in Node BY <1>1 DEF Begun
  <2>2. [kind |-> future, node |-> header] \in Answer BY <1>1, <2>1, AnswerType
  <2> QED BY <1>1, <2>2 DEF Report
<1>2. CASE TakeFlag
  <2>1. shallStop' = FALSE /\ comm' \in {"wait", "get"} BY <1>2 DEF TakeFlag, ClearShallStop, Waits
  <2>2. UNCHANGED <<sent, heading, asked, wire, reports>> /\ UNCHANGED <<conn, seed, socket, events, header>>
    BY <1>2 DEF TakeFlag, serverVars, processVars
  <2>3. UNCHANGED <<shouldStop, pulled, event, future>> /\ UNCHANGED <<workers, pull, pulls>>
    BY <1>2 DEF TakeFlag, pullVars
  <2>4. UNCHANGED <<pos, decided, injected, answered>> /\ UNCHANGED <<partitioner, splits>>
    BY <1>2 DEF TakeFlag, solverVars, partVars
  <2>5. shallStop' \in BOOLEAN BY <2>1
  <2>6. comm' \in {"off", "wait", "get", "stop", "join", "execute"} BY <2>1
  <2>7. event' \in Event \cup {None} /\ future' \in {"none", "running", "unknown"} \cup Verdict BY <2>3
  <2>8. \A c \in pulled' : c.label \in Node /\ c.from \in SUBSET Node BY <2>3
  <2>9. pull' \in [Puller -> Node \cup {None}] /\ workers' \subseteq Puller /\ pulls' \in 0..MaxPulls BY <2>3
  <2>10. wire' \in Seq(Order) /\ events' \in Seq(Event) /\ reports' \in Seq(Answer) BY <2>2
  <2> QED BY <2>2, <2>3, <2>4, <2>5, <2>6, <2>7, <2>8, <2>9, <2>10
<1>3. CASE Get
  <2>1. comm = "get" /\ future \in Verdict BY <1>3 DEF Get, Took, Ready, Unstopped, Verdict
  <2>2. reports' \in Seq(Answer) BY <1>1, <1>3, <2>1 DEF Get
  <2> QED BY <1>3, <2>2 DEF Get, Took, serverVars, processVars, flagVars, partVars, pullVars
<1>4. CASE TakeEvent
  <2>1. Head(events) \in Event /\ Tail(events) \in Seq(Event) BY <1>4 DEF TakeEvent
  <2>2. comm' = "stop" /\ event' \in Event /\ events' \in Seq(Event) BY <1>4, <2>1 DEF TakeEvent
  <2> QED BY <1>4, <2>2 DEF TakeEvent, serverVars, processVars, flagVars, solverVars, partVars, pullVars
<1>5. CASE AskStop
  <2>1. shouldStop' = TRUE /\ comm' \in {"execute", "join"} BY <1>5 DEF AskStop
  <2> QED BY <1>5, <2>1 DEF AskStop, serverVars, processVars, solverVars, partVars, pullVars
<1>6. CASE Join
  <2>1. reports' \in Seq(Answer) /\ answered' \in BOOLEAN
    <3>1. CASE Conclusive
      <4>1. comm # "off" /\ future \in Verdict BY <1>6, <3>1 DEF Join, Took, Ready, Conclusive, Verdict
      <4>2. Report([kind |-> future, node |-> header]) /\ answered' = TRUE BY <1>6, <3>1 DEF Join
      <4> QED BY <1>1, <4>1, <4>2
    <3>2. CASE ~Conclusive BY <1>6, <3>2 DEF Join
    <3> QED BY <3>1, <3>2
  <2> QED BY <1>6, <2>1 DEF Join, Took, serverVars, processVars, flagVars, partVars, pullVars
<1>7. CASE Execute
  <2> USE DEF Submit, ClearShouldStop, serverVars, processVars, pullVars
  <2>1. event \in Event /\ event.node \in Node
    BY <1>7, EventType DEF Execute, ExecuteResume, ExecuteMove, ExecutePartition, ExecuteInject, Executes, Begun
  <2>2. CASE ExecuteResume
    <3>1. Submit /\ UNCHANGED <<header, pulled, pos, injected, partitioner, splits>>
      BY <2>2 DEF ExecuteResume, partVars
    <3> QED BY <3>1
  <2>3. CASE ExecuteMove
    <3>1. /\ Submit /\ UNCHANGED pulled
          /\ header' \in Node /\ pos' \in Node /\ injected' = {}
          /\ partitioner' = "none" /\ splits' = None
      BY <2>1, <2>3 DEF ExecuteMove, KillPartitioner
    <3> QED BY <3>1
  <2>4. CASE ExecutePartition BY <2>1, <2>4 DEF ExecutePartition, partVars
  <2>5. CASE ExecuteInject
    <3>1. injected' \subseteq Node
      <4> DEFINE C == {c \in pulled : Covers(c.label, event.node)}
      <4>1. \A c \in C : c.from \subseteq Node OBVIOUS
      <4>2. injected' = injected \cup UNION {c.from : c \in C} BY <2>5 DEF ExecuteInject
      <4> HIDE DEF C
      <4> QED BY <4>1, <4>2
    <3>2. pulled' = {} /\ UNCHANGED <<header, pos, partVars>> BY <2>5 DEF ExecuteInject
    <3>3. Submit BY <2>5 DEF ExecuteInject
    <3> QED BY <3>1, <3>2, <3>3 DEF partVars
  <2> QED BY <1>7, <2>2, <2>3, <2>4, <2>5 DEF Execute
<1> QED BY <1>2, <1>3, <1>4, <1>5, <1>6, <1>7 DEF Communicator

\* So do the other threads and the partitioner.
LEMMA OtherTypes ==
  TypeOK /\ Begun /\ PartsOfPos /\ (Search \/ Splits \/ \E p \in Puller : StartPull(p) \/ EndPull(p)) => TypeOK'
<1> SUFFICES ASSUME TypeOK, Begun, PartsOfPos, Search \/ Splits \/ \E p \in Puller : StartPull(p) \/ EndPull(p)
             PROVE TypeOK'
  OBVIOUS
<1> USE DEF TypeOK
<1>1. CASE Search
  <2>1. PICK r \in {"unknown"} \cup Verdict : SearchEnds(r) /\ shallStop' \in BOOLEAN
    BY <1>1 DEF Search, SearchAnswers, SearchStops, Truth, Verdict
  <2> QED BY <2>1 DEF SearchEnds, serverVars, processVars, commVars, partVars, pullVars
<1>2. CASE Splits
  <2>1. splits \in Node BY <1>2 DEF Splits, PartsOfPos
  <2>2. reports' \in Seq(Answer)
    <3>1. \E a \in Answer : Report(a) BY <1>2, <2>1, AnswerType DEF Splits, Verdict
    <3> QED BY <3>1 DEF Report
  <2> QED BY <1>2, <2>2 DEF Splits, serverVars, processVars, flagVars, commVars, solverVars, pullVars
<1>3. ASSUME NEW p \in Puller, StartPull(p) PROVE TypeOK'
  BY <1>3 DEF StartPull, serverVars, processVars, flagVars, commVars, solverVars, partVars
<1>4. ASSUME NEW p \in Puller, EndPull(p) PROVE TypeOK'
  <2>1. pull[p] \in Node /\ header \in Node BY <1>4 DEF EndPull, Begun
  <2>2. events' \in Seq(Event)
    <3>1. [op |-> "INJECT", node |-> pull[p]] \in Event BY <2>1, EventType
    <3>2. CASE UNCHANGED events BY <3>2
    <3>3. CASE events' = Append(events, [op |-> "INJECT", node |-> pull[p]]) BY <3>1, <3>3
    <3> QED BY <1>4, <3>2, <3>3 DEF EndPull
  <2>3. \A c \in pulled' : c.label \in Node /\ c.from \in SUBSET Node
    <3>1. UNCHANGED pulled \/ \E from \in SUBSET Path[pull[p]] : pulled' = pulled \cup {[label |-> header, from |-> from]}
      BY <1>4 DEF EndPull
    <3>2. Path[pull[p]] \subseteq Node BY <2>1, PathNodes
    <3> QED BY <2>1, <3>1, <3>2
  <2>4. pulls' \in 0..MaxPulls BY <1>4, ClientAssumption DEF EndPull
  <2>5. pull' \in [Puller -> Node \cup {None}] BY <1>4 DEF EndPull
  <2> QED BY <1>4, <2>2, <2>3, <2>4, <2>5 DEF EndPull, serverVars, processVars, flagVars, commVars, solverVars, partVars
<1> QED BY <1>1, <1>2, <1>3, <1>4

\* Every step keeps the types.
LEMMA TypeStep == IInv /\ [Next]_vars => TypeOK'
<1> SUFFICES ASSUME IInv, [Next]_vars PROVE TypeOK' OBVIOUS
<1>1. CASE UNCHANGED vars
  BY <1>1 DEF IInv, TypeOK, vars, serverVars, processVars, flagVars, commVars, solverVars, partVars, pullVars
<1>2. TypeOK /\ Begun /\ Unstopped /\ PartsOfPos BY DEF IInv
<1> QED BY <1>1, <1>2, ServerTypes, ListenerTypes, CommunicatorTypes, OtherTypes DEF Next

-----------------------------------------------------------------------------
(* What each action leaves alone, for the invariants below. *)

\* The server changes nothing of the process.
LEMMA ServerFrame ==
  Server => UNCHANGED <<conn, seed, socket, events, header, shallStop, shouldStop, comm, event, future, pos,
                        decided, injected, answered, partitioner, splits, workers, pull>>
BY DEF Server, SendMove, SendPartition, SendOther, ServerReads, Send, processVars, flagVars, commVars, solverVars,
       partVars, pullVars

\* A process that exited is at rest.
LEMMA ExitRests ==
  Exit => /\ ~Up' /\ comm' = "off" /\ events' = <<>> /\ event' = None /\ future' = "none" /\ pos' = None
          /\ decided' = FALSE /\ answered' = FALSE /\ partitioner' = "none" /\ pull' = [p \in Puller |-> None]
BY DEF Exit, Up

\* A step is one of these.
LEMMA StepKinds ==
  [Next]_vars =>
    \/ UNCHANGED vars \/ Server
    \/ ListenSolve \/ ListenLemmas \/ ListenEvent \/ Exit
    \/ TakeFlag \/ Get \/ TakeEvent \/ AskStop \/ Join \/ Execute
    \/ SearchAnswers \/ SearchStops \/ Splits
    \/ \E p \in Puller : StartPull(p) \/ EndPull(p)
BY DEF Next, Listener, ListenStop, MemoryOut, Communicator, Search

\* What an executed event leaves behind.
LEMMA ExecuteFrame ==
  Execute =>
    /\ Up /\ comm = "execute" /\ ~shouldStop' /\ future' = "running" /\ ~decided' /\ ~answered'
    /\ comm' = "wait" /\ event' = None
    /\ UNCHANGED <<sent, heading, asked, wire, reports, conn, seed, socket, events, shallStop, workers, pull, pulls>>
    /\ \/ event.op = "INCREMENTAL" /\ pos' = event.node /\ header' = event.node /\ partitioner' = "none"
       \/ /\ UNCHANGED <<header, pos>>
          /\ \/ event.op \in {"RESUME", "INJECT"} /\ UNCHANGED <<partitioner, splits>>
             \/ event.op = "PARTITION" /\ decided /\ UNCHANGED <<partitioner, splits>>
             \/ event.op = "PARTITION" /\ ~decided /\ partitioner' = "running" /\ splits' = event.node
BY DEF Execute, ExecuteResume, ExecuteMove, ExecutePartition, ExecuteInject, Executes, Submit, ClearShouldStop,
       KillPartitioner, serverVars, processVars, partVars, pullVars

\* A process does nothing before it is told to solve.
LEMMA BegunStep == IInv /\ [Next]_vars => Begun'
<1> SUFFICES ASSUME IInv, [Next]_vars PROVE Begun' OBVIOUS
<1>1. TypeOK /\ Begun /\ (Up => Route) BY DEF IInv
<1>2. CASE UNCHANGED vars
  BY <1>1, <1>2 DEF Begun, Up, vars, processVars, flagVars, commVars, solverVars, partVars, pullVars
<1>3. CASE Server BY <1>1, <1>3, ServerFrame DEF Begun, Up
<1>4. CASE ListenSolve
  <2>1. Up /\ ~seed BY <1>1, <1>4, RouteFirst DEF ListenSolve, Reads
  <2>2. comm = "off" BY <1>1, <2>1 DEF Begun
  <2>3. pos' \in Node /\ header' = pos' /\ seed' = TRUE /\ comm' = "wait" /\ UNCHANGED <<conn, pull>>
    <3>1. wire \in Seq(Order) /\ wire # <<>> /\ Head(wire).op = "SOLVE" BY <1>1, <1>4 DEF TypeOK, ListenSolve, Reads
    <3>2. Head(wire) \in Order BY <3>1
    <3>3. Head(wire).node \in Node BY <3>1, <3>2, EventType
    <3> QED BY <1>4, <3>3 DEF ListenSolve
  <2> QED BY <2>1, <2>3 DEF Begun, Up
<1>5. CASE ListenLemmas
  BY <1>1, <1>5 DEF Begun, Up, ListenLemmas, flagVars, commVars, solverVars, partVars
<1>6. CASE ListenEvent
  <2>1. Up /\ seed BY <1>1, <1>6, RouteFirst DEF ListenEvent, Reads
  <2>2. UNCHANGED <<conn, seed, header, shouldStop, comm, event, future, pos, decided, answered, partitioner, pull>>
    BY <1>6 DEF ListenEvent, processVars, flagVars, commVars, solverVars, partVars, pullVars
  <2> QED BY <1>1, <2>1, <2>2 DEF Begun, Up
<1>7. CASE Exit
  <2>1. UNCHANGED <<header, shouldStop, seed>> BY <1>7 DEF Exit, flagVars
  <2> QED BY <1>1, <1>7, <2>1, ExitRests DEF Begun
<1>8. CASE TakeFlag \/ Get \/ AskStop \/ Join
  <2>1. /\ Up /\ comm \notin {"off"} /\ comm' # "off"
        /\ comm' \in {"stop", "join", "execute"} => comm \in {"stop", "join", "execute"}
        /\ UNCHANGED <<conn, seed, header, pos, event, pull>>
    BY <1>8 DEF TakeFlag, Waits, Get, AskStop, Join, Took, processVars, commVars, solverVars, partVars, pullVars
  <2> QED BY <1>1, <2>1 DEF Begun, Up
<1>9. CASE TakeEvent
  <2>1. events \in Seq(Event) /\ events # <<>> BY <1>1, <1>9 DEF TypeOK, TakeEvent
  <2>2. /\ Up /\ comm = "wait" /\ comm' = "stop" /\ event' \in Event
        /\ UNCHANGED <<conn, seed, header, pos, pull>>
    BY <1>9, <2>1 DEF TakeEvent, Waits, processVars, solverVars, pullVars
  <2> QED BY <1>1, <2>2 DEF Begun, Up
<1>10. CASE Execute
  <2>1. event.node \in Node BY <1>1, <1>10, ExecuteFrame, EventType DEF Begun
  <2> QED BY <1>1, <1>10, <2>1, ExecuteFrame, EventType DEF Begun, Up
<1>11. CASE SearchAnswers \/ SearchStops
  <2>1. /\ Up /\ future = "running"
        /\ UNCHANGED <<conn, seed, header, events, comm, event, pos, answered, partitioner, pull>>
    BY <1>11 DEF SearchAnswers, SearchStops, SearchEnds, processVars, commVars, partVars, pullVars
  <2>2. seed BY <1>1, <2>1 DEF Begun
  <2> QED BY <1>1, <2>1, <2>2 DEF Begun, Up
<1>12. CASE Splits
  <2>1. /\ Up /\ partitioner = "running" /\ partitioner' = "exited"
        /\ UNCHANGED <<conn, seed, header, events, comm, event, future, shouldStop, pos, answered, decided, pull>>
    BY <1>12 DEF Splits, processVars, flagVars, commVars, solverVars, pullVars
  <2> QED BY <1>1, <2>1 DEF Begun, Up
<1>13. ASSUME NEW p \in Puller, StartPull(p) PROVE Begun'
  <2>1. header \in Node BY <1>1, <1>13 DEF TypeOK, StartPull
  <2> QED BY <1>1, <1>13, <2>1
          DEF Begun, Up, StartPull, processVars, flagVars, commVars, solverVars, partVars
<1>14. ASSUME NEW p \in Puller, EndPull(p) PROVE Begun'
  <2>1. header \in Node BY <1>1, <1>14 DEF Begun, EndPull
  <2>2. seed BY <1>1, <2>1, EventType DEF Begun
  <2>3. UNCHANGED <<conn, seed, header, shouldStop, comm, event, future, pos, answered, decided, partitioner>>
    BY <1>14 DEF EndPull, processVars, flagVars, commVars, solverVars, partVars
  <2> QED BY <1>1, <2>1, <2>2, <2>3 DEF Begun, Up
<1> QED BY <1>2, <1>3, <1>4, <1>5, <1>6, <1>7, <1>8, <1>9, <1>10, <1>11, <1>12, <1>13, <1>14, StepKinds

\* Only a communicator that handles an event asks the search to stop.
LEMMA UnstoppedStep == IInv /\ [Next]_vars => Unstopped'
<1> SUFFICES ASSUME IInv, [Next]_vars PROVE Unstopped' OBVIOUS
<1>1. TypeOK /\ Begun /\ Unstopped /\ (Up => Route) BY DEF IInv
<1>2. CASE UNCHANGED vars BY <1>1, <1>2 DEF Unstopped, vars, flagVars, commVars
<1>3. CASE Server BY <1>1, <1>3, ServerFrame DEF Unstopped
<1>4. CASE ListenSolve
  <2>1. ~seed /\ UNCHANGED <<shouldStop, future>> BY <1>1, <1>4, RouteFirst DEF ListenSolve, Reads, flagVars
  <2> QED BY <1>1, <2>1 DEF Begun, Unstopped
<1>5. CASE ListenLemmas \/ ListenEvent
  BY <1>1, <1>5 DEF Unstopped, ListenLemmas, ListenEvent, flagVars, commVars
<1>6. CASE Exit BY <1>6, ExitRests DEF Unstopped
<1>7. CASE TakeFlag BY <1>1, <1>7 DEF Unstopped, TakeFlag, Waits
<1>8. CASE Get BY <1>1, <1>8 DEF Unstopped, Get, Took, flagVars
<1>9. CASE TakeEvent \/ AskStop \/ Join
  <2>1. comm' \notin {"wait", "get"} BY <1>9 DEF TakeEvent, AskStop, Join
  <2> QED BY <2>1 DEF Unstopped
<1>10. CASE Execute BY <1>10, ExecuteFrame DEF Unstopped
<1>11. CASE SearchAnswers
  BY <1>1, <1>11 DEF Unstopped, SearchAnswers, SearchEnds, Truth, commVars
<1>12. CASE SearchStops
  BY <1>1, <1>12 DEF Unstopped, SearchStops, SearchEnds, commVars
<1>13. CASE Splits \/ \E p \in Puller : StartPull(p) \/ EndPull(p)
  <2>1. UNCHANGED <<shouldStop, comm, future>> BY <1>13 DEF Splits, StartPull, EndPull, flagVars, commVars
  <2> QED BY <1>1, <2>1 DEF Unstopped
<1> QED BY <1>2, <1>3, <1>4, <1>5, <1>6, <1>7, <1>8, <1>9, <1>10, <1>11, <1>12, <1>13, StepKinds

\* The status of the solver, the result of the search and what was reported agree.
LEMMA ResultsStep == IInv /\ [Next]_vars => Results'
<1> SUFFICES ASSUME IInv, [Next]_vars PROVE Results' OBVIOUS
<1>1. TypeOK /\ Begun /\ Unstopped /\ Results /\ (Up => Route) BY DEF IInv
<1> USE DEF Truth, Verdict
<1>2. ASSUME UNCHANGED <<comm, future, pos, decided, answered>> PROVE Results' BY <1>1, <1>2 DEF Results
<1>3. CASE UNCHANGED vars BY <1>2, <1>3 DEF vars, commVars, solverVars
<1>4. CASE Server BY <1>2, <1>4, ServerFrame
<1>5. CASE ListenSolve
  <2>1. ~seed /\ UNCHANGED <<future, decided, answered>> /\ comm' = "wait"
    BY <1>1, <1>5, RouteFirst DEF ListenSolve, Reads
  <2> QED BY <1>1, <2>1 DEF Begun, Results
<1>6. CASE ListenLemmas \/ ListenEvent \/ Splits \/ \E p \in Puller : StartPull(p) \/ EndPull(p)
  BY <1>2, <1>6 DEF ListenLemmas, ListenEvent, Splits, StartPull, EndPull, commVars, solverVars
<1>7. CASE Exit BY <1>7, ExitRests DEF Results
<1>8. CASE TakeFlag
  <2>1. comm' # "execute" /\ UNCHANGED <<future, pos, decided, answered>>
    BY <1>8 DEF TakeFlag, Waits, solverVars
  <2> QED BY <1>1, <2>1 DEF Results
<1>9. CASE Get
  <2>1. future \in Verdict BY <1>1, <1>9 DEF TypeOK, Unstopped, Get, Took, Ready
  <2>2. decided = TRUE BY <1>1, <2>1 DEF Results, TypeOK
  <2>3. future' = "none" /\ answered' = TRUE /\ decided' = decided /\ comm' = "wait" BY <1>9 DEF Get, Took
  <2> QED BY <2>2, <2>3 DEF Results
<1>10. CASE TakeEvent BY <1>1, <1>10 DEF Results, TakeEvent, solverVars
<1>11. CASE AskStop
  <2>1. (comm' = "execute" => future = "none") /\ UNCHANGED <<future, pos, decided, answered>>
    BY <1>11 DEF AskStop, solverVars
  <2> QED BY <1>1, <2>1 DEF Results
<1>12. CASE Join
  <2>1. future \in Verdict \cup {"unknown"} BY <1>1, <1>12 DEF TypeOK, Join, Took, Ready
  <2>2. future' = "none" /\ UNCHANGED decided /\ answered' = IF Conclusive THEN TRUE ELSE answered
    BY <1>12 DEF Join, Took
  <2>3. ASSUME Conclusive PROVE answered' = decided'
    <3>1. decided = TRUE BY <1>1, <2>1, <2>3 DEF Results, TypeOK, Conclusive
    <3> QED BY <2>2, <2>3, <3>1
  <2>4. ASSUME ~Conclusive PROVE answered' = decided'
    <3>1. decided = FALSE /\ answered = FALSE BY <1>1, <2>1, <2>4 DEF Results, TypeOK, Conclusive
    <3> QED BY <2>2, <2>4, <3>1
  <2>5. answered' = decided' BY <2>3, <2>4
  <2> QED BY <2>2, <2>5 DEF Results
<1>13. CASE Execute BY <1>13, ExecuteFrame DEF Results
<1>14. CASE SearchAnswers \/ SearchStops
  <2>1. \E r \in {"unknown", Truth(pos)} :
          /\ future = "running" /\ future' = r /\ decided' = (r \in Verdict)
          /\ UNCHANGED <<comm, pos, answered>>
    BY <1>14 DEF SearchAnswers, SearchStops, SearchEnds, commVars
  <2> QED BY <1>1, <2>1 DEF Results
<1> QED BY <1>3, <1>4, <1>5, <1>6, <1>7, <1>8, <1>9, <1>10, <1>11, <1>12, <1>13, <1>14, StepKinds

\* A partitioner that runs was forked for the node the solver is at.
LEMMA PartsOfPosStep == IInv /\ [Next]_vars => PartsOfPos'
<1> SUFFICES ASSUME IInv, [Next]_vars PROVE PartsOfPos' OBVIOUS
<1>1. TypeOK /\ Begun /\ PartsOfPos /\ (Up => Route) BY DEF IInv
<1>2. ASSUME UNCHANGED <<pos, partitioner, splits>> PROVE PartsOfPos' BY <1>1, <1>2 DEF PartsOfPos
<1>3. CASE UNCHANGED vars BY <1>2, <1>3 DEF vars, solverVars, partVars
<1>4. CASE Server BY <1>2, <1>4, ServerFrame
<1>5. CASE ListenSolve
  <2>1. ~seed /\ UNCHANGED partitioner BY <1>1, <1>5, RouteFirst DEF ListenSolve, Reads, partVars
  <2> QED BY <1>1, <2>1 DEF Begun, PartsOfPos
<1>6. CASE ListenLemmas \/ ListenEvent \/ TakeFlag \/ Get \/ TakeEvent \/ AskStop \/ Join
  BY <1>2, <1>6 DEF ListenLemmas, ListenEvent, TakeFlag, Get, TakeEvent, AskStop, Join, solverVars, partVars
<1>7. CASE SearchAnswers \/ SearchStops \/ \E p \in Puller : StartPull(p) \/ EndPull(p)
  BY <1>2, <1>7 DEF SearchAnswers, SearchStops, SearchEnds, StartPull, EndPull, solverVars, partVars
<1>8. CASE Exit BY <1>8, ExitRests DEF PartsOfPos
<1>9. CASE Execute
  <2>1. Up /\ comm = "execute" /\ event \in Event BY <1>1, <1>9, ExecuteFrame DEF Begun
  <2>2. pos \in Node BY <1>1, <2>1 DEF Begun
  <2>3. event.op = "PARTITION" => event.node = pos
    <3>1. event.op = "PARTITION" => event \in Moves BY <2>1 DEF Event, Moves
    <3> QED BY <1>1, <2>1, <3>1, RouteFirst
  <2> QED BY <1>1, <1>9, <2>2, <2>3, ExecuteFrame DEF PartsOfPos
<1>10. CASE Splits BY <1>10 DEF Splits, PartsOfPos
<1> QED BY <1>3, <1>4, <1>5, <1>6, <1>7, <1>8, <1>9, <1>10, StepKinds

\* An order that is right at the end of the route.
LEMMA FollowsAppend ==
  ASSUME NEW Q \in Seq(Moves), NEW c \in Moves, NEW p, NEW begun \in BOOLEAN, NEW h, Follows(Q, p, begun, h),
         c.op = "PARTITION" => c.node = h,
         c.op = "SOLVE" <=> Q = <<>> /\ ~begun
  PROVE  Follows(Append(Q, c), p, begun, c.node)
<1> DEFINE R == Append(Q, c)
<1>1. /\ Len(Q) \in Nat /\ Len(R) = Len(Q) + 1 /\ R # <<>> /\ R[Len(Q) + 1] = c
      /\ \A i \in 1..Len(Q) : R[i] = Q[i]
  OBVIOUS
<1>2. Q = <<>> <=> Len(Q) = 0 BY EmptySeq
<1> HIDE DEF R
<1>3. ASSUME NEW i \in 1..Len(R)
      PROVE  /\ R[i].op = "PARTITION" => R[i].node = IF i = 1 THEN p ELSE R[i - 1].node
             /\ R[i].op = "SOLVE" <=> i = 1 /\ ~begun
  <2>1. CASE i \in 1..Len(Q)
    <3>1. R[i] = Q[i] /\ (i # 1 => R[i - 1] = Q[i - 1]) BY <1>1, <2>1
    <3> QED BY <2>1, <3>1 DEF Follows
  <2>2. CASE i = Len(Q) + 1
    <3>1. R[i] = c BY <1>1, <2>2
    <3>2. i # 1 => R[i - 1] = Q[Len(Q)] BY <1>1, <2>2
    <3>3. i = 1 <=> Q = <<>> BY <1>1, <1>2, <2>2
    <3>4. h = IF Q = <<>> THEN p ELSE Q[Len(Q)].node BY DEF Follows
    <3> QED BY <3>1, <3>2, <3>3, <3>4
  <2> QED BY <1>1, <2>1, <2>2
<1>4. R[Len(R)].node = c.node BY <1>1
<1> QED BY <1>1, <1>3, <1>4 DEF Follows, R

\* The first order of the route is obeyed.
LEMMA FollowsTail ==
  ASSUME NEW x \in Moves, NEW R \in Seq(Moves), NEW p, NEW begun \in BOOLEAN, NEW h,
         Follows(<<x>> \o R, p, begun, h)
  PROVE  Follows(R, x.node, TRUE, h)
<1> DEFINE Q == <<x>> \o R
<1>1. /\ Len(R) \in Nat /\ Len(Q) = Len(R) + 1 /\ Q # <<>> /\ Q[1] = x
      /\ \A i \in 1..Len(R) : Q[i + 1] = R[i]
  OBVIOUS
<1>2. R = <<>> <=> Len(R) = 0 BY EmptySeq
<1>3. Follows(Q, p, begun, h) OBVIOUS
<1> HIDE DEF Q
<1>4. ASSUME NEW i \in 1..Len(R)
      PROVE  /\ R[i].op = "PARTITION" => R[i].node = IF i = 1 THEN x.node ELSE R[i - 1].node
             /\ R[i].op # "SOLVE"
  <2>1. i + 1 \in 1..Len(Q) /\ i + 1 # 1 /\ (i + 1) - 1 = i BY <1>1
  <2>2. R[i].op = "PARTITION" => R[i].node = Q[i].node BY <1>1, <1>3, <2>1 DEF Follows
  <2>3. R[i].op # "SOLVE" BY <1>1, <1>3, <2>1 DEF Follows
  <2>4. Q[i] = IF i = 1 THEN x ELSE R[i - 1]
    <3>1. i # 1 => i - 1 \in 1..Len(R) /\ (i - 1) + 1 = i BY <1>1
    <3> QED BY <1>1, <3>1
  <2> QED BY <2>2, <2>3, <2>4
<1>5. h = Q[Len(Q)].node BY <1>1, <1>3 DEF Follows
<1>6. Q[Len(Q)] = IF R = <<>> THEN x ELSE R[Len(R)]
  <2>1. R # <<>> => Len(R) \in 1..Len(R) BY <1>1, <1>2
  <2> QED BY <1>1, <1>2, <2>1
<1> QED BY <1>4, <1>5, <1>6 DEF Follows

\* What is on the route is a sequence of moves.
LEMMA MovesType == TypeOK => OnTheWay(Moves) \in Seq(Moves)
BY OnTheWayType

\* The route stays right.
LEMMA RouteStep == IInv /\ [Next]_vars => (Up => Route)'
<1> SUFFICES ASSUME IInv, [Next]_vars, Up' PROVE Route' OBVIOUS
<1>1. TypeOK /\ Begun /\ (Up => Route) BY DEF IInv
<1> DEFINE Q == OnTheWay(Moves)
<1>2. Q \in Seq(Moves) /\ Moves \in SUBSET Order /\ Moves \in SUBSET Obeyed BY <1>1, OnTheWayType, OrderKinds
<1>3. ASSUME OnTheWay(Moves)' = Q, UNCHANGED <<conn, pos, seed, heading>> PROVE Route'
  BY <1>1, <1>3 DEF Route, Up
<1>4. CASE Server
  <2>0. Up /\ UNCHANGED <<conn, pos, seed>> BY <1>4, ServerFrame DEF Up
  <2>1. Follows(Q, pos, seed, heading) /\ seed \in BOOLEAN BY <1>1, <2>0 DEF Route, TypeOK
  <2>2. Q = <<>> <=> Len(Q) = 0 BY <1>2, EmptySeq
  <2>3. heading = IF Q = <<>> THEN pos ELSE Q[Len(Q)].node BY <2>1 DEF Follows
  <2>4. ASSUME NEW c \in Moves, Send(c), heading' = c.node, c.op = "PARTITION" => c.node = heading,
               c.op = "SOLVE" <=> Q = <<>> /\ ~seed
        PROVE  Route'
    <3>1. c \in Order BY <1>2
    <3>2. OnTheWay(Moves)' = Append(Q, c) BY <1>1, <2>4, <3>1, FlowSends
    <3> HIDE DEF Q
    <3>3. Follows(Append(Q, c), pos, seed, c.node) BY <1>2, <2>1, <2>4, FollowsAppend
    <3> QED BY <2>0, <2>4, <3>2, <3>3 DEF Route
  <2>5. ASSUME NEW n \in Node, SendMove(n) PROVE Route'
    <3> DEFINE c == [op |-> IF heading = None THEN "SOLVE" ELSE "INCREMENTAL", node |-> n]
    <3>1. c \in Moves /\ Send(c) /\ heading' = c.node /\ c.op # "PARTITION" BY <2>5 DEF Moves, SendMove
    <3>2. CASE heading = None
      <4>1. Q = <<>>
        <5>1. ASSUME Q # <<>> PROVE FALSE
          <6> HIDE DEF Q
          <6>1. Len(Q) \in 1..Len(Q) BY <1>2, <2>2, <5>1
          <6>2. Q[Len(Q)] \in Moves BY <1>2, <6>1
          <6> QED BY <2>3, <3>2, <5>1, <6>2, OrderKinds, EventType
        <5> QED BY <5>1
      <4>2. ~seed
        <5>1. pos = None BY <2>3, <3>2, <4>1
        <5> QED BY <1>1, <2>0, <5>1, EventType DEF Begun
      <4>3. c.op = "SOLVE" BY <3>2
      <4> HIDE DEF c, Q
      <4> QED BY <2>4, <3>1, <4>1, <4>2, <4>3
    <3>3. CASE heading # None
      <4>1. ~(Q = <<>> /\ ~seed) BY <1>1, <2>3, <3>3 DEF Begun
      <4>2. c.op # "SOLVE" BY <3>3
      <4> HIDE DEF c, Q
      <4> QED BY <2>4, <3>1, <4>1, <4>2
    <3> QED BY <3>2, <3>3
  <2>6. CASE SendPartition
    <3> DEFINE c == [op |-> "PARTITION", node |-> heading]
    <3>1. heading \in Node /\ heading # None BY <1>1, <2>6 DEF SendPartition, TypeOK
    <3>2. c \in Moves /\ c.node = heading /\ c.op = "PARTITION" BY <3>1 DEF Moves
    <3>3. Send(c) /\ heading' = heading BY <2>6 DEF SendPartition
    <3>4. ~(Q = <<>> /\ ~seed) BY <1>1, <2>3, <3>1 DEF Begun
    <3> HIDE DEF c, Q
    <3> QED BY <2>4, <3>2, <3>3, <3>4
  <2>7. CASE SendOther
    <3>1. PICK o \in {"LEMMAS", "STOP", "TERMINATE"} : Send([op |-> o]) /\ UNCHANGED heading BY <2>7 DEF SendOther
    <3> DEFINE c == [op |-> o]
    <3>2. c \in Order /\ c.op = o BY DEF Order
    <3>3. c \notin Moves
      <4> HIDE DEF c
      <4> QED BY <3>2, OrderKinds
    <3>4. OnTheWay(Moves)' = Q
      <4> HIDE DEF c
      <4>1. Send(c) BY <3>1 DEF c
      <4> QED BY <1>1, <3>2, <3>3, <4>1, FlowSends
    <3> QED BY <1>3, <2>0, <3>1, <3>4
  <2>8. CASE ServerReads
    <3>1. UNCHANGED <<wire, events, commVars, heading>> BY <2>8 DEF ServerReads, serverVars
    <3>2. OnTheWay(Moves)' = Q BY <1>1, <1>2, <3>1, FlowStays
    <3> QED BY <1>3, <2>0, <3>1, <3>2
  <2> QED BY <1>4, <2>5, <2>6, <2>7, <2>8 DEF Server
<1>5. CASE ListenSolve
  <2>1. Up /\ ~seed /\ Head(wire) \in Moves BY <1>1, <1>5, RouteFirst DEF ListenSolve, Reads
  <2>2. comm = "off" /\ events = <<>> BY <1>1, <2>1 DEF Begun
  <2>3. Q = <<Head(wire)>> \o OnTheWay(Moves)' BY <1>1, <1>2, <1>5, <2>1, <2>2, FlowSolves
  <2>4. pos' = Head(wire).node /\ seed' = TRUE /\ UNCHANGED heading BY <1>5 DEF ListenSolve
  <2>5. OnTheWay(Moves)' \in Seq(Moves)
    <3>1. TypeOK' BY TypeStep
    <3>2. (OnTheWay(Moves) \in Seq(Moves))' BY <3>1, MovesType, PTL
    <3> QED BY <3>2
  <2>6. Follows(Q, pos, seed, heading) /\ seed \in BOOLEAN BY <1>1, <2>1 DEF Route, TypeOK
  <2> DEFINE R == OnTheWay(Moves)'
             first == Head(wire)
  <2>7. Follows(<<first>> \o R, pos, seed, heading) BY <2>3, <2>6
  <2>8. first \in Moves /\ R \in Seq(Moves) BY <2>1, <2>5
  <2>9. seed \in BOOLEAN /\ seed = FALSE BY <2>1, <2>6
  <2> HIDE DEF R, first, Q
  <2>10. Follows(R, first.node, TRUE, heading) BY <2>7, <2>8, <2>9, FollowsTail
  <2> QED BY <2>4, <2>10 DEF Route, R, first
<1>6. CASE Execute
  <2>1. Up /\ comm = "execute" /\ event \in Event /\ UNCHANGED <<conn, seed, heading>>
    BY <1>1, <1>6, ExecuteFrame DEF Begun
  <2>2. CASE event \notin Moves
    <3>1. event.op \notin {"INCREMENTAL", "PARTITION"} BY <2>1, <2>2 DEF Event, Moves
    <3>2. OnTheWay(Moves)' = Q BY <1>1, <1>6, <2>2, FlowExecutes
    <3> QED BY <1>3, <1>6, <2>1, <3>1, <3>2, ExecuteFrame
  <2>3. CASE event \in Moves
    <3>1. Q = <<event>> \o OnTheWay(Moves)' BY <1>1, <1>6, <2>3, FlowExecutes
    <3>2. pos' = event.node
      <4>1. event.op = "PARTITION" => event.node = pos BY <1>1, <2>1, <2>3, RouteFirst
      <4>2. event.op \in {"INCREMENTAL", "PARTITION"} BY <2>1, <2>3 DEF Event, Moves
      <4> QED BY <1>6, <4>1, <4>2, ExecuteFrame
    <3>3. OnTheWay(Moves)' \in Seq(Moves)
      <4>1. TypeOK' BY TypeStep
      <4>2. (OnTheWay(Moves) \in Seq(Moves))' BY <4>1, MovesType, PTL
      <4> QED BY <4>2
    <3>4. Follows(Q, pos, seed, heading) /\ seed \in BOOLEAN /\ seed = TRUE BY <1>1, <2>1 DEF Begun, Route, TypeOK
    <3> DEFINE R == OnTheWay(Moves)'
    <3>5. Follows(<<event>> \o R, pos, seed, heading) BY <3>1, <3>4
    <3>6. R \in Seq(Moves) BY <3>3
    <3> HIDE DEF R
    <3>7. Follows(R, event.node, TRUE, heading) BY <2>3, <3>4, <3>5, <3>6, FollowsTail
    <3> QED BY <2>1, <3>2, <3>4, <3>7 DEF Route, R
  <2> QED BY <2>2, <2>3
<1>7. CASE Exit BY <1>7, ExitRests
<1>8. CASE ListenLemmas \/ ListenEvent
  <2>1. OnTheWay(Moves)' = Q BY <1>1, <1>2, <1>8, FlowListens
  <2> QED BY <1>3, <1>8, <2>1 DEF ListenLemmas, ListenEvent, processVars, solverVars
<1>9. CASE TakeEvent
  <2>1. OnTheWay(Moves)' = Q BY <1>1, <1>9, FlowTakes
  <2> QED BY <1>3, <1>9, <2>1 DEF TakeEvent, serverVars, processVars, solverVars
<1>10. CASE TakeFlag \/ Get \/ AskStop \/ Join
  <2>1. OnTheWay(Moves)' = Q BY <1>1, <1>2, <1>10, FlowStays
  <2> QED BY <1>3, <1>10, <2>1 DEF TakeFlag, Get, AskStop, Join, serverVars, processVars, solverVars
<1>11. CASE UNCHANGED vars \/ SearchAnswers \/ SearchStops \/ Splits \/ \E p \in Puller : StartPull(p)
  <2>1. UNCHANGED <<wire, events, commVars, conn, pos, seed, heading>>
    BY <1>11 DEF vars, SearchAnswers, SearchStops, SearchEnds, Splits, StartPull, serverVars, processVars, commVars,
                 solverVars
  <2>2. OnTheWay(Moves)' = Q BY <1>1, <1>2, <2>1, FlowStays
  <2> QED BY <1>3, <2>1, <2>2
<1>12. ASSUME NEW p \in Puller, EndPull(p) PROVE Route'
  <2>1. OnTheWay(Moves)' = Q BY <1>1, <1>2, <1>12, FlowStays
  <2> QED BY <1>3, <1>12, <2>1 DEF EndPull, serverVars, processVars, solverVars
<1> HIDE DEF Q
<1> QED BY <1>4, <1>5, <1>6, <1>7, <1>8, <1>9, <1>10, <1>11, <1>12, StepKinds

\* A process that was just started is at rest.
LEMMA InitInvariant == Init => IInv
<1> SUFFICES ASSUME Init PROVE IInv OBVIOUS
<1> USE DEF Init
<1>1. TypeOK
  <2>1. pull \in [Puller -> Node \cup {None}] /\ sent \in 0..MaxSends /\ pulls \in 0..MaxPulls BY ClientAssumption
  <2>2. wire \in Seq(Order) /\ events \in Seq(Event) /\ reports \in Seq(Answer) OBVIOUS
  <2>3. /\ heading = None /\ asked = {} /\ header = None /\ pulled = {} /\ event = None /\ pos = None
        /\ injected = {} /\ splits = None /\ workers = {}
    OBVIOUS
  <2>4. /\ conn = "up" /\ comm = "off" /\ future = "none" /\ partitioner = "none"
        /\ seed = FALSE /\ socket = FALSE /\ shallStop = FALSE /\ shouldStop = FALSE /\ decided = FALSE
        /\ answered = FALSE
    OBVIOUS
  <2> QED BY <2>1, <2>2, <2>3, <2>4 DEF TypeOK
<1>2. Begun /\ Unstopped /\ Results /\ PartsOfPos BY DEF Begun, Unstopped, Results, PartsOfPos, Up, Verdict
<1>3. OnTheWay(Moves) = <<>>
  <2>1. Held(Moves) = <<>> /\ Only(Moves, events) = <<>> /\ Only(Moves, wire) = <<>> BY OnlyEmpty DEF Held
  <2> QED BY <2>1 DEF OnTheWay
<1>4. Route
  <2>1. Len(<<>>) = 0 OBVIOUS
  <2> QED BY <1>3, <2>1 DEF Route, Follows
<1> QED BY <1>1, <1>2, <1>4 DEF IInv

\* Every step keeps the invariant.
LEMMA StepInvariant == IInv /\ [Next]_vars => IInv'
BY TypeStep, BegunStep, UnstoppedStep, ResultsStep, PartsOfPosStep, RouteStep DEF IInv

\* The threads of a solver process keep their types, their flags, the result of the
\* search and the orders on their way in step.
THEOREM SolverClientInvariant == Spec => []IInv
BY InitInvariant, StepInvariant, PTL DEF Spec

\* The variables of the process and of its channel have their types.
THEOREM SolverClientTypes == Spec => []TypeOK
<1>1. IInv => TypeOK BY DEF IInv
<1> QED BY <1>1, SolverClientInvariant, PTL

\* The communicator never finds a search without an answer behind the flag (the assertion
\* of Schedular.cc:128), whatever the server sends and the pull workers queue.
THEOREM FlagMeansAnswer == Spec => []GotVerdict
<1>1. IInv => GotVerdict BY DEF IInv, Unstopped, GotVerdict
<1> QED BY <1>1, SolverClientInvariant, PTL

-----------------------------------------------------------------------------
(* The process that the server counts on. *)

\* The orders as the server sees them.
Stripped(Q) == [i \in 1..Len(Q) |-> Strip(Q[i])]

\* An order of the server is a command of the process it sees.
LEMMA StripType ==
  /\ \A o \in Obeyed : Strip(o) \in View!Cmd /\ Strip(o).op = o.op
  /\ \A o \in Obeyed : o.op \in {"SOLVE", "INCREMENTAL"} => Strip(o).node = o.node
<1> SUFFICES ASSUME NEW o \in Obeyed
             PROVE  /\ Strip(o) \in View!Cmd /\ Strip(o).op = o.op
                    /\ o.op \in {"SOLVE", "INCREMENTAL"} => Strip(o).node = o.node
  OBVIOUS
<1>1. o \in Moves \/ o.op \in {"STOP", "TERMINATE"} BY OrderKinds DEF Obeyed, Order
<1>2. CASE o.op \in {"SOLVE", "INCREMENTAL"}
  <2>1. Strip(o) = o BY <1>2 DEF Strip
  <2>2. o \in [op : {"SOLVE", "INCREMENTAL"}, node : Node] BY <1>1, <1>2 DEF Moves
  <2>3. View!Node = Node BY DEF Node, View!Node
  <2> QED BY <2>1, <2>2, <2>3 DEF View!Cmd
<1>3. CASE o.op \notin {"SOLVE", "INCREMENTAL"}
  <2>1. Strip(o) = [op |-> o.op] BY <1>3 DEF Strip
  <2>2. o.op \in {"PARTITION", "STOP", "TERMINATE"} BY <1>1, <1>3, OrderKinds
  <2> QED BY <1>3, <2>1, <2>2 DEF View!Cmd
<1> QED BY <1>2, <1>3

\* A sequence is the function from its positions to its elements.
LEMMA SeqIsFunction ==
  ASSUME NEW S, NEW s \in Seq(S), NEW n, Len(s) = n
  PROVE  s = [i \in 1..n |-> s[i]]
<1>1. s \in [1..n -> S] BY LenProperties
<1> QED BY <1>1

\* An order more on its way is a command more.
LEMMA StrippedAppend ==
  ASSUME NEW Q \in Seq(Obeyed), NEW c \in Obeyed
  PROVE  Stripped(Append(Q, c)) = Append(Stripped(Q), Strip(c))
<1>1. Len(Q) \in Nat /\ Len(Stripped(Q)) = Len(Q) /\ Len(Append(Q, c)) = Len(Q) + 1 BY DEF Stripped
<1> DEFINE L == Stripped(Append(Q, c))
           R == Append(Stripped(Q), Strip(c))
<1>2. \A i \in 1..Len(Q) : Strip(Q[i]) \in View!Cmd BY StripType
<1>3. Stripped(Q) \in Seq(View!Cmd) /\ Strip(c) \in View!Cmd BY <1>1, <1>2, StripType DEF Stripped
<1>4. L = [i \in 1..(Len(Q) + 1) |-> IF i = Len(Q) + 1 THEN Strip(c) ELSE Strip(Q[i])] BY <1>1 DEF Stripped
<1>5. R = [i \in 1..(Len(Q) + 1) |-> IF i = Len(Q) + 1 THEN Strip(c) ELSE Stripped(Q)[i]]
  <2> DEFINE q == Stripped(Q)
             e == Strip(c)
             n == Len(Q)
  <2>1. n \in Nat /\ Len(q) = n /\ q \in Seq(View!Cmd) /\ e \in View!Cmd BY <1>1, <1>3
  <2> HIDE DEF q, e, n
  <2>2. Append(q, e) = [i \in 1..(n + 1) |-> IF i = n + 1 THEN e ELSE q[i]]
    <3>1. Append(q, e) \in Seq(View!Cmd) /\ Len(Append(q, e)) = n + 1 BY <2>1
    <3>2. Append(q, e) = [i \in 1..(n + 1) |-> Append(q, e)[i]] BY <3>1, SeqIsFunction
    <3>3. \A i \in 1..(n + 1) : Append(q, e)[i] = IF i = n + 1 THEN e ELSE q[i] BY <2>1
    <3> QED BY <3>2, <3>3
  <2> QED BY <2>2 DEF q, e, n
<1> HIDE DEF L, R
<1>6. \A i \in 1..(Len(Q) + 1) : i # Len(Q) + 1 => Stripped(Q)[i] = Strip(Q[i]) BY <1>1 DEF Stripped
<1> QED BY <1>4, <1>5, <1>6 DEF L, R

\* The first order is the first command.
LEMMA StrippedTail ==
  ASSUME NEW x \in Obeyed, NEW R \in Seq(Obeyed)
  PROVE  /\ Stripped(<<x>> \o R) # <<>> /\ Head(Stripped(<<x>> \o R)) = Strip(x)
         /\ Tail(Stripped(<<x>> \o R)) = Stripped(R)
<1> DEFINE Q == <<x>> \o R
           s == Stripped(Q)
<1>1. Q \in Seq(Obeyed) /\ Len(R) \in Nat /\ Len(Q) = Len(R) + 1 /\ Q[1] = x /\ \A i \in 1..Len(R) : Q[i + 1] = R[i]
  OBVIOUS
<1> HIDE DEF Q
<1>2. \A i \in 1..Len(Q) : Strip(Q[i]) \in View!Cmd BY <1>1, StripType
<1>3. s \in Seq(View!Cmd) /\ Len(s) = Len(R) + 1 /\ \A i \in 1..(Len(R) + 1) : s[i] = Strip(Q[i])
  BY <1>1, <1>2 DEF Stripped
<1> HIDE DEF s
<1>4. s # <<>> /\ Head(s) = s[1] BY <1>1, <1>3
<1>5. Tail(s) = [i \in 1..Len(R) |-> s[i + 1]]
  <2>1. Tail(s) \in Seq(View!Cmd) /\ Len(Tail(s)) = Len(R) /\ \A i \in 1..Len(R) : Tail(s)[i] = s[i + 1]
    BY <1>1, <1>3, <1>4, HeadTailProperties
  <2>2. Tail(s) = [i \in 1..Len(R) |-> Tail(s)[i]] BY <2>1, SeqIsFunction
  <2> QED BY <2>1, <2>2
<1>6. \A i \in 1..Len(R) : s[i + 1] = Strip(R[i]) BY <1>1, <1>3
<1>7. Tail(s) = Stripped(R) BY <1>5, <1>6 DEF Stripped
<1>8. s[1] = Strip(x) BY <1>1, <1>3
<1> QED BY <1>4, <1>7, <1>8 DEF s, Q

\* What is on its way is a sequence of orders that are obeyed.
LEMMA ObeyedType == TypeOK => OnTheWay(Obeyed) \in Seq(Obeyed)
BY OnTheWayType

\* What becomes of the commands when an order is added, obeyed or neither.
LEMMA CommandsFlow ==
  ASSUME TypeOK, TypeOK'
  PROVE  /\ OnTheWay(Obeyed)' = OnTheWay(Obeyed) => Pending' = Pending
         /\ \A c \in Obeyed : OnTheWay(Obeyed)' = Append(OnTheWay(Obeyed), c) =>
              Strip(c) \in View!Cmd /\ Pending' = Append(Pending, Strip(c))
         /\ \A x \in Obeyed : OnTheWay(Obeyed) = <<x>> \o OnTheWay(Obeyed)' =>
              Pending # <<>> /\ Head(Pending) = Strip(x) /\ Pending' = Tail(Pending)
<1> DEFINE Q == OnTheWay(Obeyed)
           R == OnTheWay(Obeyed)'
<1>1. Q \in Seq(Obeyed) BY ObeyedType
<1>2. R \in Seq(Obeyed)
  <2>1. (OnTheWay(Obeyed) \in Seq(Obeyed))' BY ObeyedType, PTL
  <2> QED BY <2>1
<1>3. Pending = Stripped(Q) BY DEF Pending, Stripped
<1>4. Pending' = Stripped(R) BY DEF Pending, Stripped, Strip
<1> HIDE DEF Q, R
<1>5. \A c \in Obeyed : R = Append(Q, c) => Strip(c) \in View!Cmd /\ Pending' = Append(Pending, Strip(c))
  BY <1>1, <1>3, <1>4, StrippedAppend, StripType
<1>6. \A x \in Obeyed : Q = <<x>> \o R => Pending # <<>> /\ Head(Pending) = Strip(x) /\ Pending' = Tail(Pending)
  BY <1>2, <1>3, <1>4, StrippedTail
<1> QED BY <1>3, <1>4, <1>5, <1>6 DEF Q, R

\* The process that was just started is one that the server may find.
LEMMA PromiseInit == Init => View!Init
<1> SUFFICES ASSUME Init PROVE View!Init OBVIOUS
<1>1. OnTheWay(Obeyed) = <<>>
  <2>1. Held(Obeyed) = <<>> /\ Only(Obeyed, events) = <<>> /\ Only(Obeyed, wire) = <<>> BY OnlyEmpty DEF Held, Init
  <2> QED BY <2>1 DEF OnTheWay
<1>2. Pending = <<>>
  <2>1. Pending = [i \in 1..Len(<<>>) |-> Strip(OnTheWay(Obeyed)[i])] BY <1>1 DEF Pending
  <2>2. 1..Len(<<>>) = {} OBVIOUS
  <2> QED BY <2>1, <2>2
<1>3. Models \subseteq View!Node BY ClientAssumption DEF View!Node
<1>4. (partitioner = "running") = FALSE BY DEF Init
<1> QED BY <1>2, <1>3, <1>4 DEF Init, View!Init

\* What the server sends.
LEMMA PromiseServer == IInv /\ IInv' /\ Server => [View!Next]_View!vars
<1> SUFFICES ASSUME IInv, IInv', Server PROVE [View!Next]_View!vars OBVIOUS
<1>1. TypeOK /\ TypeOK' BY DEF IInv
<1>2. UNCHANGED <<conn, pos, partitioner, answered>> BY ServerFrame
<1>3. Obeyed \in SUBSET Obeyed OBVIOUS
<1>4. ASSUME NEW c \in Order, Send(c) PROVE [View!Next]_View!vars
  <2>1. Up /\ UNCHANGED reports BY <1>4 DEF Send
  <2>2. OnTheWay(Obeyed)' = IF c \in Obeyed THEN Append(OnTheWay(Obeyed), c) ELSE OnTheWay(Obeyed)
    BY <1>1, <1>4, FlowSends
  <2>3. CASE c \in Obeyed
    <3>1. Strip(c) \in View!Cmd /\ Pending' = Append(Pending, Strip(c)) BY <1>1, <2>2, <2>3, CommandsFlow
    <3>2. View!Send BY <1>2, <2>1, <3>1 DEF View!Send, View!Up, Up
    <3> QED BY <3>2 DEF View!Next
  <2>4. CASE c \notin Obeyed
    <3>1. Pending' = Pending BY <1>1, <2>2, <2>4, CommandsFlow
    <3> QED BY <1>2, <2>1, <3>1 DEF View!vars
  <2> QED BY <2>3, <2>4
<1>5. ASSUME NEW n \in Node, SendMove(n) PROVE [View!Next]_View!vars
  <2>1. [op |-> IF heading = None THEN "SOLVE" ELSE "INCREMENTAL", node |-> n] \in Order BY DEF Order
  <2> QED BY <1>4, <1>5, <2>1 DEF SendMove
<1>6. CASE SendPartition
  <2>1. heading \in Node BY <1>1, <1>6 DEF SendPartition, TypeOK
  <2>2. [op |-> "PARTITION", node |-> heading] \in Order BY <2>1 DEF Order
  <2> QED BY <1>4, <1>6, <2>2 DEF SendPartition
<1>7. CASE SendOther
  <2>1. PICK o \in {"LEMMAS", "STOP", "TERMINATE"} : Send([op |-> o]) BY <1>7 DEF SendOther
  <2>2. [op |-> o] \in Order BY DEF Order
  <2> QED BY <1>4, <2>1, <2>2
<1>8. CASE ServerReads
  <2>1. UNCHANGED <<wire, events, commVars>> BY <1>8 DEF ServerReads, serverVars
  <2>2. Pending' = Pending BY <1>1, <1>3, <2>1, FlowStays, CommandsFlow
  <2>3. reports # <<>> /\ reports' = Tail(reports) BY <1>8 DEF ServerReads
  <2>4. View!Receive BY <1>2, <2>2, <2>3 DEF View!Receive
  <2> QED BY <2>4 DEF View!Next
<1> QED BY <1>5, <1>6, <1>7, <1>8 DEF Server

\* What the process reports and obeys.
LEMMA PromiseProcess == IInv /\ IInv' /\ [Next]_vars /\ ~Server => [View!Next]_View!vars
<1> SUFFICES ASSUME IInv, IInv', [Next]_vars, ~Server PROVE [View!Next]_View!vars OBVIOUS
<1>1. TypeOK /\ TypeOK' /\ Begun /\ Unstopped /\ Results /\ PartsOfPos /\ (Up => Route) BY DEF IInv
<1>2. Obeyed \in SUBSET Obeyed /\ Obeyed \in SUBSET Order /\ Moves \subseteq Obeyed BY OrderKinds
<1>3. ASSUME OnTheWay(Obeyed)' = OnTheWay(Obeyed), UNCHANGED <<conn, reports, pos, partitioner, answered>>
      PROVE  [View!Next]_View!vars
  <2>1. Pending' = Pending BY <1>1, <1>3, CommandsFlow
  <2> QED BY <1>3, <2>1 DEF View!vars
<1>4. CASE ListenSolve
  <2>1. Up /\ ~seed /\ Head(wire) \in Moves /\ Head(wire).op = "SOLVE" BY <1>1, <1>4, RouteFirst DEF ListenSolve, Reads
  <2>2. comm = "off" /\ events = <<>> /\ answered = FALSE /\ partitioner = "none"
    BY <1>1, <2>1 DEF Begun, TypeOK
  <2>3. Head(wire) \in Obeyed BY <1>2, <2>1
  <2>4. OnTheWay(Obeyed) = <<Head(wire)>> \o OnTheWay(Obeyed)' BY <1>1, <1>2, <1>4, <2>2, <2>3, FlowSolves
  <2>5. Pending # <<>> /\ Head(Pending) = Strip(Head(wire)) /\ Pending' = Tail(Pending)
    BY <1>1, <2>3, <2>4, CommandsFlow
  <2>6. Strip(Head(wire)).op = "SOLVE" /\ Strip(Head(wire)).node = Head(wire).node BY <2>1, <2>3, StripType
  <2>7. pos' = Head(wire).node /\ UNCHANGED <<conn, reports, answered, partitioner>>
    BY <1>4 DEF ListenSolve, partVars
  <2>8. View!Move BY <2>1, <2>2, <2>5, <2>6, <2>7 DEF View!Move, View!Up, Up
  <2> QED BY <2>8 DEF View!Next
<1>5. ASSUME Exit, Up, Mortal \/ \E i \in 1..Len(Pending) : Pending[i].op \in {"STOP", "TERMINATE"}
      PROVE  [View!Next]_View!vars
  <2>1. OnTheWay(Obeyed)' = <<>>
    <3>1. wire' = <<>> /\ events' = <<>> /\ comm' = "off" BY <1>5 DEF Exit
    <3>2. Held(Obeyed)' = <<>> BY <3>1 DEF Held
    <3>3. Only(Obeyed, events)' = <<>> /\ Only(Obeyed, wire)' = <<>>
      <4>1. Only(Obeyed, events') = <<>> /\ Only(Obeyed, wire') = <<>> BY <3>1, OnlyEmpty
      <4> QED BY <4>1 DEF Only
    <3> QED BY <3>2, <3>3 DEF OnTheWay
  <2>2. Pending' = <<>>
    <3>1. Pending' = [i \in 1..Len(<<>>) |-> Strip(OnTheWay(Obeyed)[i])'] BY <2>1 DEF Pending
    <3>2. 1..Len(<<>>) = {} OBVIOUS
    <3> QED BY <3>1, <3>2
  <2>3. conn' = "dead" /\ UNCHANGED reports BY <1>5 DEF Exit
  <2>4. pos' = None /\ answered' = FALSE /\ partitioner' = "none" BY <1>5, ExitRests
  <2>5. View!Exit BY <1>5, <2>2, <2>3, <2>4 DEF View!Exit, View!Up, Up
  <2> QED BY <2>5 DEF View!Next
<1>6. CASE ListenStop
  <2>1. Up /\ wire # <<>> /\ Head(wire).op \in {"STOP", "TERMINATE"} /\ Exit BY <1>6 DEF ListenStop
  <2>2. Head(wire) \in Order BY <1>1, <2>1 DEF TypeOK
  <2>3. Head(wire) \in Obeyed
    <3>1. Head(wire) # [op |-> "LEMMAS"] BY <2>1
    <3> QED BY <2>2, <3>1 DEF Obeyed
  <2>4. PICK i \in 1..Len(OnTheWay(Obeyed)) : OnTheWay(Obeyed)[i] = Head(wire) BY <1>1, <2>1, <2>3, FirstRead
  <2>5. Len(Pending) = Len(OnTheWay(Obeyed)) /\ Pending[i] = Strip(OnTheWay(Obeyed)[i])
    <3> DEFINE Q == OnTheWay(Obeyed)
    <3>1. Len(Q) \in Nat BY <1>1, ObeyedType
    <3>2. Pending = [j \in 1..Len(Q) |-> Strip(Q[j])] BY DEF Pending
    <3> HIDE DEF Q
    <3>3. Len(Pending) = Len(Q) BY <3>1, <3>2
    <3>4. i \in 1..Len(Q) BY DEF Q
    <3> QED BY <3>2, <3>3, <3>4 DEF Q
  <2>6. Pending[i].op = Head(wire).op BY <2>3, <2>4, <2>5, StripType
  <2> QED BY <1>5, <2>1, <2>5, <2>6
<1>7. CASE MemoryOut BY <1>5, <1>7 DEF MemoryOut
<1>8. ASSUME Up, future \in Verdict, comm # "off", Report([kind |-> future, node |-> header]), answered' = TRUE,
             UNCHANGED <<conn, pos, partitioner>>, OnTheWay(Obeyed)' = OnTheWay(Obeyed)
      PROVE  [View!Next]_View!vars
  <2>1. answered = FALSE /\ header = pos /\ pos \in Node /\ future = Truth(pos)
    BY <1>1, <1>8 DEF TypeOK, Begun, Results
  <2>2. Pending' = Pending BY <1>1, <1>8, CommandsFlow
  <2>3. reports' = Append(reports, [kind |-> IF pos \in Models THEN "sat" ELSE "unsat", node |-> pos])
    BY <1>8, <2>1 DEF Report, Truth
  <2>4. View!Answer BY <1>8, <2>1, <2>2, <2>3, EventType DEF View!Answer, View!Report, View!Up, Up
  <2> QED BY <2>4 DEF View!Next
<1>9. CASE Get
  <2>1. Up /\ comm = "get" /\ future \in Verdict BY <1>1, <1>9 DEF TypeOK, Unstopped, Get, Took, Ready
  <2>2. OnTheWay(Obeyed)' = OnTheWay(Obeyed) BY <1>1, <1>2, <1>9, FlowStays
  <2> QED BY <1>8, <1>9, <2>1, <2>2 DEF Get, processVars, partVars
<1>10. CASE Join
  <2>1. Up /\ comm = "join" /\ future \in Verdict \cup {"unknown"} BY <1>1, <1>10 DEF TypeOK, Join, Took, Ready
  <2>2. OnTheWay(Obeyed)' = OnTheWay(Obeyed) BY <1>1, <1>2, <1>10, FlowStays
  <2>3. UNCHANGED <<conn, pos, partitioner>> BY <1>10 DEF Join, processVars, partVars
  <2>4. CASE Conclusive
    <3>1. Report([kind |-> future, node |-> header]) /\ answered' = TRUE BY <1>10, <2>4 DEF Join
    <3>2. future \in Verdict BY <2>1, <2>4 DEF Conclusive
    <3> QED BY <1>8, <2>1, <2>2, <2>3, <3>1, <3>2
  <2>5. CASE ~Conclusive
    <3>1. UNCHANGED <<reports, answered>> BY <1>10, <2>5 DEF Join
    <3> QED BY <1>3, <2>2, <2>3, <3>1
  <2> QED BY <2>4, <2>5
<1>11. CASE Execute
  <2>1. Up /\ comm = "execute" /\ event \in Event /\ answered' = FALSE /\ UNCHANGED <<conn, reports>>
    BY <1>1, <1>11, ExecuteFrame DEF Begun, TypeOK
  <2>2. CASE event.op \in {"RESUME", "INJECT"}
    <3>1. event \notin Obeyed
      <4>1. \A o \in Order : o.op \notin {"RESUME", "INJECT"} BY DEF Order
      <4> QED BY <1>2, <2>2, <4>1
    <3>2. Pending' = Pending BY <1>1, <1>2, <1>11, <3>1, FlowExecutes, CommandsFlow
    <3>3. UNCHANGED <<pos, partitioner>> BY <1>11, <2>2, ExecuteFrame
    <3>4. View!Restart BY <2>1, <3>2, <3>3 DEF View!Restart, View!Up, Up
    <3> QED BY <3>4 DEF View!Next
  <2>3. CASE event.op \in {"INCREMENTAL", "PARTITION"}
    <3>1. event \in Moves BY <2>1, <2>3 DEF Event, Moves
    <3>2. event \in Obeyed BY <1>2, <3>1
    <3>3. OnTheWay(Obeyed) = <<event>> \o OnTheWay(Obeyed)' BY <1>1, <1>2, <1>11, <3>2, FlowExecutes
    <3>4. Pending # <<>> /\ Head(Pending) = Strip(event) /\ Pending' = Tail(Pending)
      BY <1>1, <3>2, <3>3, CommandsFlow
    <3>5. Strip(event).op = event.op /\ (event.op = "INCREMENTAL" => Strip(event).node = event.node)
      BY <3>2, StripType
    <3>6. CASE event.op = "INCREMENTAL"
      <4>1. pos' = event.node /\ partitioner' = "none" BY <1>11, <3>6, ExecuteFrame
      <4>2. View!Move BY <2>1, <3>4, <3>5, <3>6, <4>1 DEF View!Move, View!Up, Up
      <4> QED BY <4>2 DEF View!Next
    <3>7. CASE event.op = "PARTITION"
      <4>1. future = "none" /\ decided = answered BY <1>1, <2>1 DEF Results
      <4>2. pos' = pos BY <1>11, <3>7, ExecuteFrame
      <4>3. (partitioner = "running")' = (partitioner = "running" \/ ~answered)
        <5>1. CASE decided
          <6>1. partitioner' = partitioner BY <1>11, <3>7, <5>1, ExecuteFrame
          <6> QED BY <4>1, <5>1, <6>1
        <5>2. CASE ~decided
          <6>1. partitioner' = "running" BY <1>11, <3>7, <5>2, ExecuteFrame
          <6> QED BY <4>1, <5>2, <6>1
        <5> QED BY <5>1, <5>2
      <4>4. View!Partition BY <2>1, <3>4, <3>5, <3>7, <4>2, <4>3 DEF View!Partition, View!Up, Up
      <4> QED BY <4>4 DEF View!Next
    <3> QED BY <2>3, <3>6, <3>7
  <2> QED BY <2>1, <2>2, <2>3 DEF Event
<1>12. CASE Splits
  <2>1. UNCHANGED <<wire, events, commVars>> BY <1>12 DEF Splits, serverVars
  <2>2. Pending' = Pending BY <1>1, <1>2, <2>1, FlowStays, CommandsFlow
  <2>3. Up /\ partitioner = "running" /\ partitioner' = "exited" /\ splits = pos /\ UNCHANGED <<conn, pos, answered>>
    BY <1>1, <1>12 DEF Splits, PartsOfPos, processVars, solverVars
  <2>4. \/ \E m \in 0..K : /\ m = 0 => pos \notin Models
                           /\ reports' = Append(reports, [kind |-> "parts", node |-> pos, size |-> m])
        \/ pos \in Models /\ reports' = Append(reports, [kind |-> "sat", node |-> pos])
    BY <1>12, <2>3 DEF Splits, Report
  <2>5. View!AnswerParts BY <2>2, <2>3, <2>4 DEF View!AnswerParts, View!Report, View!Up, Up
  <2> QED BY <2>5 DEF View!Next
<1>13. CASE UNCHANGED vars \/ SearchAnswers \/ SearchStops
  <2>1. UNCHANGED <<wire, events, commVars, conn, reports, pos, partitioner, answered>>
    BY <1>13 DEF vars, SearchAnswers, SearchStops, SearchEnds, serverVars, processVars, solverVars, partVars
  <2> QED BY <1>1, <1>2, <1>3, <2>1, FlowStays
<1>14. CASE ListenLemmas \/ ListenEvent
  <2>1. UNCHANGED <<conn, reports, pos, partitioner, answered>>
    BY <1>14 DEF ListenLemmas, ListenEvent, processVars, solverVars, partVars
  <2> QED BY <1>1, <1>2, <1>3, <1>14, <2>1, FlowListens
<1>15. CASE TakeFlag \/ AskStop
  <2>1. UNCHANGED <<conn, reports, pos, partitioner, answered>>
    BY <1>15 DEF TakeFlag, AskStop, processVars, solverVars, partVars
  <2> QED BY <1>1, <1>2, <1>3, <1>15, <2>1, FlowStays
<1>16. CASE TakeEvent
  <2>1. UNCHANGED <<conn, reports, pos, partitioner, answered>>
    BY <1>16 DEF TakeEvent, processVars, solverVars, partVars
  <2> QED BY <1>1, <1>3, <1>16, <2>1, FlowTakes
<1>17. ASSUME NEW p \in Puller, StartPull(p) PROVE [View!Next]_View!vars
  <2>1. UNCHANGED <<wire, events, commVars, conn, reports, pos, partitioner, answered>>
    BY <1>17 DEF StartPull, serverVars, processVars, solverVars, partVars
  <2> QED BY <1>1, <1>2, <1>3, <2>1, FlowStays
<1>18. ASSUME NEW p \in Puller, EndPull(p) PROVE [View!Next]_View!vars
  <2>1. UNCHANGED <<conn, reports, pos, partitioner, answered>>
    BY <1>18 DEF EndPull, processVars, solverVars, partVars
  <2> QED BY <1>1, <1>2, <1>3, <1>18, <2>1, FlowStays
<1> QED BY <1>4, <1>6, <1>7, <1>9, <1>10, <1>11, <1>12, <1>13, <1>14, <1>15, <1>16, <1>17, <1>18
        DEF Next, Listener, Communicator, Search

\* The threads of a solver process implement the process that the server counts on: the
\* orders it has not executed are the commands it still has to obey, and whatever it
\* reports is the truth about the node those commands brought it to.
THEOREM ThreadsKeepPromise == Spec => ClientPromise
<1>1. Init => View!Init BY PromiseInit
<1>2. IInv /\ IInv' /\ [Next]_vars => [View!Next]_View!vars BY PromiseServer, PromiseProcess
<1> QED BY <1>1, <1>2, SolverClientInvariant, PTL DEF Spec, ClientPromise, View!Spec
=============================================================================
