-------------------------- MODULE LemmaServerProofs --------------------------
(***************************************************************************)
(* Proofs about LemmaServer.tla, for any number of solvers and of nodes,   *)
(* any K, amount and cut size, with and without the option to send again.  *)
(*                                                                         *)
(* A clause is stored at its home, the place named by the parts chosen     *)
(* on the way to the node it is named after.  The first section shows that *)
(* a home determines its node: what a pull finds on the path of a node     *)
(* then holds at that node.  The rest is the inductive invariant IInv: a   *)
(* solver has one pull on its way at most and nothing after it, an answer  *)
(* is right for the pull that waits for it, and what a solver pushed is    *)
(* recorded for it or in a queue before its next pull.  The last two parts *)
(* hold only while the socket of a task is the one it came from, the very  *)
(* last while garbageCollect erases no record.                             *)
(***************************************************************************)
EXTENDS LemmaServer, TLAPS, FiniteSetTheorems, SequenceTheorems, WellFoundedInduction

-----------------------------------------------------------------------------
(* The tree of nodes. *)

Par(n) == (n - 1) \div K

\* Every set of numbers has a least one: the proofs about Branch take the least
\* counterexample.
LEMMA LeastNat ==
  ASSUME NEW T, T \subseteq Nat, T # {}
  PROVE  \E x \in T : \A y \in T : x <= y
<1>1. PICK x \in T : \A y \in T : <<y, x>> \notin OpToRel(<, Nat) BY NatLessThanWellFounded, WFMin
<1>2. \A y \in T : ~(y < x) BY <1>1 DEF OpToRel
<1> QED BY <1>2

\* The parent of a node is a node with a lower number.
LEMMA ParBelow ==
  ASSUME NEW n \in Node \ {Root}
  PROVE  Par(n) \in Node /\ Par(n) < n /\ n \in Nat
BY LemmaAssumption DEF Node, Root, Par

\* g solves the recursion of Branch up to n.
Partial(g, n) == g = [m \in 0..n |-> IF m = Root THEN <<Root>> ELSE Append(g[Par(m)], m)]

\* The recursion of Branch has a solution up to every node.
LEMMA PartialExists == \A n \in Node : \E g : Partial(g, n)
<1> SUFFICES ASSUME NEW T, T = {n \in Node : ~\E g : Partial(g, n)}, T # {} PROVE FALSE
  OBVIOUS
<1>1. PICK n \in T : \A y \in T : n <= y
  <2>1. T \subseteq Nat BY LemmaAssumption DEF Node
  <2> QED BY <2>1, LeastNat
<1>2. n \in Node /\ ~\E g : Partial(g, n) BY <1>1
<1>3. CASE n = Root
  <2> DEFINE g == [m \in 0..0 |-> <<Root>>]
  <2>1. Partial(g, 0) BY DEF Partial, Root
  <2> QED BY <1>2, <1>3, <2>1 DEF Root
<1>4. CASE n # Root
  <2>0. n \in Nat /\ n > 0 /\ n - 1 \in Node BY <1>2, <1>4, LemmaAssumption DEF Node, Root
  <2>1. n - 1 \notin T BY <1>1, <2>0
  <2>2. PICK g : Partial(g, n - 1) BY <2>0, <2>1
  <2> DEFINE h == [m \in 0..n |-> IF m = n THEN Append(g[Par(n)], n) ELSE g[m]]
  <2>3. \A m \in 0..n : m # Root => Par(m) \in 0..(n - 1) /\ Par(m) < m
    BY <2>0, <1>2, ParBelow, LemmaAssumption DEF Node, Root
  <2>4. \A m \in 0..n : h[m] = IF m = Root THEN <<Root>> ELSE Append(h[Par(m)], m)
    <3> SUFFICES ASSUME NEW m \in 0..n PROVE h[m] = IF m = Root THEN <<Root>> ELSE Append(h[Par(m)], m) OBVIOUS
    <3>1. m # Root => h[Par(m)] = g[Par(m)] BY <2>0, <2>3
    <3>2. CASE m = n BY <1>4, <3>1, <3>2
    <3>3. CASE m # n
      <4>1. m \in 0..(n - 1) BY <2>0, <3>3
      <4>2. g[m] = IF m = Root THEN <<Root>> ELSE Append(g[Par(m)], m) BY <2>2, <4>1 DEF Partial
      <4> QED BY <3>1, <3>3, <4>2
    <3> QED BY <3>2, <3>3
  <2>5. Partial(h, n)
    <3> HIDE DEF h
    <3>1. h = [m \in 0..n |-> h[m]] BY DEF h
    <3> QED BY <2>4, <3>1 DEF Partial
  <2> QED BY <1>2, <2>5
<1> QED BY <1>3, <1>4

\* Branch satisfies the equation that defines it.
LEMMA BranchIs == Branch = [m \in Node |-> IF m = Root THEN <<Root>> ELSE Append(Branch[Par(m)], m)]
<1>1. MaxNode \in Node BY LemmaAssumption DEF Node
<1>2. \E g : g = [m \in Node |-> IF m = Root THEN <<Root>> ELSE Append(g[(m - 1) \div K], m)]
  BY <1>1, PartialExists DEF Partial, Par, Node
<1> QED BY <1>2, Zenon DEF Branch, Par

\* What the steps from the root to a node are.
BranchShape(n) ==
  /\ Branch[n] \in Seq(Node) /\ Len(Branch[n]) \in 1..(n + 1) /\ Branch[n][Len(Branch[n])] = n
  /\ Branch[n][1] = Root
  /\ \A i \in 1..Len(Branch[n]) :
       /\ i > 1 => Branch[n][i] # Root /\ Branch[n][i - 1] = Par(Branch[n][i])
       /\ Len(Branch[Branch[n][i]]) = i
       /\ \A j \in 1..i : Branch[Branch[n][i]][j] = Branch[n][j]

\* The same, node by node.
LEMMA BranchUnfold ==
  /\ Root \in Node /\ Branch[Root] = <<Root>>
  /\ \A n \in Node \ {Root} : Branch[n] = Append(Branch[Par(n)], n)
<1>0. Root \in Node BY LemmaAssumption DEF Node, Root
<1> DEFINE R(f) == [m \in Node |-> IF m = Root THEN <<Root>> ELSE Append(f[Par(m)], m)]
<1>1. \A m \in Node : R(Branch)[m] = IF m = Root THEN <<Root>> ELSE Append(Branch[Par(m)], m) OBVIOUS
<1>2. \A m \in Node : Branch[m] = IF m = Root THEN <<Root>> ELSE Append(Branch[Par(m)], m)
  <2> HIDE DEF R
  <2>1. Branch = R(Branch) BY BranchIs DEF R
  <2> QED BY <1>1, <2>1
<1> QED BY <1>0, <1>2

\* Branch[n] is the path from the root to n, for every node.
LEMMA BranchShaped == \A n \in Node : BranchShape(n)
<1> SUFFICES ASSUME NEW T, T = {n \in Node : ~BranchShape(n)}, T # {} PROVE FALSE
  OBVIOUS
<1>1. PICK n \in T : \A y \in T : n <= y
  <2>1. T \subseteq Nat BY LemmaAssumption DEF Node
  <2> QED BY <2>1, LeastNat
<1>2. n \in Node /\ ~BranchShape(n) /\ n \in Nat BY <1>1, LemmaAssumption DEF Node
<1>3. CASE n = Root
  <2>1. Branch[n] = <<Root>> /\ n \in Node BY <1>2, <1>3, BranchUnfold
  <2>2. Len(Branch[n]) = 1 /\ Branch[n][1] = Root BY <2>1
  <2>3. Branch[n] \in Seq(Node) BY <1>2, <1>3, <2>1
  <2>4. n = Root /\ Len(Branch[n]) \in 1..(n + 1) /\ Branch[n][Len(Branch[n])] = n
    BY <1>2, <1>3, <2>2
  <2>5. ASSUME NEW i \in 1..Len(Branch[n])
        PROVE  /\ ~(i > 1) /\ Len(Branch[Branch[n][i]]) = i
               /\ \A j \in 1..i : Branch[Branch[n][i]][j] = Branch[n][j]
    <3>1. i = 1 BY <2>2
    <3>2. Branch[n][i] = n BY <1>3, <2>2, <3>1
    <3> QED BY <2>2, <3>1, <3>2
  <2> QED BY <1>2, <2>2, <2>3, <2>4, <2>5 DEF BranchShape
<1>4. CASE n # Root
  <2>1. Par(n) \in Node /\ Par(n) < n /\ Par(n) \in Nat BY <1>2, <1>4, ParBelow DEF Node
  <2>2. BranchShape(Par(n)) BY <1>1, <1>2, <2>1
  <2>3. Branch[n] = Append(Branch[Par(n)], n) BY <1>2, <1>4, BranchUnfold
  <2> DEFINE b == Branch[Par(n)]
  <2>4. /\ b \in Seq(Node) /\ Len(b) \in 1..(Par(n) + 1) /\ b[Len(b)] = Par(n) /\ b[1] = Root
        /\ \A i \in 1..Len(b) : /\ i > 1 => b[i] # Root /\ b[i - 1] = Par(b[i])
                                /\ Len(Branch[b[i]]) = i
                                /\ \A j \in 1..i : Branch[b[i]][j] = b[j]
    BY <2>2 DEF BranchShape
  <2> HIDE DEF b
  <2>5. /\ Branch[n] \in Seq(Node) /\ Len(Branch[n]) = Len(b) + 1
        /\ \A i \in 1..(Len(b) + 1) : Branch[n][i] = IF i = Len(b) + 1 THEN n ELSE b[i]
    <3>1. Branch[n] = Append(b, n) BY <2>3 DEF b
    <3> QED BY <1>2, <2>4, <3>1
  <2>6. Len(Branch[n]) \in 1..(n + 1) /\ Branch[n][Len(Branch[n])] = n /\ Branch[n][1] = Root
    BY <1>2, <2>1, <2>4, <2>5
  <2>7. ASSUME NEW i \in 1..Len(Branch[n])
        PROVE  /\ i > 1 => Branch[n][i] # Root /\ Branch[n][i - 1] = Par(Branch[n][i])
               /\ Len(Branch[Branch[n][i]]) = i
               /\ \A j \in 1..i : Branch[Branch[n][i]][j] = Branch[n][j]
    <3>1. CASE i = Len(b) + 1
      <4>1. Branch[n][i] = n BY <2>5, <3>1
      <4>2. i - 1 \in 1..(Len(b) + 1) /\ i - 1 = Len(b) BY <2>4, <3>1
      <4>3. Branch[n][i - 1] = Par(n) BY <2>4, <2>5, <4>2
      <4> QED BY <1>4, <2>5, <3>1, <4>1, <4>3
    <3>2. CASE i # Len(b) + 1
      <4>1. i \in 1..Len(b) /\ i \in 1..(Len(b) + 1) BY <2>4, <2>5, <3>2
      <4>2. Branch[n][i] = b[i] BY <2>4, <2>5, <3>2, <4>1
      <4>3. \A j \in 1..i : j \in 1..Len(b) /\ Branch[n][j] = b[j] BY <2>4, <2>5, <4>1
      <4>4. i > 1 => i - 1 \in 1..i BY <2>4, <4>1
      <4> QED BY <2>4, <4>1, <4>2, <4>3, <4>4
    <3> QED BY <3>1, <3>2
  <2>8. BranchShape(n) BY <2>5, <2>6, <2>7 DEF BranchShape
  <2> QED BY <1>2, <2>8
<1> QED BY <1>3, <1>4

\* Levels are numbers, and not above that of the node.
LEMMA LevelType == \A n \in Node : Level(n) \in Nat /\ Level(n) \in Node /\ Level(n) <= n
BY BranchShaped, LemmaAssumption DEF BranchShape, Level, Node

\* A clause of a branch belongs at the same place wherever on it it was learned.
LEMMA HomeOnBranch ==
  ASSUME NEW n \in Node, NEW c \in OnBranch(n)
  PROVE  /\ c \in Node /\ Level(c) \in 0..Level(n) /\ Slot(n, Level(c)) = Slot(c, Level(c))
<1>1. PICK i \in 1..Len(Branch[n]) : c = Branch[n][i] BY DEF OnBranch
<1>2. BranchShape(n) BY BranchShaped
<1>3. c \in Node /\ Len(Branch[c]) = i /\ \A j \in 1..i : Branch[c][j] = Branch[n][j]
  BY <1>1, <1>2 DEF BranchShape
<1>4. Len(Branch[n]) \in Nat /\ i \in Nat BY <1>2 DEF BranchShape
<1>5. Level(c) = i - 1 /\ Level(c) \in 0..Level(n) BY <1>3, <1>4 DEF Level
<1>6. \A j \in 1..(i - 1) : j + 1 \in 1..i BY <1>4
<1>7. \A j \in 1..(i - 1) : Branch[c][j + 1] = Branch[n][j + 1] BY <1>3, <1>6
<1>8. Slot(n, i - 1) = Slot(c, i - 1) BY <1>7 DEF Slot
<1> QED BY <1>3, <1>5, <1>8

\* A node is found again from its path of parts.
LEMMA PartOf ==
  ASSUME NEW n \in Node \ {Root}
  PROVE  n = K * Par(n) + ((n - 1) % K) + 1
<1>1. n - 1 \in Nat /\ K \in Nat /\ K > 0 /\ n \in Nat BY LemmaAssumption DEF Node, Root
<1>2. \A x \in Nat : x = K * (x \div K) + (x % K) BY <1>1, Z3
<1>3. n - 1 = K * ((n - 1) \div K) + ((n - 1) % K) BY <1>1, <1>2
<1>4. (n - 1) % K \in Nat /\ (n - 1) \div K \in Nat BY <1>1
<1>5. K * ((n - 1) \div K) \in Nat BY <1>1, <1>4
<1> QED BY <1>1, <1>3, <1>4, <1>5 DEF Par

\* Two nodes that agree on the parts chosen down to a level have the same ancestors
\* down to it.
LEMMA SameSlotSameBranch ==
  ASSUME NEW n \in Node, NEW m \in Node, NEW k \in Nat, k <= Level(n), k <= Level(m), Slot(n, k) = Slot(m, k)
  PROVE  \A i \in 1..(k + 1) : Branch[n][i] = Branch[m][i]
<1> DEFINE T == {i \in 1..(k + 1) : Branch[n][i] # Branch[m][i]}
<1> SUFFICES ASSUME T # {} PROVE FALSE OBVIOUS
<1>0. T \subseteq Nat OBVIOUS
<1>1. PICK i \in T : \A y \in T : i <= y
  <2> HIDE DEF T
  <2> QED BY <1>0, LeastNat
<1>2. i \in 1..(k + 1) /\ Branch[n][i] # Branch[m][i] BY <1>1
<1>3. BranchShape(n) /\ BranchShape(m) BY BranchShaped
<1>4. i # 1 BY <1>2, <1>3 DEF BranchShape
<1>5. i - 1 \in 1..k /\ i - 1 \in 1..(k + 1) /\ i - 1 < i BY <1>2, <1>4
<1>6. Branch[n][i - 1] = Branch[m][i - 1] BY <1>1, <1>5
<1>7. i \in 1..Len(Branch[n]) /\ i \in 1..Len(Branch[m]) /\ i > 1
  <2>1. Len(Branch[n]) \in Nat /\ Len(Branch[m]) \in Nat BY <1>3 DEF BranchShape
  <2> QED BY <1>2, <1>4, <2>1 DEF Level
<1>8. /\ Branch[n][i] \in Node \ {Root} /\ Branch[n][i - 1] = Par(Branch[n][i])
      /\ Branch[m][i] \in Node \ {Root} /\ Branch[m][i - 1] = Par(Branch[m][i])
  BY <1>3, <1>7 DEF BranchShape
<1>9. (Branch[n][i] - 1) % K = (Branch[m][i] - 1) % K
  <2>1. Slot(n, k)[i - 1] = Slot(m, k)[i - 1] OBVIOUS
  <2>2. i - 1 + 1 = i BY <1>2
  <2> QED BY <1>5, <2>1, <2>2 DEF Slot
<1>10. Branch[n][i] = Branch[m][i]
  <2>1. Branch[n][i] = K * Par(Branch[n][i]) + ((Branch[n][i] - 1) % K) + 1 BY <1>8, PartOf
  <2>2. Branch[m][i] = K * Par(Branch[m][i]) + ((Branch[m][i] - 1) % K) + 1 BY <1>8, PartOf
  <2>3. Par(Branch[n][i]) = Par(Branch[m][i]) BY <1>6, <1>8
  <2> HIDE DEF Par
  <2> QED BY <1>9, <2>1, <2>2, <2>3, Zenon
<1> QED BY <1>2, <1>10

\* What is stored on the way to a node at the home of a clause holds at the node.
LEMMA HomeHolds ==
  ASSUME NEW n \in Node, NEW c \in Node, NEW k \in 0..Level(n), Slot(n, k) = Slot(c, Level(c))
  PROVE  k = Level(c) /\ c \in OnBranch(n)
<1>1. Level(n) \in Nat /\ Level(c) \in Nat BY LevelType
<1>2. k = Level(c)
  <2>1. DOMAIN Slot(n, k) = 1..k /\ DOMAIN Slot(c, Level(c)) = 1..Level(c) BY DEF Slot
  <2>2. 1..k = 1..Level(c) BY <2>1
  <2> QED BY <1>1, <2>2
<1>3. \A i \in 1..(k + 1) : Branch[n][i] = Branch[c][i] BY <1>1, <1>2, SameSlotSameBranch
<1>4. BranchShape(c) /\ BranchShape(n) BY BranchShaped
<1>5. k + 1 = Len(Branch[c]) /\ k + 1 \in 1..(k + 1) /\ k + 1 \in 1..Len(Branch[n])
  BY <1>1, <1>2, <1>4 DEF Level, BranchShape
<1>6. Branch[n][k + 1] = c BY <1>3, <1>4, <1>5 DEF BranchShape
<1> QED BY <1>2, <1>5, <1>6 DEF OnBranch

-----------------------------------------------------------------------------
(* The inductive invariant. *)

\* Where a clause is stored, wherever it was learned.
Home(c) == Slot(c, Level(c))

\* What is in the queue of a client is from it.
Addressed ==
  \A c \in Client : \A i \in 1..Len(link[c]) : link[c][i].client = c

\* Clauses are pushed for the branch they were learned on, and stored at home.
Learned(m) == m.op = "push" => m.clauses \subseteq OnBranch(m.node)
Sound ==
  /\ \A c \in Client : \A i \in 1..Len(link[c]) : Learned(link[c][i])
  /\ \A i \in 1..Len(tasks) : Learned(tasks[i])
  /\ \A p \in Place : \A c \in store[p] : p = Home(c)

\* The messages of a client that the lemma server will still serve.
Served(c) == up /\ conn[c] = "up"

LinkPulls(c) == {i \in 1..Len(link[c]) : link[c][i].op = "pull"}
TaskPulls(c) == {i \in 1..Len(tasks) : tasks[i].op = "pull" /\ tasks[i].client = c}

\* A client that is not connected yet sent nothing and got nothing.
Newcomers ==
  \A c \in Client : conn[c] = "away" =>
    /\ link[c] = <<>> /\ answers[c] = <<>> /\ pulling[c] = None /\ own[c] = {} /\ got[c] = {}
    /\ \A i \in 1..Len(tasks) : tasks[i].client # c

\* A solver has at most one pull on its way, that for the node it waits for, and
\* nothing after it.
InOrder(c) ==
  /\ \A i \in LinkPulls(c) : /\ i = Len(link[c]) /\ link[c][i].node = pulling[c]
                             /\ TaskPulls(c) = {} /\ answers[c] = <<>>
  /\ \A i \in TaskPulls(c) : /\ tasks[i].node = pulling[c] /\ link[c] = <<>> /\ answers[c] = <<>>
                             /\ \A j \in 1..Len(tasks) : j > i => tasks[j].client # c
PullsInOrder == \A c \in Client : Served(c) => InOrder(c)

\* An answer is the only one, to the pull that waits for it, and right for its node.
Answered(c) ==
  answers[c] # <<>> =>
    /\ Len(answers[c]) = 1 /\ pulling[c] # None /\ answers[c][1] \subseteq OnBranch(pulling[c])
    /\ Served(c) => LinkPulls(c) = {}
AnswersRight == \A c \in Client : Answered(c)

\* What a solver pushed is recorded for it or on its way, what it was sent is recorded,
\* and no answer repeats either.
KnownTo(c, cl) == <<Home(cl), cl>> \in known[c]
OnLink(c, cl) == \E i \in 1..Len(link[c]) : link[c][i].op = "push" /\ cl \in link[c][i].clauses
InTasks(c, cl) == \E i \in 1..Len(tasks) : tasks[i].op = "push" /\ tasks[i].client = c /\ cl \in tasks[i].clauses
Recalled(c) ==
  /\ \A cl \in own[c] : KnownTo(c, cl) \/ OnLink(c, cl) \/ InTasks(c, cl)
  /\ \A cl \in got[c] : KnownTo(c, cl)
  /\ answers[c] # <<>> => \A cl \in answers[c][1] : KnownTo(c, cl)
Unrepeated(c) == answers[c] # <<>> => answers[c][1] \cap (own[c] \cup got[c]) = {}
KnowledgeKept == \A c \in Client : (Served(c) => Recalled(c)) /\ Unrepeated(c)

\* The inductive invariant.
IInv ==
  /\ TypeOK /\ Addressed /\ Sound /\ Newcomers
  /\ Distinct => PullsInOrder /\ AnswersRight
  /\ ~SendAgain /\ Distinct /\ ~collected => KnowledgeKept

-----------------------------------------------------------------------------
(* Types. *)

\* A branch consists of nodes.
LEMMA OnBranchNodes == \A n \in Node : OnBranch(n) \subseteq Node
BY HomeOnBranch

\* The places along the path of a node are places of the tree, and so is its home.
LEMMA PathPlaces ==
  ASSUME NEW n \in Node
  PROVE  NodePath(n) \subseteq Place /\ Home(n) \in Place
<1>1. Level(n) \in 0..Level(n) BY LevelType
<1> QED BY <1>1 DEF Place, NodePath, Home

\* A push stores each clause at its home.
LEMMA HomeIsPlace == \A n \in Node : \A c \in OnBranch(n) : Slot(n, Level(c)) = Home(c) /\ Home(c) \in Place
BY HomeOnBranch, PathPlaces DEF Home

\* There are finitely many lemmas.
LEMMA LemmaFinite == IsFiniteSet(Lemma)
<1>1. IsFiniteSet(Node) BY LemmaAssumption, FS_Interval DEF Node
<1>2. IsFiniteSet(Node \X Node) BY <1>1, FS_Product
<1> DEFINE f == [x \in Node \X Node |-> Slot(x[1], x[2])]
           T == {f[x] : x \in Node \X Node}
<1>3. f \in Surjection(Node \X Node, T) BY DEF Surjection
<1>4. IsFiniteSet(T)
  <2> HIDE DEF f, T
  <2> QED BY <1>2, <1>3, FS_Surjection
<1>5. Place \subseteq T
  <2> SUFFICES ASSUME NEW n \in Node, NEW i \in 0..Level(n) PROVE Slot(n, i) \in T
    BY DEF Place, NodePath
  <2>1. i \in Node BY LevelType, LemmaAssumption DEF Node
  <2>2. <<n, i>> \in Node \X Node /\ f[<<n, i>>] = Slot(n, i) BY <2>1
  <2> HIDE DEF f
  <2> QED BY <2>2
<1>6. IsFiniteSet(Place)
  <2> HIDE DEF f, T
  <2> QED BY <1>4, <1>5, FS_Subset
<1> QED BY <1>1, <1>6, FS_Product DEF Lemma, Clause

\* The records that garbageCollect may erase can be counted.
LEMMA RecordsCounted ==
  Cardinality(Records) \in Nat /\ \A R \in SUBSET Records : IsFiniteSet(R) /\ Cardinality(R) \in Nat
<1>1. IsFiniteSet(Client \X Lemma) BY LemmaFinite, LemmaAssumption, FS_Product
<1>2. Records \in SUBSET (Client \X Lemma) BY DEF Records
<1>3. IsFiniteSet(Records) BY <1>1, <1>2, FS_Subset
<1> HIDE DEF Records
<1>4. \A R \in SUBSET Records : IsFiniteSet(R) BY <1>3, FS_Subset
<1> QED BY <1>3, <1>4, FS_CardinalityType

\* The fields of a task.
LEMMA TaskKinds ==
  ASSUME NEW m \in Task
  PROVE  /\ m.op \in {"push", "pull"} /\ m.client \in Client /\ m.node \in Node
         /\ m.op = "push" => m.clauses \in SUBSET Clause
<1>1. m \in [op : {"push"}, client : Client, node : Node, clauses : SUBSET Clause]
      \/ m \in [op : {"pull"}, client : Client, node : Node] BY DEF Task
<1> QED BY <1>1

\* What taking the first element of a queue leaves.
LEMMA TailProperties ==
  ASSUME NEW S, NEW s \in Seq(S), s # <<>>
  PROVE  /\ Head(s) \in S /\ Head(s) = s[1] /\ Tail(s) \in Seq(S) /\ Len(s) \in Nat \ {0}
         /\ Len(Tail(s)) = Len(s) - 1 /\ \A i \in 1..Len(Tail(s)) : i + 1 \in 1..Len(s) /\ Tail(s)[i] = s[i + 1]
BY HeadTailProperties

\* What adding an element to a queue gives.
LEMMA AppendIs ==
  ASSUME NEW S, NEW s \in Seq(S), NEW x \in S
  PROVE  /\ Append(s, x) \in Seq(S) /\ Len(Append(s, x)) = Len(s) + 1 /\ Len(s) \in Nat
         /\ Append(s, x) # <<>>
         /\ \A i \in 1..(Len(s) + 1) : Append(s, x)[i] = IF i = Len(s) + 1 THEN x ELSE s[i]
BY AppendProperties

\* The next task.
LEMMA JobIs ==
  ASSUME TypeOK, tasks # <<>>
  PROVE  /\ Job \in Task /\ Job = tasks[1] /\ Job.client \in Client /\ Job.node \in Node
         /\ 1 \in 1..Len(tasks)
         /\ Job.op = "push" => Job.clauses \in SUBSET Clause
<1>1. tasks \in Seq(Task) BY DEF TypeOK
<1>2. Job \in Task /\ Job = tasks[1] /\ Len(tasks) \in Nat \ {0} BY <1>1, TailProperties DEF Job
<1> QED BY <1>2, TaskKinds

\* The answer to a task goes to a client, whatever became of its socket.
LEMMA SenderType == TypeOK /\ tasks # <<>> => Sender \in Client
BY JobIs DEF Sender, TypeOK

\* The lemmas that a push stores.
New == {<<Slot(Job.node, Level(c)), c>> : c \in Job.clauses}

\* Each clause of a push is stored at its home, since it was learned on the branch
\* that the push names.
LEMMA NewIs ==
  ASSUME TypeOK, Sound, tasks # <<>>, Job.op = "push"
  PROVE  New = {<<Home(c), c>> : c \in Job.clauses} /\ New \subseteq Lemma
<1>1. Job.clauses \subseteq OnBranch(Job.node) /\ Job.node \in Node BY JobIs DEF Sound, Learned
<1>2. \A c \in Job.clauses : Slot(Job.node, Level(c)) = Home(c) /\ Home(c) \in Place /\ c \in Clause
  BY <1>1, HomeIsPlace, OnBranchNodes DEF Clause
<1> QED BY <1>2 DEF New, Lemma

\* A push only adds to the store, and adds each clause at its home.
LEMMA PushStores ==
  ASSUME TypeOK, Sound, RunPush
  PROVE  /\ store' \in [Place -> SUBSET Clause]
         /\ \A p \in Place : store[p] \subseteq store'[p]
         /\ \A l \in New : l \in Lemma /\ l[2] \in store'[l[1]]
         /\ \A p \in Place : \A c \in store'[p] : c \in store[p] \/ p = Home(c)
<1>1. tasks # <<>> /\ Job.op = "push" /\ store' = Add(New) BY DEF RunPush, Works, New
<1>2. New = {<<Home(c), c>> : c \in Job.clauses} /\ New \subseteq Lemma BY <1>1, NewIs
<1>3. store' = [p \in Place |-> store[p] \cup {c \in Clause : <<p, c>> \in New}] BY <1>1 DEF Add
<1>4. store \in [Place -> SUBSET Clause] BY DEF TypeOK
<1>5. store' \in [Place -> SUBSET Clause] BY <1>3, <1>4
<1>6. \A p \in Place : store[p] \subseteq store'[p] BY <1>3
<1>7. ASSUME NEW l \in New PROVE l \in Lemma /\ l[2] \in store'[l[1]]
  BY <1>2, <1>3, <1>7 DEF Lemma
<1>8. ASSUME NEW p \in Place, NEW c \in store'[p] PROVE c \in store[p] \/ p = Home(c)
  BY <1>2, <1>3
<1> QED BY <1>5, <1>6, <1>7, <1>8

\* What is recorded stays recorded for what is stored, and what is erased is not negative.
LEMMA PushTypes ==
  ASSUME TypeOK, Sound, RunPush
  PROVE  /\ \A c \in Client : /\ known'[c] \subseteq seen'[c]
                              /\ \A l \in seen'[c] : l \in Lemma /\ l[2] \in store'[l[1]]
         /\ seen' \in [Client -> SUBSET Lemma] /\ known' \in [Client -> SUBSET Lemma]
         /\ size' \in Nat /\ collected' \in BOOLEAN
<1> DEFINE n == size + Cardinality(Job.clauses)
<1>1. PICK R \in Garbage(n) :
          /\ seen' = [Keep(seen, R) EXCEPT ![Sender] = @ \cup New]
          /\ known' = [Keep(known, R) EXCEPT ![Sender] = @ \cup New]
          /\ size' = n - Cardinality(R)
          /\ collected' = (collected \/ R # {})
  BY DEF RunPush, Recorded, New
<1>2. tasks # <<>> /\ Job.op = "push" /\ Sender \in Client /\ Job.clauses \subseteq Clause
  BY JobIs, SenderType DEF RunPush, Works
<1>3. n \in Nat
  <2>1. IsFiniteSet(Clause) BY LemmaAssumption, FS_Interval DEF Clause, Node
  <2>2. IsFiniteSet(Job.clauses) BY <1>2, <2>1, FS_Subset
  <2> QED BY <2>2, FS_CardinalityType DEF TypeOK
<1> HIDE DEF n
<1>4. n - Cardinality(R) \in Nat
  <2>1. CASE n > 2 * CutSize
    <3>1. R \in SUBSET Records /\ Cardinality(R) = Erased(n) BY <1>1, <2>1 DEF Garbage
    <3>2. Cardinality(Records) \in Nat /\ CutSize \in Nat BY RecordsCounted, LemmaAssumption
    <3>3. Erased(n) \in Nat /\ Erased(n) <= n
      BY <1>3, <2>1, <3>2 DEF Erased
    <3> QED BY <1>3, <3>1, <3>3
  <2>2. CASE ~(n > 2 * CutSize)
    <3>1. R = {} BY <1>1, <2>2 DEF Garbage
    <3> QED BY <1>3, <3>1, FS_EmptySet
  <2> QED BY <2>1, <2>2
<1>5. \A l \in New : l \in Lemma /\ l[2] \in store'[l[1]] BY PushStores
<1>6. ASSUME NEW c \in Client
      PROVE  /\ known'[c] \subseteq seen'[c] /\ seen'[c] \subseteq seen[c] \cup New
  BY <1>1, <1>2 DEF Keep, TypeOK
<1>7. ASSUME NEW c \in Client, NEW l \in seen'[c] PROVE l \in Lemma /\ l[2] \in store'[l[1]]
  <2>1. CASE l \in seen[c]
    <3>1. l \in Lemma /\ l[2] \in store[l[1]] BY <2>1 DEF TypeOK
    <3> QED BY <3>1, PushStores DEF Lemma
  <2> QED BY <1>5, <1>6, <2>1
<1>8. DOMAIN seen' = Client /\ DOMAIN known' = Client BY <1>1 DEF Keep
<1>9. seen' = [c \in Client |-> seen'[c]] /\ known' = [c \in Client |-> known'[c]] BY <1>1 DEF Keep
<1>10. seen' \in [Client -> SUBSET Lemma] /\ known' \in [Client -> SUBSET Lemma] BY <1>6, <1>7, <1>9
<1> QED BY <1>1, <1>4, <1>6, <1>7, <1>10 DEF TypeOK

\* A pull leaves the tables and the answers well typed.
LEMMA PullTypes ==
  ASSUME TypeOK, RunPull
  PROVE  /\ \A c \in Client : known'[c] \subseteq seen'[c] /\ \A l \in seen'[c] : l[2] \in store'[l[1]]
         /\ seen' \in [Client -> SUBSET Lemma] /\ known' \in [Client -> SUBSET Lemma]
         /\ answers' \in [Client -> Seq(SUBSET Clause)]
<1> DEFINE S == Stored(Job.node)
<1>1. tasks # <<>> /\ Job.node \in Node /\ Sender \in Client BY JobIs, SenderType DEF RunPull, Works
<1>2. PICK sent \in Selections(S \ known[Sender]) :
         /\ known' = IF SendAgain THEN known ELSE [known EXCEPT ![Sender] = @ \cup sent]
         /\ answers' = Reply(Sender, {l[2] : l \in sent})
  BY DEF RunPull
<1>3. seen' = [seen EXCEPT ![Sender] = @ \cup S] /\ store' = store BY DEF RunPull
<1>4. S \subseteq Lemma /\ \A l \in S : l[2] \in store[l[1]] /\ l[2] \in Clause
  BY <1>1, PathPlaces DEF Stored, Lemma
<1> HIDE DEF S
<1>5. sent \subseteq S BY <1>2 DEF Selections
<1>6. \A l \in sent : l[2] \in Clause BY <1>4, <1>5
<1>7. answers' \in [Client -> Seq(SUBSET Clause)]
  <2>1. {l[2] : l \in sent} \in SUBSET Clause BY <1>6
  <2>2. answers \in [Client -> Seq(SUBSET Clause)] BY DEF TypeOK
  <2> QED BY <1>1, <1>2, <2>1, <2>2 DEF Reply
<1>8. /\ seen \in [Client -> SUBSET Lemma] /\ known \in [Client -> SUBSET Lemma]
      /\ \A c \in Client : known[c] \subseteq seen[c] /\ \A l \in seen[c] : l[2] \in store[l[1]]
  BY DEF TypeOK
<1>9. seen' \in [Client -> SUBSET Lemma] /\ known' \in [Client -> SUBSET Lemma]
  BY <1>1, <1>2, <1>3, <1>4, <1>5, <1>8
<1>10. ASSUME NEW c \in Client PROVE known'[c] \subseteq seen'[c] /\ \A l \in seen'[c] : l[2] \in store'[l[1]]
  BY <1>1, <1>2, <1>3, <1>4, <1>5, <1>8
<1> QED BY <1>7, <1>9, <1>10

\* Every step keeps the types.
LEMMA TypeStep == TypeOK /\ Sound /\ [Next]_vars => TypeOK'
<1> SUFFICES ASSUME TypeOK, Sound, [Next]_vars PROVE TypeOK' OBVIOUS
<1> USE DEF TypeOK
<1>1. ASSUME NEW c \in Client, NEW n \in Node, Push(c, n) PROVE TypeOK'
  <2>1. PICK learned \in (SUBSET OnBranch(n)) \ {{}} :
           /\ Post(c, [op |-> "push", client |-> c, node |-> n, clauses |-> learned])
           /\ own' = [own EXCEPT ![c] = @ \cup learned]
    BY <1>1 DEF Push
  <2>2. learned \in SUBSET Clause BY OnBranchNodes DEF Clause
  <2>3. [op |-> "push", client |-> c, node |-> n, clauses |-> learned] \in Task BY <2>2 DEF Task
  <2>4. link' \in [Client -> Seq(Task)] BY <2>1, <2>3 DEF Post
  <2>5. own' \in [Client -> SUBSET Clause] BY <2>1, <2>2
  <2>6. posts' \in 0..MaxPosts BY <2>1, LemmaAssumption DEF Post
  <2> QED BY <1>1, <2>4, <2>5, <2>6 DEF Push, treeVars
<1>2. ASSUME NEW c \in Client, NEW n \in Node, Pull(c, n) PROVE TypeOK'
  <2>1. [op |-> "pull", client |-> c, node |-> n] \in Task BY DEF Task
  <2>2. Post(c, [op |-> "pull", client |-> c, node |-> n]) BY <1>2 DEF Pull
  <2>3. link' \in [Client -> Seq(Task)] BY <2>1, <2>2 DEF Post
  <2>4. posts' \in 0..MaxPosts BY <2>2, LemmaAssumption DEF Post
  <2> QED BY <1>2, <2>3, <2>4 DEF Pull, treeVars
<1>3. ASSUME NEW c \in Client, Pulled(c) PROVE TypeOK'
  <2>1. answers[c] \in Seq(SUBSET Clause) /\ answers[c] # <<>> BY <1>3 DEF Pulled
  <2>2. Head(answers[c]) \in SUBSET Clause /\ Tail(answers[c]) \in Seq(SUBSET Clause) BY <2>1, TailProperties
  <2> QED BY <1>3, <2>2 DEF Pulled, treeVars
<1>4. ASSUME NEW c \in Client, PullFails(c) PROVE TypeOK'
  BY <1>4 DEF PullFails, treeVars
<1>5. ASSUME NEW c \in Client, Leave(c) PROVE TypeOK'
  BY <1>5 DEF Leave, treeVars
<1>6. ASSUME NEW c \in Client, Accept(c) PROVE TypeOK'
  BY <1>6 DEF Accept, Races, clientVars, treeVars
<1>7. ASSUME NEW c \in Client, Read(c) PROVE TypeOK'
  <2>1. link[c] \in Seq(Task) /\ link[c] # <<>> BY <1>7 DEF Read
  <2>2. Head(link[c]) \in Task /\ Tail(link[c]) \in Seq(Task) BY <2>1, TailProperties
  <2>3. tasks' \in Seq(Task) /\ link' \in [Client -> Seq(Task)] BY <1>7, <2>2 DEF Read
  <2> QED BY <1>7, <2>3 DEF Read, clientVars, treeVars
<1>8. ASSUME NEW c \in Client, Close(c) PROVE TypeOK'
  BY <1>8 DEF Close, Races, clientVars
<1>9. CASE Quit BY <1>9 DEF Quit, clientVars, treeVars
<1>10. CASE RunPush
  <2>1. tasks' \in Seq(Task) /\ up' \in BOOLEAN
    BY <1>10, TailProperties DEF RunPush, Works, Survives
  <2>2. UNCHANGED <<clientVars, conn, link, answers, heir>> BY <1>10 DEF RunPush
  <2> QED BY <1>10, <2>1, <2>2, PushStores, PushTypes DEF clientVars
<1>11. CASE RunPull
  <2>1. tasks' \in Seq(Task) /\ up' \in BOOLEAN
    BY <1>11, TailProperties DEF RunPull, Works, Survives
  <2>2. UNCHANGED <<clientVars, conn, link, heir, store, size, collected>> BY <1>11 DEF RunPull
  <2> QED BY <1>11, <2>1, <2>2, PullTypes DEF clientVars
<1>12. CASE UNCHANGED vars BY <1>12 DEF vars, clientVars, treeVars
<1> QED BY <1>1, <1>2, <1>3, <1>4, <1>5, <1>6, <1>7, <1>8, <1>9, <1>10, <1>11, <1>12 DEF Next

-----------------------------------------------------------------------------
(* The messages on their way. *)

\* A new message is one that a solver writes about a branch it is on.
Written(c, m) ==
  /\ m \in Task /\ m.client = c /\ Learned(m)
  /\ link' = [link EXCEPT ![c] = Append(@, m)]

\* What a step does to the queues: a solver writes, the main thread moves a message to
\* the tasks, the worker takes the first task.
LEMMA QueueMoves ==
  ASSUME TypeOK, [Next]_vars
  PROVE  \/ UNCHANGED <<link, tasks>>
         \/ \E c \in Client : \E n \in Node : (Push(c, n) \/ Pull(c, n)) /\ UNCHANGED tasks /\ \E m : Written(c, m)
         \/ \E c \in Client : Read(c)
         \/ (RunPush \/ RunPull) /\ tasks # <<>> /\ tasks' = Tail(tasks) /\ UNCHANGED link
<1>1. ASSUME NEW c \in Client, NEW n \in Node, Push(c, n) PROVE UNCHANGED tasks /\ \E m : Written(c, m)
  <2>1. PICK learned \in (SUBSET OnBranch(n)) \ {{}} :
           Post(c, [op |-> "push", client |-> c, node |-> n, clauses |-> learned])
    BY <1>1 DEF Push
  <2> DEFINE m == [op |-> "push", client |-> c, node |-> n, clauses |-> learned]
  <2>2. learned \in SUBSET Clause BY OnBranchNodes DEF Clause
  <2>3. m \in Task /\ Learned(m) /\ m.client = c BY <2>2 DEF Task, Learned
  <2>4. link' = [link EXCEPT ![c] = Append(@, m)] BY <2>1 DEF Post
  <2> HIDE DEF m
  <2> QED BY <1>1, <2>3, <2>4 DEF Push, Written
<1>2. ASSUME NEW c \in Client, NEW n \in Node, Pull(c, n) PROVE UNCHANGED tasks /\ \E m : Written(c, m)
  <2> DEFINE m == [op |-> "pull", client |-> c, node |-> n]
  <2>1. m \in Task /\ m.client = c /\ Learned(m) BY DEF Task, Learned
  <2>2. link' = [link EXCEPT ![c] = Append(@, m)] BY <1>2 DEF Pull, Post
  <2> HIDE DEF m
  <2> QED BY <1>2, <2>1, <2>2 DEF Pull, Written
<1>3. ASSUME NEW c \in Client, Pulled(c) \/ PullFails(c) \/ Leave(c) \/ Accept(c) \/ Close(c)
      PROVE  UNCHANGED <<link, tasks>>
  BY <1>3 DEF Pulled, PullFails, Leave, Accept, Close
<1>4. Quit \/ UNCHANGED vars => UNCHANGED <<link, tasks>> BY DEF Quit, vars
<1>5. RunPush \/ RunPull => tasks # <<>> /\ tasks' = Tail(tasks) /\ UNCHANGED link
  BY DEF RunPush, RunPull, Works
<1> QED BY <1>1, <1>2, <1>3, <1>4, <1>5 DEF Next

\* What holds of every message of a queue holds of those that come after the first.
LEMMA TailKeeps ==
  ASSUME NEW s \in Seq(Task), s # <<>>
  PROVE  /\ \A i \in 1..Len(Tail(s)) : \E j \in 1..Len(s) : Tail(s)[i] = s[j]
         /\ \E j \in 1..Len(s) : Head(s) = s[j]
BY TailProperties

\* What a queue holds after a message is added to it.
LEMMA AppendKeeps ==
  ASSUME NEW s \in Seq(Task), NEW m \in Task
  PROVE  \A i \in 1..Len(Append(s, m)) : Append(s, m)[i] = m \/ \E j \in 1..Len(s) : Append(s, m)[i] = s[j]
BY AppendIs

\* A message in the queue of a client is one it wrote.
LEMMA AddressedStep == TypeOK /\ Addressed /\ [Next]_vars => Addressed'
<1> SUFFICES ASSUME TypeOK, Addressed, [Next]_vars PROVE Addressed' OBVIOUS
<1>0. \A c \in Client : link[c] \in Seq(Task) BY DEF TypeOK
<1>1. CASE UNCHANGED link BY <1>1 DEF Addressed
<1>2. ASSUME NEW c \in Client, NEW m, Written(c, m) PROVE Addressed'
  <2>1. \A i \in 1..Len(Append(link[c], m)) : Append(link[c], m)[i].client = c
    BY <1>0, <1>2, AppendKeeps DEF Written, Addressed
  <2>2. \A d \in Client : link'[d] = IF d = c THEN Append(link[c], m) ELSE link[d] BY <1>2 DEF Written, TypeOK
  <2> QED BY <2>1, <2>2 DEF Addressed
<1>3. ASSUME NEW c \in Client, Read(c) PROVE Addressed'
  <2>1. \A i \in 1..Len(Tail(link[c])) : Tail(link[c])[i].client = c
    BY <1>0, <1>3, TailKeeps DEF Read, Addressed
  <2>2. \A d \in Client : link'[d] = IF d = c THEN Tail(link[c]) ELSE link[d] BY <1>3 DEF Read, TypeOK
  <2> QED BY <2>1, <2>2 DEF Addressed
<1> QED BY <1>1, <1>2, <1>3, QueueMoves

\* A clause is stored at its home only: a push names a branch that the clause is on.
LEMMA SoundStep == TypeOK /\ Sound /\ [Next]_vars => Sound'
<1> SUFFICES ASSUME TypeOK, Sound, [Next]_vars PROVE Sound' OBVIOUS
<1> DEFINE Links == \A c \in Client : \A i \in 1..Len(link[c]) : Learned(link[c][i])
           Tasks == \A i \in 1..Len(tasks) : Learned(tasks[i])
           Homes == \A p \in Place : \A c \in store[p] : p = Home(c)
<1>0. /\ \A c \in Client : link[c] \in Seq(Task)
      /\ tasks \in Seq(Task)
  BY DEF TypeOK
<1>1. Links /\ Tasks /\ Homes BY DEF Sound
<1>2. Homes'
  <2>1. CASE RunPush BY <1>1, <2>1, PushStores
  <2>2. CASE ~RunPush
    <3>1. UNCHANGED store
      BY <2>2 DEF Next, Push, Pull, Pulled, PullFails, Leave, Accept, Read, Close, Quit, RunPull, vars, treeVars
    <3> QED BY <1>1, <3>1
  <2> QED BY <2>1, <2>2
<1> HIDE DEF Homes
<1>3. CASE UNCHANGED <<link, tasks>> BY <1>1, <1>2, <1>3 DEF Sound, Homes
<1>4. ASSUME NEW c \in Client, NEW m, Written(c, m), UNCHANGED tasks PROVE Links' /\ Tasks'
  <2>1. \A i \in 1..Len(Append(link[c], m)) : Learned(Append(link[c], m)[i])
    BY <1>0, <1>1, <1>4, AppendKeeps, Zenon DEF Written
  <2>2. \A d \in Client : link'[d] = IF d = c THEN Append(link[c], m) ELSE link[d] BY <1>4 DEF Written, TypeOK
  <2> QED BY <1>1, <1>4, <2>1, <2>2
<1>5. ASSUME NEW c \in Client, Read(c) PROVE Links' /\ Tasks'
  <2>1. link[c] # <<>> /\ tasks' = Append(tasks, Head(link[c])) /\ Head(link[c]) \in Task
    BY <1>0, <1>5, TailProperties DEF Read
  <2>2. Learned(Head(link[c])) /\ \A i \in 1..Len(Tail(link[c])) : Learned(Tail(link[c])[i])
    BY <1>0, <1>1, <2>1, TailKeeps, Zenon
  <2>3. \A d \in Client : link'[d] = IF d = c THEN Tail(link[c]) ELSE link[d] BY <1>5 DEF Read, TypeOK
  <2>4. \A i \in 1..Len(tasks') : Learned(tasks'[i]) BY <1>0, <1>1, <2>1, <2>2, AppendKeeps, Zenon
  <2> QED BY <1>1, <2>2, <2>3, <2>4
<1>6. ASSUME tasks # <<>>, tasks' = Tail(tasks), UNCHANGED link PROVE Links' /\ Tasks'
  <2>1. \A i \in 1..Len(tasks') : Learned(tasks'[i]) BY <1>0, <1>1, <1>6, TailKeeps, Zenon
  <2> QED BY <1>1, <1>6, <2>1
<1>7. (Links' /\ Tasks') \/ UNCHANGED <<link, tasks>>
  <2> HIDE DEF Links, Tasks
  <2> QED BY <1>4, <1>5, <1>6, QueueMoves
<1> QED BY <1>2, <1>3, <1>7 DEF Sound, Homes

\* Nobody hears of a client before it is connected.
LEMMA NewcomersStep == TypeOK /\ Addressed /\ Newcomers /\ [Next]_vars => Newcomers'
<1> SUFFICES ASSUME TypeOK, Addressed, Newcomers, [Next]_vars, NEW d \in Client, conn'[d] = "away"
             PROVE  /\ link'[d] = <<>> /\ answers'[d] = <<>> /\ pulling'[d] = None /\ own'[d] = {} /\ got'[d] = {}
                    /\ \A i \in 1..Len(tasks') : tasks'[i].client # d
  BY DEF Newcomers
<1> DEFINE Silent == /\ link[d] = <<>> /\ answers[d] = <<>> /\ pulling[d] = None /\ own[d] = {} /\ got[d] = {}
                     /\ \A i \in 1..Len(tasks) : tasks[i].client # d
<1>0. /\ link \in [Client -> Seq(Task)] /\ tasks \in Seq(Task) /\ answers \in [Client -> Seq(SUBSET Clause)]
      /\ DOMAIN conn = Client /\ DOMAIN pulling = Client /\ DOMAIN own = Client /\ DOMAIN got = Client
  BY DEF TypeOK
<1>1. conn[d] = "away"
  BY <1>0 DEF Next, Push, Pull, Pulled, PullFails, Leave, Accept, Read, Close, Quit, RunPush, RunPull, vars
<1>2. Silent BY <1>1 DEF Newcomers
<1>3. ASSUME NEW c \in Client, NEW n \in Node, Push(c, n) \/ Pull(c, n) PROVE Silent'
  <2>1. c # d BY <1>1, <1>3 DEF Push, Pull, Connected
  <2>2. link'[d] = link[d] /\ own'[d] = own[d] /\ pulling'[d] = pulling[d]
    BY <1>0, <1>3, <2>1 DEF Push, Pull, Post
  <2> QED BY <1>2, <1>3, <2>2 DEF Push, Pull
<1>4. ASSUME NEW c \in Client, Pulled(c) \/ PullFails(c) \/ Leave(c) PROVE Silent'
  <2>1. c # d BY <1>1, <1>2, <1>4 DEF Pulled, PullFails, Leave
  <2> QED BY <1>0, <1>2, <1>4, <2>1 DEF Pulled, PullFails, Leave
<1>5. ASSUME NEW c \in Client, Accept(c) \/ Close(c) PROVE Silent'
  BY <1>2, <1>5 DEF Accept, Close, clientVars
<1>6. ASSUME NEW c \in Client, Read(c) PROVE Silent'
  <2>1. c # d /\ link[c] \in Seq(Task) /\ link[c] # <<>> BY <1>0, <1>2, <1>6 DEF Read
  <2>2. link'[d] = link[d] BY <1>0, <1>6, <2>1 DEF Read
  <2>3. Head(link[c]) \in Task /\ Head(link[c]) = link[c][1] /\ 1 \in 1..Len(link[c])
    BY <2>1, TailProperties
  <2>4. Head(link[c]).client # d BY <2>1, <2>3 DEF Addressed
  <2>5. \A i \in 1..Len(tasks') : tasks'[i].client # d
    <3> DEFINE m == Head(link[c])
    <3>1. tasks' = Append(tasks, m) BY <1>6 DEF Read
    <3>2. m \in Task /\ m.client # d BY <2>3, <2>4
    <3>3. \A i \in 1..Len(tasks) : tasks[i].client # d BY <1>2
    <3> HIDE DEF m
    <3> QED BY ONLY <1>0, <3>1, <3>2, <3>3, AppendKeeps
  <2> QED BY <1>2, <1>6, <2>2, <2>5 DEF Read, clientVars
<1>7. ASSUME RunPush \/ RunPull PROVE Silent'
  <2>1. tasks # <<>> /\ tasks' = Tail(tasks) /\ UNCHANGED <<clientVars, link>>
    BY <1>7 DEF RunPush, RunPull, Works
  <2>2. \A i \in 1..Len(tasks') : tasks'[i].client # d BY <1>0, <1>2, <2>1, TailKeeps
  <2>3. answers'[d] = answers[d] BY <1>0, <1>1, <1>7 DEF RunPush, RunPull, Reply
  <2> QED BY <1>2, <2>1, <2>2, <2>3 DEF clientVars
<1>8. Quit \/ UNCHANGED vars => Silent' BY <1>2 DEF Quit, vars, clientVars
<1>9. Silent'
  <2> HIDE DEF Silent
  <2> QED BY <1>3, <1>4, <1>5, <1>6, <1>7, <1>8 DEF Next
<1> QED BY <1>9

-----------------------------------------------------------------------------
(* While no socket took the place of another. *)

\* Sockets that are distinct after a step were distinct before it, and the worker then
\* answers the client that asked.
LEMMA DistinctStays ==
  ASSUME TypeOK, [Next]_vars, Distinct'
  PROVE  Distinct /\ (tasks # <<>> => Sender = Job.client)
<1>1. ASSUME NEW c \in Client, Accept(c) PROVE UNCHANGED heir
  <2>1. ASSUME NEW d \in Client, heir' = [heir EXCEPT ![d] = c] PROVE FALSE
    <3>1. heir'[d] = c /\ c # None BY <2>1, LemmaAssumption DEF TypeOK
    <3> QED BY <3>1 DEF Distinct
  <2> QED BY <1>1, <2>1 DEF Accept
<1>2. UNCHANGED heir
  BY <1>1 DEF Next, Push, Pull, Pulled, PullFails, Leave, Read, Close, Quit, RunPush, RunPull, vars
<1>3. Distinct BY <1>2 DEF Distinct
<1> QED BY <1>3, JobIs DEF Distinct, Sender

\* Who is served is served before, except for a new client.
LEMMA ServedBefore ==
  ASSUME TypeOK, [Next]_vars, NEW d \in Client, Served(d)'
  PROVE  Served(d) \/ conn[d] = "away"
<1>1. up' => up
  BY DEF Next, Push, Pull, Pulled, PullFails, Leave, Accept, Read, Close, Quit, RunPush, RunPull, Works, vars
<1>0. DOMAIN conn = Client BY DEF TypeOK
<1>2. conn'[d] = "up" => conn[d] \in {"up", "away"}
  <2>1. ASSUME NEW c \in Client, Leave(c) \/ Accept(c) \/ Close(c)
        PROVE  conn'[d] = "up" => conn[d] \in {"up", "away"}
    <3>1. conn' = [conn EXCEPT ![c] = conn'[c]] /\ (conn'[c] = "up" => conn[c] = "away")
      BY <1>0, <2>1 DEF Leave, Accept, Close
    <3> QED BY <1>0, <3>1
  <2>2. (\E c \in Client : (\E n \in Node : Push(c, n) \/ Pull(c, n)) \/ Pulled(c) \/ PullFails(c) \/ Read(c))
        \/ Quit \/ RunPush \/ RunPull \/ UNCHANGED vars => conn' = conn
    BY DEF Push, Pull, Pulled, PullFails, Read, Quit, RunPush, RunPull, clientVars, vars
  <2> QED BY <2>1, <2>2 DEF Next
<1> QED BY <1>1, <1>2 DEF Served

\* A solver that waits for nothing has no pull on its way and no answer.
LEMMA NoPull ==
  ASSUME TypeOK, PullsInOrder, AnswersRight, NEW c \in Client, Connected(c)
  PROVE  LinkPulls(c) = {} /\ TaskPulls(c) = {} /\ answers[c] = <<>> /\ Served(c)
<1>1. pulling[c] = None /\ Served(c) /\ InOrder(c) BY DEF Connected, Served, PullsInOrder
<1>2. /\ \A i \in LinkPulls(c) : link[c][i] \in Task
      /\ \A i \in TaskPulls(c) : tasks[i] \in Task
  BY DEF LinkPulls, TaskPulls, TypeOK
<1>3. \A m \in Task : m.node # None BY TaskKinds, LemmaAssumption DEF Node
<1>4. LinkPulls(c) = {} /\ TaskPulls(c) = {} BY <1>1, <1>2, <1>3, Zenon DEF InOrder
<1> QED BY <1>1, <1>4 DEF AnswersRight, Answered

\* The order of the pulls of a client is not disturbed by the messages of the others, nor
\* by the tasks that are done.
LEMMA OrderFrame ==
  ASSUME TypeOK, NEW d \in Client, InOrder(d),
         link'[d] = link[d], pulling'[d] = pulling[d], answers'[d] = answers[d],
         \/ tasks' = tasks
         \/ \E m \in Task : m.client # d /\ tasks' = Append(tasks, m)
         \/ tasks # <<>> /\ tasks' = Tail(tasks)
  PROVE  InOrder(d)'
<1>0. tasks \in Seq(Task) BY DEF TypeOK
<1>1. LinkPulls(d)' = LinkPulls(d) BY DEF LinkPulls
<1>2. CASE tasks' = tasks BY <1>1, <1>2 DEF InOrder, TaskPulls
<1>3. ASSUME NEW m \in Task, m.client # d, tasks' = Append(tasks, m) PROVE InOrder(d)'
  <2>1. /\ Len(tasks') = Len(tasks) + 1 /\ Len(tasks) \in Nat
        /\ \A i \in 1..(Len(tasks) + 1) : tasks'[i] = IF i = Len(tasks) + 1 THEN m ELSE tasks[i]
    BY <1>0, <1>3, AppendIs
  <2>2. TaskPulls(d)' = TaskPulls(d) BY <1>3, <2>1 DEF TaskPulls
  <2>3. ASSUME NEW i \in TaskPulls(d), NEW j \in 1..Len(tasks'), j > i PROVE tasks'[j].client # d
    <3>1. CASE j = Len(tasks) + 1 BY <1>3, <2>1, <3>1
    <3>2. CASE j # Len(tasks) + 1 BY <2>1, <2>3, <3>2 DEF InOrder
    <3> QED BY <3>1, <3>2
  <2>4. \A i \in TaskPulls(d) : tasks'[i] = tasks[i] BY <2>1 DEF TaskPulls
  <2> QED BY <1>1, <2>2, <2>3, <2>4 DEF InOrder
<1>4. ASSUME tasks # <<>>, tasks' = Tail(tasks) PROVE InOrder(d)'
  <2>1. /\ Len(tasks') = Len(tasks) - 1 /\ Len(tasks) \in Nat
        /\ \A i \in 1..Len(tasks') : i + 1 \in 1..Len(tasks) /\ tasks'[i] = tasks[i + 1]
    BY <1>0, <1>4, TailProperties
  <2>2. \A i \in TaskPulls(d)' : i + 1 \in TaskPulls(d) /\ tasks'[i] = tasks[i + 1] /\ i \in 1..Len(tasks')
    BY <2>1 DEF TaskPulls
  <2>3. ASSUME NEW i \in TaskPulls(d)', NEW j \in 1..Len(tasks'), j > i PROVE tasks'[j].client # d
    <3>1. j + 1 \in 1..Len(tasks) /\ tasks'[j] = tasks[j + 1] BY <2>1
    <3>2. i + 1 \in TaskPulls(d) /\ i \in Nat /\ j \in Nat BY <2>1, <2>2
    <3>3. j + 1 > i + 1 BY ONLY <2>3, <3>2
    <3> QED BY <3>1, <3>2, <3>3 DEF InOrder
  <2>4. TaskPulls(d) = {} => TaskPulls(d)' = {} BY <2>2
  <2>5. ASSUME NEW i \in LinkPulls(d)'
        PROVE  i = Len(link'[d]) /\ link'[d][i].node = pulling'[d] /\ TaskPulls(d)' = {} /\ answers'[d] = <<>>
    BY <1>1, <2>4 DEF InOrder
  <2>6. ASSUME NEW i \in TaskPulls(d)'
        PROVE  tasks'[i].node = pulling'[d] /\ link'[d] = <<>> /\ answers'[d] = <<>>
    BY <2>2 DEF InOrder
  <2> QED BY <2>3, <2>5, <2>6 DEF InOrder
<1> QED BY <1>2, <1>3, <1>4

\* A new client has no pulls.
LEMMA NewInOrder ==
  ASSUME TypeOK, Newcomers, NEW c \in Client, conn[c] = "away"
  PROVE  InOrder(c)
<1>1. link[c] = <<>> /\ Len(link[c]) = 0 /\ \A i \in 1..Len(tasks) : tasks[i].client # c BY DEF Newcomers
<1>2. LinkPulls(c) = {} /\ TaskPulls(c) = {} BY <1>1 DEF LinkPulls, TaskPulls
<1> QED BY <1>2 DEF InOrder

\* The pull that the worker answers.
LEMMA PullInTurn ==
  ASSUME TypeOK, PullsInOrder, NEW c \in Client, c = Job.client, conn[c] = "up", RunPull
  PROVE  /\ Job.node = pulling[c] /\ link[c] = <<>> /\ answers[c] = <<>> /\ Served(c)
         /\ \A i \in 1..Len(tasks) : i > 1 => tasks[i].client # c
         /\ LinkPulls(c)' = {} /\ TaskPulls(c)' = {}
<1>1. up /\ tasks # <<>> /\ Job.op = "pull" /\ tasks' = Tail(tasks) /\ link' = link BY DEF RunPull, Works
<1>2. Served(c) /\ InOrder(c) BY <1>1 DEF Served, PullsInOrder
<1>3. 1 \in TaskPulls(c) /\ Job = tasks[1] BY <1>1, JobIs DEF TaskPulls
<1>4. /\ Job.node = pulling[c] /\ link[c] = <<>> /\ answers[c] = <<>>
      /\ \A i \in 1..Len(tasks) : i > 1 => tasks[i].client # c
  BY <1>2, <1>3 DEF InOrder
<1>5. Len(link'[c]) = 0 BY <1>1, <1>4
<1>6. LinkPulls(c)' = {} BY <1>5 DEF LinkPulls
<1>7. tasks \in Seq(Task) BY DEF TypeOK
<1>8. \A i \in 1..Len(tasks') : i + 1 \in 1..Len(tasks) /\ i + 1 > 1 /\ tasks'[i] = tasks[i + 1]
  BY <1>1, <1>7, TailProperties
<1>9. TaskPulls(c)' = {} BY <1>4, <1>8 DEF TaskPulls
<1> QED BY <1>2, <1>4, <1>6, <1>9

\* Every step keeps the pulls in order.
LEMMA OrderStep ==
  ASSUME TypeOK, Addressed, Newcomers, PullsInOrder, AnswersRight, [Next]_vars, Distinct'
  PROVE  PullsInOrder'
<1> SUFFICES ASSUME NEW d \in Client, Served(d)' PROVE InOrder(d)' BY DEF PullsInOrder
<1>0. /\ link \in [Client -> Seq(Task)] /\ tasks \in Seq(Task) /\ answers \in [Client -> Seq(SUBSET Clause)]
      /\ DOMAIN pulling = Client /\ DOMAIN conn = Client
  BY DEF TypeOK
<1>1. InOrder(d) BY ServedBefore, NewInOrder DEF PullsInOrder
<1>2. ASSUME NEW c \in Client, NEW n \in Node, Push(c, n) \/ Pull(c, n) PROVE InOrder(d)'
  <2>1. CASE c # d
    <3>1. link'[d] = link[d] /\ pulling'[d] = pulling[d] BY <1>0, <1>2, <2>1 DEF Push, Pull, Post
    <3> QED BY <1>1, <1>2, <3>1, OrderFrame DEF Push, Pull
  <2>2. CASE c = d
    <3>1. /\ LinkPulls(c) = {} /\ TaskPulls(c) = {} /\ answers[c] = <<>> /\ UNCHANGED <<tasks, answers>>
      BY <1>2, NoPull DEF Push, Pull
    <3>2. TaskPulls(c)' = {} BY <3>1 DEF TaskPulls
    <3>3. CASE Push(c, n)
      <4>1. PICK cls : link' = [link EXCEPT ![c] =
                          Append(@, [op |-> "push", client |-> c, node |-> n, clauses |-> cls])]
                       /\ cls \in SUBSET OnBranch(n)
        BY <3>3 DEF Push, Post
      <4> DEFINE m == [op |-> "push", client |-> c, node |-> n, clauses |-> cls]
      <4>2. m \in Task /\ m.op = "push" BY <4>1, OnBranchNodes DEF Task, Clause
      <4>3. link'[c] = Append(link[c], m) BY <1>0, <4>1
      <4> HIDE DEF m
      <4>4. /\ Len(link'[c]) = Len(link[c]) + 1
            /\ \A i \in 1..(Len(link[c]) + 1) : link'[c][i] = IF i = Len(link[c]) + 1 THEN m ELSE link[c][i]
        BY <1>0, <4>2, <4>3, AppendIs
      <4>5. \A i \in LinkPulls(c)' : i \in LinkPulls(c)
        BY <1>0, <4>2, <4>4 DEF LinkPulls
      <4> QED BY <2>2, <3>1, <3>2, <4>5 DEF InOrder
    <3>4. CASE Pull(c, n)
      <4> DEFINE m == [op |-> "pull", client |-> c, node |-> n]
      <4>1. m \in Task /\ m.node = n BY DEF Task
      <4>2. link'[c] = Append(link[c], m) /\ pulling'[c] = n BY <1>0, <3>4 DEF Pull, Post
      <4> HIDE DEF m
      <4>3. /\ Len(link'[c]) = Len(link[c]) + 1
            /\ \A i \in 1..(Len(link[c]) + 1) : link'[c][i] = IF i = Len(link[c]) + 1 THEN m ELSE link[c][i]
        BY <1>0, <4>1, <4>2, AppendIs
      <4>4. ASSUME NEW i \in LinkPulls(c)' PROVE i = Len(link'[c]) /\ link'[c][i] = m
        <5>1. i \in 1..(Len(link[c]) + 1) /\ link'[c][i].op = "pull" BY <4>3 DEF LinkPulls
        <5>2. i # Len(link[c]) + 1 => i \in LinkPulls(c) BY <1>0, <4>3, <5>1 DEF LinkPulls
        <5> QED BY <3>1, <4>3, <5>1, <5>2
      <4> QED BY <2>2, <3>1, <3>2, <4>1, <4>2, <4>4 DEF InOrder
    <3> QED BY <1>2, <3>3, <3>4
  <2> QED BY <2>1, <2>2
<1>3. ASSUME NEW c \in Client, Pulled(c) PROVE InOrder(d)'
  <2>1. CASE c # d
    <3>1. answers'[d] = answers[d] /\ pulling'[d] = pulling[d] BY <1>0, <1>3, <2>1 DEF Pulled
    <3> QED BY <1>1, <1>3, <3>1, OrderFrame DEF Pulled
  <2>2. CASE c = d
    <3>1. answers[c] # <<>> /\ UNCHANGED <<link, tasks>> BY <1>3 DEF Pulled
    <3>2. LinkPulls(c) = {} /\ TaskPulls(c) = {} BY <1>1, <2>2, <3>1 DEF InOrder
    <3>3. LinkPulls(c)' = {} /\ TaskPulls(c)' = {} BY <3>1, <3>2 DEF LinkPulls, TaskPulls
    <3> QED BY <2>2, <3>3 DEF InOrder
  <2> QED BY <2>1, <2>2
<1>4. ASSUME NEW c \in Client, PullFails(c) PROVE InOrder(d)'
  BY <1>4 DEF PullFails, Served
<1>5. ASSUME NEW c \in Client, Leave(c) PROVE InOrder(d)'
  <2>1. c # d BY <1>0, <1>5 DEF Leave, Served
  <2>2. answers'[d] = answers[d] /\ pulling'[d] = pulling[d] BY <1>0, <1>5, <2>1 DEF Leave
  <2> QED BY <1>1, <1>5, <2>2, OrderFrame DEF Leave
<1>6. ASSUME NEW c \in Client, Accept(c) \/ Close(c) PROVE InOrder(d)'
  BY <1>1, <1>6, OrderFrame DEF Accept, Close, clientVars
<1>7. ASSUME NEW c \in Client, Read(c) PROVE InOrder(d)'
  <2>1. link[c] \in Seq(Task) /\ link[c] # <<>> /\ link' = [link EXCEPT ![c] = Tail(@)]
        /\ tasks' = Append(tasks, Head(link[c])) /\ UNCHANGED <<clientVars, answers>>
    BY <1>0, <1>7 DEF Read
  <2>2. /\ Head(link[c]) \in Task /\ Head(link[c]) = link[c][1] /\ 1 \in 1..Len(link[c])
        /\ Len(link[c]) \in Nat \ {0} /\ Len(Tail(link[c])) = Len(link[c]) - 1 /\ Tail(link[c]) \in Seq(Task)
        /\ \A i \in 1..Len(Tail(link[c])) : i + 1 \in 1..Len(link[c]) /\ Tail(link[c])[i] = link[c][i + 1]
    BY <2>1, TailProperties
  <2>3. Head(link[c]).client = c BY <2>2 DEF Addressed
  <2>4. CASE c # d
    <3>1. link'[d] = link[d] BY <1>0, <2>1, <2>4
    <3> QED BY <1>1, <2>1, <2>2, <2>3, <2>4, <3>1, OrderFrame DEF clientVars
  <2>5. CASE c = d
    <3>1. TaskPulls(c) = {} BY <1>1, <2>1, <2>5 DEF InOrder
    <3>2. link'[c] = Tail(link[c]) /\ pulling'[c] = pulling[c] /\ answers'[c] = answers[c]
      BY <1>0, <2>1 DEF clientVars
    <3>3. /\ Len(tasks') = Len(tasks) + 1 /\ Len(tasks) \in Nat
          /\ \A i \in 1..(Len(tasks) + 1) : tasks'[i] = IF i = Len(tasks) + 1 THEN Head(link[c]) ELSE tasks[i]
      BY <1>0, <2>1, <2>2, AppendIs
    <3>4. \A i \in TaskPulls(c)' : i = Len(tasks') /\ tasks'[i] = Head(link[c]) /\ Head(link[c]).op = "pull"
      BY <3>1, <3>3 DEF TaskPulls
    <3>5. CASE Head(link[c]).op = "pull"
      <4>1. 1 \in LinkPulls(c) BY <2>2, <3>5 DEF LinkPulls
      <4>2. Len(link[c]) = 1 /\ Head(link[c]).node = pulling[c] /\ answers[c] = <<>>
        BY <1>1, <2>2, <2>5, <4>1 DEF InOrder
      <4>3. Len(link'[c]) = 0 /\ link'[c] = <<>> BY <2>2, <3>2, <4>2
      <4>4. LinkPulls(c)' = {} BY <4>3 DEF LinkPulls
      <4>5. \A i \in TaskPulls(c)' : \A j \in 1..Len(tasks') : ~(j > i)
        BY <3>3, <3>4
      <4> QED BY <2>5, <3>2, <3>4, <4>2, <4>3, <4>4, <4>5 DEF InOrder
    <3>6. CASE Head(link[c]).op # "pull"
      <4>1. TaskPulls(c)' = {} BY <3>4, <3>6
      <4>2. \A i \in LinkPulls(c)' : i + 1 \in LinkPulls(c) /\ link'[c][i] = link[c][i + 1] /\ i \in Nat
        BY <2>2, <3>2 DEF LinkPulls
      <4>3. ASSUME NEW i \in LinkPulls(c)'
            PROVE  i = Len(link'[c]) /\ link'[c][i].node = pulling'[c] /\ answers'[c] = <<>>
        <5>1. i + 1 \in LinkPulls(c) /\ link'[c][i] = link[c][i + 1] /\ i \in Nat BY <4>2
        <5>2. i + 1 = Len(link[c]) /\ link[c][i + 1].node = pulling[c] /\ answers[c] = <<>>
          BY <1>1, <2>5, <5>1 DEF InOrder
        <5>3. Len(link'[c]) = Len(link[c]) - 1 /\ Len(link[c]) \in Nat BY <2>2, <3>2
        <5>4. i = Len(link'[c]) BY <5>1, <5>2, <5>3
        <5> QED BY <3>2, <5>1, <5>2, <5>4
      <4> QED BY <2>5, <4>1, <4>3 DEF InOrder
    <3> QED BY <3>5, <3>6
  <2> QED BY <2>4, <2>5
<1>8. CASE Quit BY <1>8 DEF Quit, Served
<1>9. CASE RunPush
  <2>1. tasks # <<>> /\ tasks' = Tail(tasks) /\ UNCHANGED <<clientVars, link, answers>>
    BY <1>9 DEF RunPush, Works
  <2> QED BY <1>1, <2>1, OrderFrame DEF clientVars
<1>10. CASE RunPull
  <2>1. tasks # <<>> /\ tasks' = Tail(tasks) /\ UNCHANGED <<clientVars, conn, link>>
    BY <1>10 DEF RunPull, Works
  <2>2. Sender = Job.client /\ Job.client \in Client BY <2>1, DistinctStays, JobIs
  <2>3. CASE d # Job.client
    <3>1. answers'[d] = answers[d] BY <1>0, <1>10, <2>2, <2>3 DEF RunPull, Reply
    <3> QED BY <1>1, <2>1, <3>1, OrderFrame DEF clientVars
  <2>4. CASE d = Job.client
    <3>1. conn[d] = "up" BY <2>1 DEF Served
    <3>2. LinkPulls(d)' = {} /\ TaskPulls(d)' = {} BY <1>10, <2>4, <3>1, PullInTurn
    <3> QED BY <3>2 DEF InOrder
  <2> QED BY <2>3, <2>4
<1>11. CASE UNCHANGED vars BY <1>1, <1>11, OrderFrame DEF vars, clientVars
<1> QED BY <1>2, <1>3, <1>4, <1>5, <1>6, <1>7, <1>8, <1>9, <1>10, <1>11 DEF Next

\* What is stored along the path of a node holds at the node.
LEMMA StoredHolds ==
  ASSUME TypeOK, Sound, NEW n \in Node
  PROVE  \A l \in Stored(n) : l = <<Home(l[2]), l[2]>> /\ l[2] \in OnBranch(n)
<1> SUFFICES ASSUME NEW l \in Stored(n) PROVE l = <<Home(l[2]), l[2]>> /\ l[2] \in OnBranch(n) OBVIOUS
<1>1. /\ l \in NodePath(n) \X Clause /\ l[2] \in store[l[1]] BY DEF Stored
<1>2. PICK k \in 0..Level(n) : l[1] = Slot(n, k) BY <1>1 DEF NodePath
<1>3. l[1] \in Place BY <1>1, PathPlaces
<1>4. l[1] = Home(l[2]) BY <1>1, <1>3 DEF Sound
<1>5. l[2] \in OnBranch(n) BY <1>1, <1>2, <1>4, HomeHolds DEF Home, Clause
<1> QED BY <1>1, <1>4, <1>5

\* Every step keeps the answers right: the worker sends what is stored along the path of
\* the node, and all of it holds there.
LEMMA RightStep ==
  ASSUME TypeOK, Addressed, Sound, Newcomers, PullsInOrder, AnswersRight, [Next]_vars, Distinct'
  PROVE  AnswersRight'
<1> SUFFICES ASSUME NEW d \in Client, answers'[d] # <<>> PROVE Answered(d)' BY DEF AnswersRight, Answered
<1>0. /\ link \in [Client -> Seq(Task)] /\ tasks \in Seq(Task) /\ answers \in [Client -> Seq(SUBSET Clause)]
      /\ DOMAIN pulling = Client /\ DOMAIN conn = Client
  BY DEF TypeOK
<1> DEFINE Same == answers'[d] = answers[d] /\ pulling'[d] = pulling[d]
<1>1. ASSUME Same, LinkPulls(d)' \subseteq LinkPulls(d) \/ (link'[d] = Tail(link[d]) /\ link[d] # <<>>)
      PROVE  Answered(d)'
  <2>1. answers[d] # <<>> /\ Answered(d) BY <1>1 DEF AnswersRight
  <2>2. ASSUME Served(d)' PROVE Served(d)
    <3>1. conn[d] # "away" BY <2>1 DEF Newcomers
    <3> QED BY <2>2, <3>1, ServedBefore
  <2>3. ASSUME Served(d)' PROVE LinkPulls(d)' = {}
    <3>1. LinkPulls(d) = {} BY <2>1, <2>2, <2>3 DEF Answered
    <3>2. CASE link'[d] = Tail(link[d]) /\ link[d] # <<>>
      <4>1. \A i \in 1..Len(link'[d]) : i + 1 \in 1..Len(link[d]) /\ link'[d][i] = link[d][i + 1]
        BY <1>0, <3>2, TailProperties
      <4> QED BY <3>1, <4>1 DEF LinkPulls
    <3> QED BY <1>1, <2>3, <3>1, <3>2
  <2> QED BY <1>1, <2>1, <2>3 DEF Answered
<1>2. ASSUME NEW c \in Client, NEW n \in Node, Push(c, n) \/ Pull(c, n) PROVE Answered(d)'
  <2>1. answers[c] = <<>> /\ UNCHANGED answers BY <1>2, NoPull DEF Push, Pull
  <2>2. c # d BY <2>1
  <2>3. link'[d] = link[d] /\ pulling'[d] = pulling[d] BY <1>0, <1>2, <2>2 DEF Push, Pull, Post
  <2>4. LinkPulls(d)' = LinkPulls(d) BY <2>3 DEF LinkPulls
  <2> QED BY <1>1, <2>1, <2>3, <2>4
<1>3. ASSUME NEW c \in Client, Pulled(c) \/ PullFails(c) \/ Leave(c) PROVE Answered(d)'
  <2>1. c # d
    <3>1. CASE Pulled(c)
      <4>1. Len(answers[c]) = 1 /\ answers[c] # <<>> BY <3>1 DEF Pulled, AnswersRight, Answered
      <4>2. answers'[c] = Tail(answers[c]) /\ Len(answers'[c]) = 0
        BY <1>0, <3>1, <4>1, TailProperties DEF Pulled
      <4>3. answers'[c] = <<>> BY <1>0, <4>1, <4>2, TailProperties
      <4> QED BY <4>3
    <3>2. CASE PullFails(c) BY <3>2 DEF PullFails
    <3>3. CASE Leave(c) BY <1>0, <3>3 DEF Leave
    <3> QED BY <1>3, <3>1, <3>2, <3>3
  <2>2. Same /\ link' = link BY <1>0, <1>3, <2>1 DEF Pulled, PullFails, Leave
  <2>3. LinkPulls(d)' = LinkPulls(d) BY <2>2 DEF LinkPulls
  <2> QED BY <1>1, <2>2, <2>3
<1>4. ASSUME UNCHANGED <<clientVars, link, answers>> PROVE Answered(d)'
  <2>1. LinkPulls(d)' = LinkPulls(d) BY <1>4 DEF LinkPulls
  <2> QED BY <1>1, <1>4, <2>1 DEF clientVars
<1>5. ASSUME NEW c \in Client, Read(c) PROVE Answered(d)'
  <2>1. Same BY <1>5 DEF Read, clientVars
  <2>2. CASE c = d
    <3>1. link'[d] = Tail(link[d]) /\ link[d] # <<>> BY <1>0, <1>5, <2>2 DEF Read
    <3> QED BY <1>1, <2>1, <3>1
  <2>3. CASE c # d
    <3>1. link'[d] = link[d] BY <1>0, <1>5, <2>3 DEF Read
    <3>2. LinkPulls(d)' = LinkPulls(d) BY <3>1 DEF LinkPulls
    <3> QED BY <1>1, <2>1, <3>2
  <2> QED BY <2>2, <2>3
<1>6. CASE RunPull
  <2>1. tasks # <<>> /\ UNCHANGED <<clientVars, conn, link>> BY <1>6 DEF RunPull, Works
  <2>2. Sender = Job.client /\ Job.client \in Client /\ Job.node \in Node BY <2>1, DistinctStays, JobIs
  <2>3. LinkPulls(d)' = LinkPulls(d) BY <2>1 DEF LinkPulls
  <2>4. CASE answers'[d] = answers[d] BY <1>1, <2>1, <2>3, <2>4 DEF clientVars
  <2>5. CASE answers'[d] # answers[d]
    <3>1. d = Job.client /\ conn[d] = "up" BY <1>0, <1>6, <2>2, <2>5 DEF RunPull, Reply
    <3>2. PICK sent \in Selections(Stored(Job.node) \ known[d]) : answers' = Reply(d, {l[2] : l \in sent})
      BY <1>6, <2>2, <3>1 DEF RunPull
    <3>3. Job.node = pulling[d] /\ answers[d] = <<>> /\ LinkPulls(d)' = {} BY <1>6, <3>1, PullInTurn
    <3>4. sent \subseteq Stored(Job.node) BY <3>2 DEF Selections
    <3>5. {l[2] : l \in sent} \subseteq OnBranch(Job.node) BY <2>2, <3>4, StoredHolds
    <3>6. answers'[d] = <<{l[2] : l \in sent}>>
      <4> DEFINE cls == {l[2] : l \in sent}
      <4>1. answers' = Reply(d, cls) BY <3>2
      <4> HIDE DEF cls
      <4>2. answers'[d] = Append(<<>>, cls) BY <1>0, <3>1, <3>3, <4>1 DEF Reply
      <4>3. answers'[d] = <<cls>> BY <4>2
      <4> QED BY <4>3 DEF cls
    <3>7. Len(answers'[d]) = 1 /\ answers'[d][1] \subseteq OnBranch(pulling'[d]) BY <2>1, <3>3, <3>5, <3>6 DEF clientVars
    <3>8. pulling'[d] # None BY <2>1, <2>2, <3>3, LemmaAssumption DEF clientVars, Node
    <3> QED BY <3>3, <3>7, <3>8 DEF Answered
  <2> QED BY <2>4, <2>5
<1>7. Quit \/ RunPush \/ UNCHANGED vars \/ (\E c \in Client : Accept(c) \/ Close(c)) => Answered(d)'
  BY <1>4 DEF Quit, RunPush, Accept, Close, vars
<1> QED BY <1>2, <1>3, <1>5, <1>6, <1>7 DEF Next

-----------------------------------------------------------------------------
(* Without the option to send again, while no record is erased. *)

\* What is recorded stays recorded.
LEMMA KnownStays ==
  ASSUME TypeOK, [Next]_vars, Distinct', ~collected', NEW c \in Client, Served(c)'
  PROVE  known[c] \subseteq known'[c]
<1>0. known \in [Client -> SUBSET Lemma] BY DEF TypeOK
<1>1. ASSUME NEW d \in Client, Close(d) PROVE known[c] \subseteq known'[c]
  <2>1. c # d BY <1>1 DEF Close, Served, TypeOK
  <2> QED BY <1>0, <1>1, <2>1 DEF Close
<1>2. CASE RunPush
  <2>1. PICK R \in Garbage(size + Cardinality(Job.clauses)) :
           /\ known' = [Keep(known, R) EXCEPT ![Sender] = @ \cup Recorded(New)]
           /\ collected' = (collected \/ R # {})
    BY <1>2 DEF RunPush, New
  <2>2. R = {} BY <2>1
  <2>3. Keep(known, R)[c] = known[c] BY <2>2 DEF Keep
  <2>4. Sender \in Client BY <1>2, SenderType DEF RunPush, Works
  <2>5. DOMAIN Keep(known, R) = Client BY DEF Keep
  <2> HIDE DEF Keep
  <2> QED BY <2>1, <2>3, <2>4, <2>5
<1>3. CASE RunPull
  <2>1. Sender \in Client BY <1>3, SenderType DEF RunPull, Works
  <2>2. UNCHANGED known \/ \E sent : known' = [known EXCEPT ![Sender] = @ \cup sent] BY <1>3 DEF RunPull
  <2> QED BY <1>0, <2>1, <2>2
<1>4. UNCHANGED known \/ (\E d \in Client : Close(d)) \/ RunPush \/ RunPull
  BY DEF Next, Push, Pull, Pulled, PullFails, Leave, Accept, Read, Quit, vars, treeVars
<1> QED BY <1>1, <1>2, <1>3, <1>4

\* What is recorded when a push is done.
LEMMA PushRecords ==
  ASSUME TypeOK, Sound, RunPush, Distinct', [Next]_vars, ~collected'
  PROVE  \A cl \in Job.clauses : <<Home(cl), cl>> \in known'[Job.client]
<1>1. tasks # <<>> /\ Job.op = "push" /\ Sender = Job.client /\ Sender \in Client
  BY DistinctStays, SenderType DEF RunPush, Works
<1>2. \E R : known' = [Keep(known, R) EXCEPT ![Sender] = @ \cup New] BY DEF RunPush, New, Recorded
<1>3. New \subseteq known'[Sender] BY <1>1, <1>2 DEF Keep
<1> QED BY <1>1, <1>3, NewIs

\* A push goes from the queue of its client to that of the tasks, and is recorded when
\* it is done.
LEMMA PushesKept ==
  ASSUME TypeOK, Addressed, Sound, [Next]_vars, Distinct', ~collected', NEW c \in Client, NEW cl,
         Served(c)', KnownTo(c, cl) \/ OnLink(c, cl) \/ InTasks(c, cl)
  PROVE  (KnownTo(c, cl) \/ OnLink(c, cl) \/ InTasks(c, cl))'
<1>0. link \in [Client -> Seq(Task)] /\ tasks \in Seq(Task) BY DEF TypeOK
<1>1. CASE KnownTo(c, cl) BY <1>1, KnownStays DEF KnownTo
<1>2. ASSUME UNCHANGED <<link, tasks>>, OnLink(c, cl) \/ InTasks(c, cl)
      PROVE  (OnLink(c, cl) \/ InTasks(c, cl))'
  BY <1>2 DEF OnLink, InTasks
<1>3. ASSUME NEW d \in Client, NEW m, Written(d, m), UNCHANGED tasks, OnLink(c, cl) \/ InTasks(c, cl)
      PROVE  (OnLink(c, cl) \/ InTasks(c, cl))'
  <2>1. CASE InTasks(c, cl) BY <1>3, <2>1 DEF InTasks
  <2>2. CASE OnLink(c, cl)
    <3>1. CASE c # d BY <1>0, <1>3, <2>2, <3>1 DEF OnLink, Written
    <3>2. CASE c = d
      <4>1. link'[c] = Append(link[c], m) /\ m \in Task BY <1>0, <1>3, <3>2 DEF Written
      <4>2. /\ Len(link'[c]) = Len(link[c]) + 1 /\ Len(link[c]) \in Nat
            /\ \A i \in 1..Len(link[c]) : i \in 1..Len(link'[c]) /\ link'[c][i] = link[c][i]
        BY <1>0, <4>1, AppendIs
      <4> QED BY <2>2, <4>2 DEF OnLink
    <3> QED BY <3>1, <3>2
  <2> QED BY <1>3, <2>1, <2>2
<1>4. ASSUME NEW d \in Client, Read(d), OnLink(c, cl) \/ InTasks(c, cl)
      PROVE  (OnLink(c, cl) \/ InTasks(c, cl))'
  <2>1. link[d] \in Seq(Task) /\ link[d] # <<>> /\ link' = [link EXCEPT ![d] = Tail(@)]
        /\ tasks' = Append(tasks, Head(link[d]))
    BY <1>0, <1>4 DEF Read
  <2>2. /\ Head(link[d]) \in Task /\ Head(link[d]) = link[d][1] /\ 1 \in 1..Len(link[d])
        /\ Len(link[d]) \in Nat \ {0} /\ Len(Tail(link[d])) = Len(link[d]) - 1
        /\ \A i \in 1..Len(Tail(link[d])) : i + 1 \in 1..Len(link[d]) /\ Tail(link[d])[i] = link[d][i + 1]
    BY <2>1, TailProperties
  <2>3. Head(link[d]).client = d BY <2>2 DEF Addressed
  <2>4. /\ Len(tasks') = Len(tasks) + 1 /\ Len(tasks) \in Nat
        /\ \A i \in 1..(Len(tasks) + 1) : tasks'[i] = IF i = Len(tasks) + 1 THEN Head(link[d]) ELSE tasks[i]
    BY <1>0, <2>1, <2>2, AppendIs
  <2>5. CASE InTasks(c, cl)
    <3>1. PICK i \in 1..Len(tasks) : tasks[i].op = "push" /\ tasks[i].client = c /\ cl \in tasks[i].clauses
      BY <2>5 DEF InTasks
    <3>2. i \in 1..Len(tasks') /\ tasks'[i] = tasks[i] BY <2>4
    <3> QED BY <3>1, <3>2 DEF InTasks
  <2>6. CASE OnLink(c, cl)
    <3>1. PICK i \in 1..Len(link[c]) : link[c][i].op = "push" /\ cl \in link[c][i].clauses
      BY <2>6 DEF OnLink
    <3>2. CASE c # d BY <1>0, <2>1, <3>1, <3>2 DEF OnLink
    <3>3. CASE c = d /\ i = 1
      <4>1. Len(tasks') \in 1..Len(tasks') /\ tasks'[Len(tasks')] = Head(link[d]) BY <2>4
      <4> QED BY <2>2, <2>3, <3>1, <3>3, <4>1 DEF InTasks
    <3>4. CASE c = d /\ i # 1
      <4>1. link'[c] = Tail(link[c]) BY <1>0, <2>1, <3>4
      <4>2. i - 1 \in 1..Len(link'[c]) /\ (i - 1) + 1 = i BY <2>2, <3>4, <4>1
      <4>3. link'[c][i - 1] = link[c][i] BY <2>2, <3>4, <4>1, <4>2
      <4> QED BY <3>1, <4>2, <4>3 DEF OnLink
    <3> QED BY <3>2, <3>3, <3>4
  <2> QED BY <1>4, <2>5, <2>6
<1>5. ASSUME RunPush \/ RunPull, tasks # <<>>, tasks' = Tail(tasks), UNCHANGED link,
             OnLink(c, cl) \/ InTasks(c, cl)
      PROVE  (KnownTo(c, cl) \/ OnLink(c, cl) \/ InTasks(c, cl))'
  <2>1. CASE OnLink(c, cl) BY <1>5, <2>1 DEF OnLink
  <2>2. CASE InTasks(c, cl)
    <3>1. PICK i \in 1..Len(tasks) : tasks[i].op = "push" /\ tasks[i].client = c /\ cl \in tasks[i].clauses
      BY <2>2 DEF InTasks
    <3>2. CASE i = 1
      <4>1. Job = tasks[1] BY <1>5, JobIs
      <4>2. RunPush BY <1>5, <3>1, <3>2, <4>1 DEF RunPull, Works
      <4> QED BY <3>1, <3>2, <4>1, <4>2, PushRecords DEF KnownTo
    <3>3. CASE i # 1
      <4>1. /\ Len(tasks') = Len(tasks) - 1 /\ Len(tasks) \in Nat
            /\ \A j \in 1..Len(tasks') : tasks'[j] = tasks[j + 1]
        BY <1>0, <1>5, TailProperties
      <4>2. i - 1 \in 1..Len(tasks') /\ (i - 1) + 1 = i BY <3>3, <4>1
      <4>3. tasks'[i - 1] = tasks[i] BY <4>1, <4>2
      <4> QED BY <3>1, <4>2, <4>3 DEF InTasks
    <3> QED BY <3>2, <3>3
  <2> QED BY <1>5, <2>1, <2>2
<1> QED BY <1>1, <1>2, <1>3, <1>4, <1>5, QueueMoves

\* Every step keeps what the lemma server knows about what each solver has.
LEMMA KnowledgeStep ==
  ASSUME TypeOK, Addressed, Sound, Newcomers, PullsInOrder, AnswersRight, KnowledgeKept,
         [Next]_vars, Distinct', ~collected', ~SendAgain
  PROVE  KnowledgeKept'
<1> SUFFICES ASSUME NEW d \in Client PROVE (Served(d) => Recalled(d))' /\ Unrepeated(d)'
  BY DEF KnowledgeKept
<1>0. /\ link \in [Client -> Seq(Task)] /\ tasks \in Seq(Task) /\ answers \in [Client -> Seq(SUBSET Clause)]
      /\ own \in [Client -> SUBSET Clause] /\ got \in [Client -> SUBSET Clause]
      /\ DOMAIN pulling = Client /\ DOMAIN conn = Client /\ known \in [Client -> SUBSET Lemma]
  BY DEF TypeOK
<1>1. ASSUME Served(d)'
      PROVE  /\ Recalled(d)
             /\ \A cl \in own[d] : (KnownTo(d, cl) \/ OnLink(d, cl) \/ InTasks(d, cl))'
             /\ \A cl \in got[d] : KnownTo(d, cl)'
             /\ answers[d] # <<>> => \A cl \in answers[d][1] : KnownTo(d, cl)'
  <2>1. Recalled(d)
    <3>1. CASE Served(d) BY <3>1 DEF KnowledgeKept
    <3>2. CASE conn[d] = "away" BY <3>2 DEF Newcomers, Recalled
    <3> QED BY <1>1, <3>1, <3>2, ServedBefore
  <2>2. \A cl : KnownTo(d, cl) => KnownTo(d, cl)' BY <1>1, KnownStays DEF KnownTo
  <2>3. \A cl \in own[d] : (KnownTo(d, cl) \/ OnLink(d, cl) \/ InTasks(d, cl))'
    BY <1>1, <2>1, PushesKept DEF Recalled
  <2> QED BY <2>1, <2>2, <2>3 DEF Recalled
<1>2. Unrepeated(d) BY DEF KnowledgeKept
<1>3. ASSUME own'[d] = own[d], got'[d] = got[d], answers'[d] = answers[d] \/ answers'[d] = <<>>
      PROVE  (Served(d) => Recalled(d))' /\ Unrepeated(d)'
  BY <1>1, <1>2, <1>3 DEF Recalled, Unrepeated
<1>4. ASSUME NEW c \in Client, NEW n \in Node, Push(c, n) PROVE (Served(d) => Recalled(d))' /\ Unrepeated(d)'
  <2>1. CASE c # d
    <3>1. own'[d] = own[d] BY <1>0, <1>4, <2>1 DEF Push
    <3> QED BY <1>3, <1>4, <3>1 DEF Push
  <2>2. CASE c = d
    <3>1. PICK learned \in SUBSET OnBranch(n) :
             /\ link' = [link EXCEPT ![c] =
                          Append(@, [op |-> "push", client |-> c, node |-> n, clauses |-> learned])]
             /\ own' = [own EXCEPT ![c] = @ \cup learned]
      BY <1>4 DEF Push, Post
    <3> DEFINE m == [op |-> "push", client |-> c, node |-> n, clauses |-> learned]
    <3>2. m \in Task /\ m.op = "push" /\ m.clauses = learned BY <3>1, OnBranchNodes DEF Task, Clause
    <3>3. link'[c] = Append(link[c], m) /\ own'[c] = own[c] \cup learned BY <1>0, <3>1
    <3> HIDE DEF m
    <3>4. Len(link'[c]) \in 1..Len(link'[c]) /\ link'[c][Len(link'[c])] = m
      BY <1>0, <3>2, <3>3, AppendIs
    <3>5. \A cl \in learned : OnLink(c, cl)' BY <3>2, <3>4 DEF OnLink
    <3>6. answers[c] = <<>> /\ UNCHANGED <<answers, got>> BY <1>4, NoPull DEF Push
    <3>7. ASSUME Served(d)' PROVE Recalled(d)'
      BY <1>1, <2>2, <3>3, <3>5, <3>6, <3>7 DEF Recalled
    <3> QED BY <2>2, <3>6, <3>7 DEF Unrepeated
  <2> QED BY <2>1, <2>2
<1>5. ASSUME NEW c \in Client, Pulled(c) PROVE (Served(d) => Recalled(d))' /\ Unrepeated(d)'
  <2>1. CASE c # d
    <3>1. got'[d] = got[d] /\ answers'[d] = answers[d] BY <1>0, <1>5, <2>1 DEF Pulled
    <3> QED BY <1>3, <1>5, <3>1 DEF Pulled
  <2>2. CASE c = d
    <3>1. answers[c] # <<>> /\ Len(answers[c]) = 1 BY <1>5 DEF Pulled, AnswersRight, Answered
    <3>2. /\ Head(answers[c]) = answers[c][1] /\ Tail(answers[c]) \in Seq(SUBSET Clause)
          /\ Len(Tail(answers[c])) = 0
      BY <1>0, <3>1, TailProperties
    <3>3. answers'[c] = <<>> /\ got'[c] = got[c] \cup answers[c][1] /\ own'[c] = own[c]
      <4>1. Tail(answers[c]) = <<>> BY <3>2, EmptySeq
      <4> QED BY <1>0, <1>5, <3>2, <4>1 DEF Pulled
    <3>4. ASSUME Served(d)' PROVE Recalled(d)'
      BY <1>1, <2>2, <3>1, <3>3, <3>4 DEF Recalled
    <3> QED BY <2>2, <3>3, <3>4 DEF Unrepeated
  <2> QED BY <2>1, <2>2
<1>6. ASSUME NEW c \in Client, Leave(c) PROVE (Served(d) => Recalled(d))' /\ Unrepeated(d)'
  <2>1. answers'[d] = answers[d] \/ answers'[d] = <<>> BY <1>0, <1>6 DEF Leave
  <2> QED BY <1>3, <1>6, <2>1 DEF Leave
<1>7. CASE RunPull
  <2>1. tasks # <<>> /\ UNCHANGED <<clientVars, conn, link>> BY <1>7 DEF RunPull, Works
  <2>2. Sender = Job.client /\ Job.client \in Client /\ Job.node \in Node BY <2>1, DistinctStays, JobIs
  <2>3. CASE answers'[d] = answers[d] BY <1>3, <2>1, <2>3 DEF clientVars
  <2>4. CASE answers'[d] # answers[d]
    <3>1. d = Job.client /\ conn[d] = "up" BY <1>0, <1>7, <2>2, <2>4 DEF RunPull, Reply
    <3>2. PICK sent \in Selections(Stored(Job.node) \ known[d]) :
             /\ known' = [known EXCEPT ![d] = @ \cup sent]
             /\ answers' = Reply(d, {l[2] : l \in sent})
      BY <1>7, <2>2, <3>1 DEF RunPull
    <3>3. /\ answers[d] = <<>> /\ link[d] = <<>> /\ Served(d)
          /\ \A i \in 1..Len(tasks) : i > 1 => tasks[i].client # d
      BY <1>7, <3>1, PullInTurn
    <3>4. sent \subseteq Stored(Job.node) \ known[d] BY <3>2 DEF Selections
    <3>5. \A l \in sent : l = <<Home(l[2]), l[2]>> /\ l \notin known[d] BY <2>2, <3>4, StoredHolds
    <3> DEFINE cls == {l[2] : l \in sent}
    <3>6. \A cl \in cls : ~KnownTo(d, cl) /\ KnownTo(d, cl)'
      <4>1. sent \subseteq known'[d] BY <1>0, <3>2
      <4> QED BY <3>5, <4>1 DEF KnownTo
    <3>7. answers'[d] = <<cls>>
      <4>1. answers' = Reply(d, cls) BY <3>2
      <4> HIDE DEF cls
      <4>2. answers'[d] = Append(<<>>, cls) BY <1>0, <3>1, <3>3, <4>1 DEF Reply
      <4> QED BY <4>2
    <3> HIDE DEF cls
    <3>8. Recalled(d) BY <3>3 DEF KnowledgeKept
    <3>9. \A cl \in own[d] : KnownTo(d, cl)
      <4>1. Len(link[d]) = 0 BY <3>3
      <4>2. \A cl : ~OnLink(d, cl) BY <4>1 DEF OnLink
      <4>3. Job = tasks[1] /\ Job.op = "pull" BY <1>7, <2>1, JobIs DEF RunPull, Works
      <4>4. Len(tasks) \in Nat BY <1>0
      <4>5. \A cl : ~InTasks(d, cl) BY <3>3, <4>3, <4>4 DEF InTasks
      <4> QED BY <3>8, <4>2, <4>5 DEF Recalled
    <3>10. cls \cap (own[d] \cup got[d]) = {} BY <3>6, <3>8, <3>9 DEF Recalled
    <3>11. answers'[d][1] = cls /\ own'[d] = own[d] /\ got'[d] = got[d] BY <2>1, <3>7 DEF clientVars
    <3>12. ASSUME Served(d)' PROVE Recalled(d)'
      BY <1>1, <3>6, <3>11, <3>12 DEF Recalled
    <3> QED BY <3>10, <3>11, <3>12 DEF Unrepeated
  <2> QED BY <2>3, <2>4
<1>8. CASE UNCHANGED <<own, got, answers>> BY <1>3, <1>8
<1>9. \/ UNCHANGED <<own, got, answers>> \/ RunPull
      \/ \E c \in Client : Pulled(c) \/ Leave(c) \/ \E n \in Node : Push(c, n)
  BY DEF Next, Pull, PullFails, Accept, Read, Close, Quit, RunPush, vars, clientVars
<1> QED BY <1>4, <1>5, <1>6, <1>7, <1>8, <1>9

-----------------------------------------------------------------------------
(* The theorems. *)

\* The invariant holds at first.
LEMMA InitInvariant == Init => IInv
<1> SUFFICES ASSUME Init PROVE IInv OBVIOUS
<1> USE DEF Init
<1>1. TypeOK
  <2>1. /\ link \in [Client -> Seq(Task)] /\ tasks \in Seq(Task)
        /\ answers \in [Client -> Seq(SUBSET Clause)]
    OBVIOUS
  <2>2. posts \in 0..MaxPosts /\ size \in Nat BY LemmaAssumption
  <2> QED BY <2>1, <2>2 DEF TypeOK
<1>2. /\ \A c \in Client : link[c] = <<>> /\ answers[c] = <<>> /\ Len(link[c]) = 0
      /\ tasks = <<>> /\ Len(tasks) = 0
  OBVIOUS
<1>3. Addressed /\ Sound /\ Newcomers BY <1>2 DEF Addressed, Sound, Newcomers
<1>4. PullsInOrder /\ AnswersRight
  BY <1>2 DEF PullsInOrder, AnswersRight, InOrder, Answered, LinkPulls, TaskPulls
<1>5. KnowledgeKept BY <1>2 DEF KnowledgeKept, Recalled, Unrepeated
<1> QED BY <1>1, <1>3, <1>4, <1>5 DEF IInv

\* Every step keeps it.
LEMMA StepInvariant == IInv /\ [Next]_vars => IInv'
<1> SUFFICES ASSUME IInv, [Next]_vars PROVE IInv' OBVIOUS
<1>1. TypeOK /\ Addressed /\ Sound /\ Newcomers BY DEF IInv
<1>2. TypeOK' /\ Addressed' /\ Sound' /\ Newcomers'
  BY <1>1, TypeStep, AddressedStep, SoundStep, NewcomersStep
<1>3. ASSUME Distinct' PROVE Distinct /\ PullsInOrder /\ AnswersRight /\ PullsInOrder' /\ AnswersRight'
  <2>1. Distinct BY <1>1, <1>3, DistinctStays
  <2>2. PullsInOrder /\ AnswersRight BY <2>1 DEF IInv
  <2> QED BY <1>1, <1>3, <2>1, <2>2, OrderStep, RightStep
<1>4. ASSUME ~SendAgain, Distinct', ~collected' PROVE KnowledgeKept'
  <2>1. ~collected
    BY <1>1, <1>4 DEF Next, Push, Pull, Pulled, PullFails, Leave, Accept, Read, Close, Quit, RunPush, RunPull,
                     vars, treeVars, TypeOK
  <2>2. KnowledgeKept BY <1>3, <1>4, <2>1 DEF IInv
  <2> QED BY <1>1, <1>3, <1>4, <2>2, KnowledgeStep
<1> QED BY <1>2, <1>3, <1>4 DEF IInv

\* The inductive invariant holds throughout.
THEOREM LemmaServerInvariant == Spec => []IInv
<1>1. Init => IInv BY InitInvariant
<1>2. IInv /\ [Next]_vars => IInv' BY StepInvariant
<1> QED BY <1>1, <1>2, PTL DEF Spec

\* The state is well typed throughout: lemmasSize, which is unsigned, never wraps in
\* garbageCollect, and what is recorded for a client is stored and looked up for it.
THEOREM LemmaServerTypes == Spec => []TypeOK
<1>1. IInv => TypeOK BY DEF IInv
<1> QED BY <1>1, LemmaServerInvariant, PTL

\* As long as no socket took the memory of a deleted one, whatever is learned, pushed and
\* forgotten by any number of solvers, a solver is only sent clauses that hold at the node
\* it asked for (lemma_worker).
THEOREM AnswersHoldOnPath == Spec => []SharedIfDistinct
<1>1. IInv => SharedIfDistinct
  <2> SUFFICES ASSUME IInv, Distinct, NEW c \in Client, answers[c] # <<>>
               PROVE  Head(answers[c]) \subseteq OnBranch(pulling[c])
    BY DEF SharedIfDistinct, SharedOnPath
  <2>1. Answered(c) /\ answers[c] \in Seq(SUBSET Clause) BY DEF IInv, AnswersRight, TypeOK
  <2>2. Head(answers[c]) = answers[c][1] BY <2>1, TailProperties
  <2> QED BY <2>1, <2>2 DEF Answered
<1> QED BY <1>1, LemmaServerInvariant, PTL

\* Without the option to send again, as long as no socket took the memory of a deleted one
\* and no record was erased, no solver is sent a clause that it pushed or was sent before
\* (lemma_worker, filter).
THEOREM ClausesSentOnce == Spec => []OncePerClient
<1>1. IInv => OncePerClient
  <2> SUFFICES ASSUME IInv, ~SendAgain, Distinct, ~collected, NEW c \in Client, answers[c] # <<>>
               PROVE  Head(answers[c]) \cap (own[c] \cup got[c]) = {}
    BY DEF OncePerClient
  <2>1. Unrepeated(c) /\ answers[c] \in Seq(SUBSET Clause) BY DEF IInv, KnowledgeKept, TypeOK
  <2>2. Head(answers[c]) = answers[c][1] BY <2>1, TailProperties
  <2> QED BY <2>1, <2>2 DEF Unrepeated
<1> QED BY <1>1, LemmaServerInvariant, PTL
=============================================================================
