---------------------------- MODULE MovesProofs ----------------------------
(***************************************************************************)
(* Proofs about Moves.tla, for any number of solvers and instances, trees  *)
(* and paths of any size, and queues of any length.                        *)
(*                                                                         *)
(* ScriptLeads is the fact about scripts: run where it starts, a script    *)
(* leads to its node.  MovesInv is inductive; StackIsBranch holds after a   *)
(* message is read because ViewsChain says that the script in it starts    *)
(* where the process is.                                                   *)
(***************************************************************************)
EXTENDS Moves, TLAPS, FiniteSetTheorems, SequenceTheorems, WellFoundedInduction

\* A message carries the script of its header.
Messages ==
  {m \in [op : {"solve", "incremental", "partition", "stop"}, of : Instance, from : Path, to : Path,
          script : [pop : Nat, add : Seq(Path)]] :
     /\ m.op = "solve" => m.script = Whole(m.to)
     /\ m.op = "incremental" => m.script = Script(m.to, m.from)
     /\ m.op = "partition" => m.from = m.to /\ m.script = [pop |-> 0, add |-> <<>>]}

TypeInv ==
  /\ root \in Instance \cup {None}
  /\ tree \in SUBSET Path
  /\ node \in [Solver -> Path \cup {None}]
  /\ chan \in [Solver -> Seq(Messages)]
  /\ at \in [Solver -> (Instance \X Path) \cup {None}]
  /\ stack \in [Solver -> Seq(Instance \X Path)]

\* Only the solvers of a running instance have a node.
NodeInv == root = None => \A s \in Solver : node[s] = None

\* A process has asserted its branch: the first part of StackIsBranch.
BranchInv ==
  \A s \in Solver : stack[s] = IF at[s] = None THEN <<>> ELSE Of(at[s][1], Line(at[s][2]))

MovesInv == TypeInv /\ NodeInv /\ ViewsChain /\ BranchInv


-----------------------------------------------------------------------------
(* Scripts.                                                                *)

\* The first k steps of a path are a path, and each of them is a step of it.
LEMMA PrefixType ==
  ASSUME NEW T, NEW n \in Seq(T), NEW k \in 0..Len(n)
  PROVE  /\ Prefix(n, k) \in Seq(T) /\ Len(Prefix(n, k)) = k
         /\ \A i \in 1..k : Prefix(n, k)[i] = n[i]
BY SubSeqProperties DEF Prefix

\* The climb of to_string ends at an ancestor of the target: the root is one.
LEMMA MeetsAncestor ==
  ASSUME NEW start \in Path, NEW n \in Path
  PROVE  /\ Meets(start, n) \in 0..Len(start)
         /\ IsAncestor(Prefix(start, Meets(start, n)), n)
<1> DEFINE Meet(k) == IsAncestor(Prefix(start, k), n)
           T == {Len(start) - k : k \in {j \in 0..Len(start) : Meet(j)}}
<1>1. Meet(0)
  BY PrefixType DEF IsAncestor, Path
<1>2. T \subseteq Nat /\ T # {}
  <2>1. Len(start) - 0 \in T BY <1>1 DEF Path
  <2> QED BY <2>1 DEF Path
<1>3. PICK t \in T : \A u \in T : ~(<<u, t>> \in OpToRel(<, Nat))
  <2> HIDE DEF T
  <2> QED BY <1>2, NatLessThanWellFounded, WFMin
<1>4. PICK k \in 0..Len(start) : Meet(k) /\ t = Len(start) - k
  OBVIOUS
<1>5. \A j \in k + 1..Len(start) : ~Meet(j)
  <2> SUFFICES ASSUME NEW j \in k + 1..Len(start), Meet(j) PROVE FALSE
    OBVIOUS
  <2>1. j \in 0..Len(start) /\ Len(start) - j < t BY <1>4 DEF Path
  <2>2. Len(start) - j \in T BY <2>1
  <2>3. <<Len(start) - j, t>> \in OpToRel(<, Nat) BY <1>2, <2>1, <2>2 DEF OpToRel
  <2> QED BY <1>3, <2>2, <2>3
<1>6. \E m \in 0..Len(start) : Meet(m) /\ \A j \in m + 1..Len(start) : ~Meet(j)
  BY <1>4, <1>5
<1> QED BY <1>6 DEF Meets

\* A branch is a sequence of paths, the root first.
LEMMA LineType ==
  ASSUME NEW n \in Path
  PROVE  /\ Depth(n) \in Nat /\ 2 * Depth(n) <= Len(n)
         /\ Line(n) \in Seq(Path) /\ Len(Line(n)) = Depth(n) + 1
         /\ \A k \in 1..Depth(n) + 1 : Line(n)[k] = Prefix(n, 2 * (k - 1))
<1>1. Len(n) \in Nat BY DEF Path
<1>2. Depth(n) \in Nat /\ 2 * Depth(n) <= Len(n) BY <1>1 DEF Depth
<1>3. \A k \in 1..Depth(n) + 1 : Prefix(n, 2 * (k - 1)) \in Path
  <2> TAKE k \in 1..Depth(n) + 1
  <2>1. 2 * (k - 1) \in 0..Len(n) BY <1>1, <1>2
  <2> QED BY <2>1, PrefixType DEF Path
<1>4. Line(n) \in [1..Depth(n) + 1 -> Path] BY <1>3 DEF Line
<1>5. Line(n) \in Seq(Path) /\ Len(Line(n)) = Depth(n) + 1 BY <1>2, <1>4
<1> QED BY <1>2, <1>5 DEF Line

\* Two paths that agree up to m have the same prefixes up to m.
LEMMA SamePrefix ==
  ASSUME NEW start \in Path, NEW n \in Path, NEW m \in 0..Len(start),
         IsAncestor(Prefix(start, m), n), NEW k \in 0..m
  PROVE  m <= Len(n) /\ Prefix(start, k) = Prefix(n, k)
<1>1. Len(start) \in Nat /\ Len(n) \in Nat BY DEF Path
<1>2. m <= Len(n) /\ \A i \in 1..m : start[i] = n[i]
  BY <1>1, PrefixType DEF IsAncestor, Path
<1>3. k \in 0..Len(start) /\ k \in 0..Len(n) BY <1>1, <1>2
<1>4. /\ Prefix(start, k) \in Seq(Nat) /\ Len(Prefix(start, k)) = k
      /\ Prefix(n, k) \in Seq(Nat) /\ Len(Prefix(n, k)) = k
      /\ \A i \in 1..k : Prefix(start, k)[i] = start[i] /\ Prefix(n, k)[i] = n[i]
  BY <1>3, PrefixType DEF Path
<1>5. \A i \in 1..k : Prefix(start, k)[i] = Prefix(n, k)[i]
  BY <1>2, <1>4
<1> QED BY <1>2, <1>4, <1>5, SeqEqual

\* Run on the branch where it starts, a script never pops the frame of the root, and
\* leaves the branch of its node (SMT.to_string).
THEOREM ScriptLeads ==
  ASSUME NEW start \in Path, NEW n \in Path
  PROVE  LET sc == Script(n, start) IN
         /\ sc \in [pop : Nat, add : Seq(Path)]
         /\ CanRun(sc.pop, Line(start))
         /\ Run(sc.pop, sc.add, Line(start)) = Line(n)
<1> DEFINE m == Meets(start, n)
           h == m \div 2
           pop == Pops(start, m)
           add == Adds(n, m)
           keep == Depth(start) + 1 - pop
<1>1. Script(n, start) = [pop |-> pop, add |-> add] BY DEF Script
<1>2. m \in 0..Len(start) /\ IsAncestor(Prefix(start, m), n) BY MeetsAncestor
<1>3. m <= Len(n) BY <1>2, SamePrefix
<1>4. Len(start) \in Nat /\ Len(n) \in Nat BY DEF Path
<1>5. /\ h \in Nat /\ h <= Depth(start) /\ h <= Depth(n) /\ 2 * h <= m
      /\ Depth(start) \in Nat /\ Depth(n) \in Nat /\ 2 * Depth(n) <= Len(n)
  BY <1>2, <1>3, <1>4 DEF Depth
<1>6. pop \in Nat /\ pop < Depth(start) + 1 /\ keep = h + 1 BY <1>5 DEF Pops
<1>7. add \in Seq(Path) /\ Len(add) = Depth(n) - h
      /\ \A k \in 1..Depth(n) - h : add[k] = Prefix(n, 2 * (h + k))
  <2>1. \A k \in 1..Depth(n) - h : Prefix(n, 2 * (h + k)) \in Path
    <3> TAKE k \in 1..Depth(n) - h
    <3>1. 2 * (h + k) \in 0..Len(n) BY <1>4, <1>5
    <3> QED BY <3>1, PrefixType DEF Path
  <2>2. add = [k \in 1..Depth(n) - h |-> Prefix(n, 2 * (h + k))] BY DEF Adds
  <2>3. Depth(n) - h \in Nat BY <1>5
  <2> HIDE DEF h, add
  <2>4. add \in [1..Depth(n) - h -> Path] BY <2>1, <2>2
  <2> QED BY <2>2, <2>3, <2>4
<1>8. /\ Prefix(Line(start), h + 1) \in Seq(Path) /\ Len(Prefix(Line(start), h + 1)) = h + 1
      /\ \A k \in 1..h + 1 : Prefix(Line(start), h + 1)[k] = Prefix(n, 2 * (k - 1))
  <2>1. h + 1 \in 0..Len(Line(start))
    <3>1. Len(Line(start)) = Depth(start) + 1 BY LineType
    <3> HIDE DEF h
    <3> QED BY <1>5, <3>1
  <2>2. \A k \in 1..h + 1 : Line(start)[k] = Prefix(n, 2 * (k - 1))
    <3> TAKE k \in 1..h + 1
    <3>1. 2 * (k - 1) \in 0..m /\ k \in 1..Depth(start) + 1 BY <1>2, <1>5
    <3>2. Line(start)[k] = Prefix(start, 2 * (k - 1)) BY <3>1, LineType
    <3>3. Prefix(start, 2 * (k - 1)) = Prefix(n, 2 * (k - 1))
      <4> HIDE DEF m
      <4> QED BY <1>2, <3>1, SamePrefix
    <3> QED BY <3>2, <3>3
  <2> HIDE DEF h
  <2> QED BY <2>1, <2>2, LineType, PrefixType
<1>9. Prefix(Line(start), h + 1) \o add = Line(n)
  <2> DEFINE p == Prefix(Line(start), h + 1)
  <2>1. /\ p \in Seq(Path) /\ Len(p) = h + 1
        /\ \A k \in 1..h + 1 : p[k] = Prefix(n, 2 * (k - 1))
    BY <1>8
  <2> HIDE DEF m, h, add, p
  <2>2. /\ p \o add \in Seq(Path) /\ Len(p \o add) = Depth(n) + 1
        /\ \A k \in 1..Depth(n) + 1 :
             (p \o add)[k] = IF k <= h + 1 THEN p[k] ELSE add[k - (h + 1)]
    <3>1. Len(p) + Len(add) = Depth(n) + 1 BY <1>5, <1>7, <2>1
    <3>2. p \in Seq(Path) /\ add \in Seq(Path) BY <1>7, <2>1
    <3>3. /\ p \o add \in Seq(Path) /\ Len(p \o add) = Len(p) + Len(add)
          /\ \A k \in 1..Len(p) + Len(add) :
               (p \o add)[k] = IF k <= Len(p) THEN p[k] ELSE add[k - Len(p)]
      BY <3>2, ConcatProperties
    <3> QED BY <2>1, <3>1, <3>3
  <2>3. \A k \in 1..Depth(n) + 1 : (p \o add)[k] = Prefix(n, 2 * (k - 1))
    <3> TAKE k \in 1..Depth(n) + 1
    <3>1. CASE k <= h + 1
      BY <1>5, <2>1, <2>2, <3>1
    <3>2. CASE ~(k <= h + 1)
      <4>1. k - (h + 1) \in 1..Depth(n) - h /\ h + (k - (h + 1)) = k - 1
        BY <1>5, <3>2
      <4>2. (p \o add)[k] = add[k - (h + 1)] BY <2>2, <3>2
      <4>3. add[k - (h + 1)] = Prefix(n, 2 * (h + (k - (h + 1)))) BY <1>7, <4>1
      <4> QED BY <4>1, <4>2, <4>3
    <3> QED BY <3>1, <3>2
  <2>4. /\ Line(n) \in Seq(Path) /\ Len(Line(n)) = Depth(n) + 1
        /\ \A k \in 1..Depth(n) + 1 : Line(n)[k] = Prefix(n, 2 * (k - 1))
    BY LineType
  <2>5. p \o add = Line(n)
    BY <2>2, <2>3, <2>4, SeqEqual
  <2> QED BY <2>5 DEF p
<1>10. Len(Line(start)) = Depth(start) + 1 BY LineType
<1> HIDE DEF h, add, pop, m
<1>11. Len(Line(start)) - pop = h + 1 /\ pop < Len(Line(start))
  BY <1>5, <1>6, <1>10
<1>12. Run(pop, add, Line(start)) = Line(n) BY <1>9, <1>11 DEF Run
<1> QED BY <1>1, <1>6, <1>7, <1>11, <1>12 DEF CanRun

-----------------------------------------------------------------------------
(* Messages.                                                               *)

LEMMA OfType ==
  ASSUME NEW i \in Instance, NEW ns \in Seq(Path)
  PROVE  /\ Of(i, ns) \in Seq(Instance \X Path) /\ Len(Of(i, ns)) = Len(ns)
         /\ \A k \in 1..Len(ns) : Of(i, ns)[k] = <<i, ns[k]>>
<1>1. Len(ns) \in Nat /\ \A k \in 1..Len(ns) : <<i, ns[k]>> \in Instance \X Path OBVIOUS
<1>2. Of(i, ns) \in [1..Len(ns) -> Instance \X Path] BY <1>1 DEF Of
<1>3. Of(i, ns) \in Seq(Instance \X Path) /\ Len(Of(i, ns)) = Len(ns) BY <1>1, <1>2
<1> QED BY <1>3 DEF Of

\* Naming the instance of every node does not change what a script does.
LEMMA RunOf ==
  ASSUME NEW i \in Instance, NEW st \in Seq(Path), NEW add \in Seq(Path),
         NEW pop \in Nat, pop <= Len(st)
  PROVE  Run(pop, Of(i, add), Of(i, st)) = Of(i, Run(pop, add, st))
<1> DEFINE T == Instance \X Path
           k == Len(st) - pop
           os == Of(i, st)
           oa == Of(i, add)
           p == Prefix(st, k)
           q == Prefix(os, k)
<1>1. k \in 0..Len(st) OBVIOUS
<1>2. p \in Seq(Path) /\ Len(p) = k /\ \A j \in 1..k : p[j] = st[j]
  BY <1>1, PrefixType
<1>3. os \in Seq(T) /\ Len(os) = Len(st) /\ \A j \in 1..Len(st) : os[j] = <<i, st[j]>>
  BY OfType
<1>4. oa \in Seq(T) /\ Len(oa) = Len(add) /\ \A j \in 1..Len(add) : oa[j] = <<i, add[j]>>
  BY OfType
<1>5. Run(pop, add, st) = p \o add /\ Run(pop, oa, os) = q \o oa
  BY <1>3 DEF Run
<1>6. q \in Seq(T) /\ Len(q) = k /\ \A j \in 1..k : q[j] = os[j]
  <2> HIDE DEF T, k, os
  <2> QED BY <1>1, <1>3, PrefixType
<1> HIDE DEF T, p, q, os, oa
<1>7. /\ p \o add \in Seq(Path) /\ Len(p \o add) = Len(p) + Len(add)
      /\ \A j \in 1..Len(p) + Len(add) :
           (p \o add)[j] = IF j <= Len(p) THEN p[j] ELSE add[j - Len(p)]
  BY <1>2, ConcatProperties
<1>8. /\ q \o oa \in Seq(T) /\ Len(q \o oa) = Len(q) + Len(oa)
      /\ \A j \in 1..Len(q) + Len(oa) :
           (q \o oa)[j] = IF j <= Len(q) THEN q[j] ELSE oa[j - Len(q)]
  <2>1. q \in Seq(T) /\ oa \in Seq(T) BY <1>4, <1>6
  <2> QED BY <2>1, ConcatProperties
<1>9. /\ Of(i, p \o add) \in Seq(T) /\ Len(Of(i, p \o add)) = Len(p \o add)
      /\ \A j \in 1..Len(p \o add) : Of(i, p \o add)[j] = <<i, (p \o add)[j]>>
  BY <1>7, OfType DEF T
<1> HIDE DEF k
<1>10. \A j \in 1..Len(q) + Len(oa) : (q \o oa)[j] = Of(i, p \o add)[j]
  <2> TAKE j \in 1..Len(q) + Len(oa)
  <2>1. CASE j <= k
    <3>1. j \in 1..k /\ j \in 1..Len(st) BY <1>1, <2>1
    <3>2. (q \o oa)[j] = q[j] BY <1>6, <1>8, <2>1
    <3>3. q[j] = <<i, st[j]>> BY <1>3, <1>6, <3>1
    <3>4. (p \o add)[j] = st[j] BY <1>1, <1>2, <1>4, <1>6, <1>7, <2>1, <3>1
    <3>5. j \in 1..Len(p \o add) BY <1>2, <1>4, <1>6, <1>7
    <3> QED BY <1>9, <3>2, <3>3, <3>4, <3>5
  <2>2. CASE ~(j <= k)
    <3>1. j - k \in 1..Len(add) BY <1>1, <1>4, <1>6, <2>2
    <3>2. (q \o oa)[j] = oa[j - k] BY <1>6, <1>8, <2>2
    <3>3. oa[j - k] = <<i, add[j - k]>> BY <1>4, <3>1
    <3>4. j \in 1..Len(p) + Len(add) BY <1>2, <1>4, <1>6
    <3>5. (p \o add)[j] = add[j - k] BY <1>2, <1>7, <2>2, <3>4
    <3>6. j \in 1..Len(p \o add) BY <1>7, <3>4
    <3> QED BY <1>9, <3>2, <3>3, <3>5, <3>6
  <2> QED BY <2>1, <2>2
<1>11. Len(q \o oa) = Len(Of(i, p \o add)) BY <1>2, <1>4, <1>6, <1>7, <1>8, <1>9
<1> QED BY <1>5, <1>8, <1>9, <1>10, <1>11, SeqEqual DEF os, oa

LEMMA SentTypes ==
  ASSUME root \in Instance
  PROVE  /\ SolveMessage \in Messages
         /\ \A s \in Solver : node[s] \in Path => Stop(s) \in Messages
         /\ \A a, n \in Path : MoveMessage(a, n) \in Messages
         /\ \A n \in Path : Request(n) \in Messages
<1>1. <<>> \in Path BY DEF Path
<1>2. \A n \in Path : Whole(n) \in [pop : Nat, add : Seq(Path)]
  BY LineType DEF Whole
<1>3. \A a, n \in Path : Script(n, a) \in [pop : Nat, add : Seq(Path)]
  BY ScriptLeads
<1>4. SolveMessage \in Messages BY <1>1, <1>2 DEF SolveMessage, Messages
<1>5. \A s \in Solver : node[s] \in Path => Stop(s) \in Messages
  BY <1>1, <1>2 DEF Stop, Messages
<1>6. \A a, n \in Path : MoveMessage(a, n) \in Messages
  BY <1>3 DEF MoveMessage, Messages
<1>7. \A n \in Path : Request(n) \in Messages
  <2>1. [pop |-> 0, add |-> <<>>] \in [pop : Nat, add : Seq(Path)] OBVIOUS
  <2> QED BY <2>1 DEF Request, Messages
<1> QED BY <1>4, <1>5, <1>6, <1>7

\* Messages that lead somewhere still do after one more is sent from there.
LEMMA LeadsAppend ==
  ASSUME NEW c \in Seq(Messages), NEW m \in Messages, NEW a, NEW v, Leads(c, a, v),
         m.op # "solve" => v = <<m.of, m.from>>
  PROVE  Leads(Append(c, m), a, Target(m))
<1>1. /\ Len(c) \in Nat /\ Len(Append(c, m)) = Len(c) + 1 /\ Append(c, m)[Len(c) + 1] = m
      /\ \A k \in 1..Len(c) : Append(c, m)[k] = c[k]
  BY AppendProperties
<1>2. Before(a, Append(c, m), Len(c) + 2) = Target(m) BY <1>1 DEF Before
<1>3. \A k \in 1..Len(c) + 1 : Before(a, Append(c, m), k) = Before(a, c, k)
  BY <1>1 DEF Before
<1>4. ASSUME NEW k \in 1..Len(c) + 1, Append(c, m)[k].op # "solve"
      PROVE  Before(a, Append(c, m), k) = <<Append(c, m)[k].of, Append(c, m)[k].from>>
  <2>1. CASE k <= Len(c)
    BY <1>1, <1>3, <1>4, <2>1 DEF Leads
  <2>2. CASE k = Len(c) + 1
    <3>1. Before(a, Append(c, m), k) = v BY <1>3, <2>2 DEF Leads
    <3> QED BY <1>1, <1>4, <2>2, <3>1
  <2> QED BY <1>1, <2>1, <2>2
<1>5. Len(Append(c, m)) + 1 = Len(c) + 2 BY <1>1
<1> QED BY <1>1, <1>2, <1>4, <1>5 DEF Leads

\* And they still do after the first one is read.
LEMMA LeadsTail ==
  ASSUME NEW c \in Seq(Messages), c # <<>>, NEW a, NEW v, Leads(c, a, v)
  PROVE  Leads(Tail(c), Target(Head(c)), v)
<1>1. /\ Len(c) \in Nat /\ Len(c) > 0 /\ Len(Tail(c)) = Len(c) - 1 /\ Head(c) = c[1]
      /\ \A k \in 1..Len(c) - 1 : Tail(c)[k] = c[k + 1]
  BY HeadTailProperties
<1>2. \A k \in 1..Len(c) : Before(Target(Head(c)), Tail(c), k) = Before(a, c, k + 1)
  <2> TAKE k \in 1..Len(c)
  <2>1. CASE k = 1 BY <1>1, <2>1 DEF Before
  <2>2. CASE k # 1
    <3>1. k - 1 \in 1..Len(c) - 1 /\ (k - 1) + 1 = k /\ (k + 1) - 1 = k BY <1>1, <2>2
    <3>2. Tail(c)[k - 1] = c[k] BY <1>1, <3>1
    <3> QED BY <1>1, <2>2, <3>1, <3>2 DEF Before
  <2> QED BY <2>1, <2>2
<1>3. Before(Target(Head(c)), Tail(c), Len(Tail(c)) + 1) = v
  BY <1>1, <1>2 DEF Leads
<1>4. ASSUME NEW k \in 1..Len(Tail(c)), Tail(c)[k].op # "solve"
      PROVE  Before(Target(Head(c)), Tail(c), k) = <<Tail(c)[k].of, Tail(c)[k].from>>
  <2>1. k \in 1..Len(c) /\ k + 1 \in 1..Len(c) /\ Tail(c)[k] = c[k + 1] BY <1>1
  <2> QED BY <1>2, <1>4, <2>1 DEF Leads
<1> QED BY <1>3, <1>4 DEF Leads

-----------------------------------------------------------------------------
(* The invariant.                                                          *)

\* Every node of the tree is a path, whatever parts arrive.
LEMMA TreeStep ==
  ASSUME TypeInv, Next
  PROVE  tree' \in SUBSET Path
<1>1. tree \in SUBSET Path /\ {<<>>} \in SUBSET Path
  BY DEF TypeInv, Path
<1>2. \A n \in Path, j, k \in Nat : n \o <<j, k>> \in Path
  <2> TAKE n \in Path, j, k \in Nat
  <2>1. <<j, k>> \in Seq(Nat) /\ n \in Seq(Nat) BY DEF Path
  <2> QED BY <2>1, ConcatProperties DEF Path
<1>3. ASSUME NEW i \in Instance, Parse(i) PROVE tree' \in SUBSET Path
  <2>1. CASE kind'.type = "fixedpoint"
    <3> DEFINE prog == kind'.program
    <3>1. prog \in Programs BY <1>3, <2>1 DEF Parse, Kinds
    <3>2. tree' = {<<>>} \cup {<<0, Nth(prog, k)>> : k \in Split(prog)}
      BY <1>3, <2>1 DEF Parse
    <3> HIDE DEF prog
    <3>3. Len(prog.rules) \in Nat BY <3>1, MovesAssumption DEF IsProgram
    <3>4. IsFiniteSet(1..Len(prog.rules)) BY <3>3, FS_Interval
    <3>5. IsFiniteSet(Split(prog)) BY <3>4, FS_Subset DEF Split
    <3>6. \A k : Nth(prog, k) \in Nat
      <4> TAKE k
      <4>1. IsFiniteSet({j \in Split(prog) : j < k}) BY <3>5, FS_Subset
      <4> QED BY <4>1, FS_CardinalityType DEF Nth
    <3>7. \A k : <<0, Nth(prog, k)>> \in Path BY <3>6 DEF Path
    <3> QED BY <1>1, <3>2, <3>7
  <2>2. CASE kind'.type # "fixedpoint"
    <3>1. tree' = {<<>>} BY <1>3, <2>2 DEF Parse
    <3> QED BY <1>1, <3>1
  <2> QED BY <2>1, <2>2
<1>4. ASSUME NEW n \in tree, Expand(n) PROVE tree' \in SUBSET Path
  <2>1. PICK j \in 0..MaxNodes, c \in 1..K : tree' = tree \cup {n \o <<j, k>> : k \in 0..c - 1}
    BY <1>4 DEF Expand
  <2>2. j \in Nat /\ c \in Nat BY MovesAssumption
  <2>3. \A k \in 0..c - 1 : k \in Nat BY <2>2
  <2>4. n \in Path BY <1>1
  <2> QED BY <1>1, <1>2, <2>1, <2>2, <2>3, <2>4
<1>5. CASE End BY <1>1, <1>5 DEF End
<1>6. ASSUME NEW s \in Solver,
             Solve(s) \/ Ask(s) \/ Obey(s) \/ Replace(s) \/ \E n \in tree : Move(s, n)
      PROVE  tree' \in SUBSET Path
  BY <1>1, <1>6 DEF Solve, Ask, Obey, Replace, Move
<1> QED BY <1>3, <1>4, <1>5, <1>6 DEF Next

\* A script that pops and adds nothing leaves the stack alone.
LEMMA RunNothing ==
  ASSUME NEW T, NEW st \in Seq(T)
  PROVE  Run(0, <<>>, st) = st
<1>1. Len(st) \in Nat /\ Len(st) - 0 = Len(st) OBVIOUS
<1>2. Prefix(st, Len(st)) = st BY SubSeqFull DEF Prefix
<1>3. st \o <<>> = st BY ConcatEmptySeq
<1> QED BY <1>1, <1>2, <1>3 DEF Run

\* What one message read does to its process, when messages lead from where it is.
LEMMA ObeyStack ==
  ASSUME TypeInv, ViewsChain, NEW s \in Solver, chan[s] # <<>>,
         stack[s] = IF at[s] = None THEN <<>> ELSE Of(at[s][1], Line(at[s][2])),
         NEW m, m = Head(chan[s]), m.op # "stop"
  PROVE  /\ m \in Messages /\ <<m.of, m.to>> \in Instance \X Path
         /\ m.op = "incremental" =>
              CanRun(m.script.pop, stack[s])
         /\ Run(m.script.pop, Of(m.of, m.script.add), IF m.op = "solve" THEN <<>> ELSE stack[s])
              = Of(m.of, Line(m.to))
<1>1. chan[s] \in Seq(Messages) BY DEF TypeInv
<1>2. /\ m \in Messages /\ Len(chan[s]) \in Nat /\ Len(chan[s]) > 0 /\ m = chan[s][1]
  BY <1>1, HeadTailProperties, ElementOfSeq
<1>3. m.of \in Instance /\ m.from \in Path /\ m.to \in Path /\ m.op \in {"solve", "incremental", "partition"}
  BY <1>2 DEF Messages
<1>4. CASE m.op = "solve"
  <2>1. m.script = Whole(m.to) BY <1>2, <1>4 DEF Messages
  <2>2. m.script.pop = 0 /\ m.script.add = Line(m.to) BY <2>1 DEF Whole
  <2>3. Of(m.of, Line(m.to)) \in Seq(Instance \X Path) BY <1>3, LineType, OfType
  <2>4. Prefix(<<>>, Len(<<>>) - 0) = <<>> BY SubSeqEmpty DEF Prefix
  <2>5. Run(0, Of(m.of, Line(m.to)), <<>>) = Of(m.of, Line(m.to))
    BY <2>3, <2>4, ConcatEmptySeq DEF Run
  <2> QED BY <1>2, <1>3, <1>4, <2>2, <2>5
<1>5. CASE m.op = "incremental"
  <2>1. m.script = Script(m.to, m.from) BY <1>2, <1>5 DEF Messages
  <2>2. at[s] = <<m.of, m.from>> BY <1>2, <1>5 DEF ViewsChain, Leads, Before
  <2>3. stack[s] = Of(m.of, Line(m.from))
    BY <1>3, <2>2, MovesAssumption
  <2>4. /\ m.script \in [pop : Nat, add : Seq(Path)]
        /\ CanRun(m.script.pop, Line(m.from))
        /\ Run(m.script.pop, m.script.add, Line(m.from)) = Line(m.to)
    <3>1. /\ Script(m.to, m.from) \in [pop : Nat, add : Seq(Path)]
          /\ CanRun(Script(m.to, m.from).pop, Line(m.from))
          /\ Run(Script(m.to, m.from).pop, Script(m.to, m.from).add, Line(m.from)) = Line(m.to)
      BY <1>3, ScriptLeads
    <3> QED BY <2>1, <3>1
  <2>5. Line(m.from) \in Seq(Path) /\ m.script.pop < Len(Line(m.from))
    BY <1>3, <2>4, LineType DEF CanRun
  <2>6. Len(stack[s]) = Len(Line(m.from)) BY <1>3, <2>3, <2>5, OfType
  <2>7. m.script.pop \in Nat /\ m.script.add \in Seq(Path) /\ m.script.pop <= Len(Line(m.from))
    BY <2>4, <2>5
  <2>8. Run(m.script.pop, Of(m.of, m.script.add), stack[s]) = Of(m.of, Line(m.to))
    BY <1>3, <2>3, <2>4, <2>5, <2>7, RunOf
  <2> QED BY <1>2, <1>3, <1>5, <2>5, <2>6, <2>8 DEF CanRun
<1>6. CASE m.op = "partition"
  <2>1. m.from = m.to /\ m.script.pop = 0 /\ m.script.add = <<>> BY <1>2, <1>6 DEF Messages
  <2>2. at[s] = <<m.of, m.to>> BY <1>2, <1>6, <2>1 DEF ViewsChain, Leads, Before
  <2>3. stack[s] = Of(m.of, Line(m.to)) BY <1>3, <2>2, MovesAssumption
  <2>4. Of(m.of, Line(m.to)) \in Seq(Instance \X Path) BY <1>3, LineType, OfType
  <2>5. Of(m.of, <<>>) = <<>> BY DEF Of
  <2>6. Run(0, <<>>, stack[s]) = stack[s] BY <2>3, <2>4, RunNothing
  <2> QED BY <1>2, <1>3, <1>6, <2>1, <2>3, <2>5, <2>6
<1> QED BY <1>3, <1>4, <1>5, <1>6

LEMMA TypeStep ==
  ASSUME MovesInv, Next
  PROVE  TypeInv'
<1> USE DEF MovesInv
<1>1. tree' \in SUBSET Path BY TreeStep
<1>2. /\ root \in Instance \cup {None} /\ tree \in SUBSET Path
      /\ node \in [Solver -> Path \cup {None}] /\ chan \in [Solver -> Seq(Messages)]
      /\ at \in [Solver -> (Instance \X Path) \cup {None}]
      /\ stack \in [Solver -> Seq(Instance \X Path)] /\ <<>> \in Path
  BY DEF TypeInv, Path
<1>3. \A c \in Seq(Messages), m \in Messages : Append(c, m) \in Seq(Messages)
  BY AppendProperties
<1>4. ASSUME NEW i \in Instance, Parse(i) PROVE TypeInv'
  BY <1>1, <1>2, <1>4 DEF TypeInv, Parse
<1>5. ASSUME NEW n \in tree, Expand(n) PROVE TypeInv'
  BY <1>1, <1>2, <1>5 DEF TypeInv, Expand
<1>6. ASSUME NEW s \in Solver, Solve(s) PROVE TypeInv'
  <2>1. SolveMessage \in Messages BY <1>2, <1>6, SentTypes DEF Solve
  <2>2. chan' \in [Solver -> Seq(Messages)] BY <1>2, <1>3, <1>6, <2>1 DEF Solve, Write
  <2> QED BY <1>1, <1>2, <1>6, <2>2 DEF TypeInv, Solve
<1>7. ASSUME NEW s \in Solver, NEW n \in tree, Move(s, n) PROVE TypeInv'
  <2>1. root \in Instance BY <1>2, <1>7 DEF NodeInv, Move
  <2>2. node[s] \in Path /\ n \in Path BY <1>2, <1>7 DEF Move
  <2>3. MoveMessage(node[s], n) \in Messages BY <2>1, <2>2, SentTypes
  <2>4. chan' \in [Solver -> Seq(Messages)] BY <1>2, <1>3, <1>7, <2>3 DEF Move, Write
  <2> QED BY <1>1, <1>2, <1>7, <2>2, <2>4 DEF TypeInv, Move
<1>8. CASE End
  <2>1. root \in Instance BY <1>2, <1>8 DEF End
  <2>2. \A s \in Solver : node[s] # None => Stop(s) \in Messages BY <1>2, <2>1, SentTypes
  <2>3. chan' \in [Solver -> Seq(Messages)] BY <1>2, <1>3, <1>8, <2>2 DEF End
  <2> QED BY <1>1, <1>2, <1>8, <2>3 DEF TypeInv, End
<1>9. ASSUME NEW s \in Solver, Obey(s) PROVE TypeInv'
  <2> DEFINE m == Head(chan[s])
  <2>1. chan[s] \in Seq(Messages) /\ chan[s] # <<>> BY <1>2, <1>9 DEF Obey
  <2>2. Tail(chan[s]) \in Seq(Messages) BY <2>1, HeadTailProperties
  <2>3. chan' \in [Solver -> Seq(Messages)] BY <1>2, <1>9, <2>2 DEF Obey
  <2>4. CASE m.op = "stop"
    <3>1. at' = [at EXCEPT ![s] = None] /\ stack' = [stack EXCEPT ![s] = <<>>]
      BY <1>9, <2>4 DEF Obey
    <3>2. <<>> \in Seq(Instance \X Path) OBVIOUS
    <3>3. at' \in [Solver -> (Instance \X Path) \cup {None}] BY <1>2, <3>1
    <3>4. stack' \in [Solver -> Seq(Instance \X Path)] BY <1>2, <3>1, <3>2
    <3> QED BY <1>1, <1>2, <1>9, <2>3, <3>3, <3>4 DEF TypeInv, Obey
  <2>5. CASE m.op # "stop"
    <3>1. /\ m \in Messages /\ <<m.of, m.to>> \in Instance \X Path
          /\ Run(m.script.pop, Of(m.of, m.script.add),
                 IF m.op = "solve" THEN <<>> ELSE stack[s]) = Of(m.of, Line(m.to))
      BY <2>1, <2>5, ObeyStack DEF BranchInv
    <3>2. m.of \in Instance /\ m.to \in Path BY <3>1 DEF Messages
    <3>3. Of(m.of, Line(m.to)) \in Seq(Instance \X Path) BY <3>2, LineType, OfType
    <3>4. /\ at' = [at EXCEPT ![s] = <<m.of, m.to>>]
          /\ stack' = [stack EXCEPT ![s] = Of(m.of, Line(m.to))]
      BY <1>9, <2>5, <3>1 DEF Obey
    <3> HIDE DEF m
    <3>5. at' \in [Solver -> (Instance \X Path) \cup {None}] BY <1>2, <3>1, <3>4
    <3>6. stack' \in [Solver -> Seq(Instance \X Path)] BY <1>2, <3>3, <3>4
    <3> QED BY <1>1, <1>2, <1>9, <2>3, <3>5, <3>6 DEF TypeInv, Obey
  <2> QED BY <2>4, <2>5
<1>10. ASSUME NEW s \in Solver, Replace(s) PROVE TypeInv'
  <2>1. <<>> \in Seq(Instance \X Path) /\ <<>> \in Seq(Messages) OBVIOUS
  <2> QED BY <1>1, <1>2, <1>10, <2>1 DEF TypeInv, Replace
<1>11. ASSUME NEW s \in Solver, Ask(s) PROVE TypeInv'
  <2>1. root \in Instance /\ node[s] \in Path BY <1>2, <1>11 DEF NodeInv, Ask
  <2>2. Request(node[s]) \in Messages BY <2>1, SentTypes
  <2>3. chan' \in [Solver -> Seq(Messages)] BY <1>2, <1>3, <1>11, <2>2 DEF Ask, Write
  <2> QED BY <1>1, <1>2, <1>11, <2>3 DEF TypeInv, Ask
<1> QED BY <1>4, <1>5, <1>6, <1>7, <1>8, <1>9, <1>10, <1>11 DEF Next

LEMMA NodeStep ==
  ASSUME MovesInv, Next
  PROVE  NodeInv'
<1>1. node \in [Solver -> Path \cup {None}] /\ NodeInv BY DEF MovesInv, TypeInv
<1>2. ASSUME NEW i \in Instance, Parse(i) PROVE NodeInv'
  BY <1>2, MovesAssumption DEF Parse, NodeInv
<1>3. ASSUME NEW n \in tree, Expand(n) PROVE NodeInv'
  BY <1>1, <1>3 DEF Expand, NodeInv
<1>4. ASSUME NEW s \in Solver,
             Solve(s) \/ Ask(s) \/ Obey(s) \/ Replace(s) \/ \E n \in tree : Move(s, n)
      PROVE  NodeInv'
  BY <1>1, <1>4 DEF Solve, Ask, Obey, Replace, Move, NodeInv
<1>5. CASE End BY <1>1, <1>5 DEF End, NodeInv
<1> QED BY <1>2, <1>3, <1>4, <1>5 DEF Next

\* Every message is sent from where the ones before it lead, and read in that order.
LEMMA ChainStep ==
  ASSUME MovesInv, Next
  PROVE  ViewsChain'
<1>1. /\ node \in [Solver -> Path \cup {None}] /\ chan \in [Solver -> Seq(Messages)]
      /\ at \in [Solver -> (Instance \X Path) \cup {None}] /\ root \in Instance \cup {None}
      /\ NodeInv /\ \A s \in Solver : Leads(chan[s], at[s], View(s))
  BY DEF MovesInv, TypeInv, ViewsChain
<1>2. SUFFICES ASSUME NEW s \in Solver PROVE Leads(chan'[s], at'[s], View(s)')
  BY DEF ViewsChain
<1>3. /\ chan[s] \in Seq(Messages) /\ node[s] \in Path \cup {None}
      /\ Leads(chan[s], at[s], View(s))
  BY <1>1
<1>4. ASSUME UNCHANGED <<chan[s], at[s], View(s)>> PROVE Leads(chan'[s], at'[s], View(s)')
  BY <1>3, <1>4
<1>5. ASSUME NEW i \in Instance, Parse(i) PROVE Leads(chan'[s], at'[s], View(s)')
  BY <1>1, <1>4, <1>5 DEF Parse, NodeInv, View
<1>6. ASSUME NEW n \in tree, Expand(n) PROVE Leads(chan'[s], at'[s], View(s)')
  BY <1>4, <1>6 DEF Expand, View
<1>7. ASSUME NEW t \in Solver, t # s,
             Solve(t) \/ Ask(t) \/ Obey(t) \/ Replace(t) \/ \E n \in tree : Move(t, n)
      PROVE  Leads(chan'[s], at'[s], View(s)')
  BY <1>1, <1>4, <1>7 DEF Solve, Ask, Obey, Replace, Move, Write, View
<1>8. CASE Solve(s)
  <2>1. root \in Instance BY <1>1, <1>8 DEF Solve
  <2>2. SolveMessage \in Messages BY <2>1, SentTypes
  <2>3. Leads(Append(chan[s], SolveMessage), at[s], Target(SolveMessage))
    <3>1. SolveMessage.op = "solve" BY DEF SolveMessage
    <3> QED BY <1>3, <2>2, <3>1, LeadsAppend
  <2>4. Target(SolveMessage) = <<root, <<>>>> BY DEF Target, SolveMessage
  <2>5. node'[s] = <<>> /\ chan'[s] = Append(chan[s], SolveMessage) /\ at' = at /\ root' = root
    BY <1>1, <1>8 DEF Solve, Write
  <2>6. <<>> # None
    <3>1. <<>> \in Path BY DEF Path
    <3> QED BY <3>1, MovesAssumption
  <2> QED BY <2>3, <2>4, <2>5, <2>6 DEF View
<1>9. ASSUME NEW n \in tree, Move(s, n) PROVE Leads(chan'[s], at'[s], View(s)')
  <2> DEFINE m == MoveMessage(node[s], n)
  <2>1. root \in Instance /\ node[s] \in Path /\ node[s] # None
    BY <1>1, <1>3, <1>9 DEF Move, NodeInv
  <2>2. n \in Path /\ n # None BY MovesAssumption DEF MovesInv, TypeInv
  <2>3. m \in Messages BY <2>1, <2>2, SentTypes
  <2>4. View(s) = <<m.of, m.from>> BY <2>1 DEF View, MoveMessage
  <2>5. Leads(Append(chan[s], m), at[s], Target(m))
    <3> HIDE DEF m
    <3> QED BY <1>3, <2>3, <2>4, LeadsAppend
  <2>6. Target(m) = <<root, n>> BY DEF Target, MoveMessage
  <2>7. node'[s] = n /\ chan'[s] = Append(chan[s], m) /\ at' = at /\ root' = root
    BY <1>1, <1>9 DEF Move, Write
  <2> QED BY <2>2, <2>5, <2>6, <2>7 DEF View
<1>10. CASE Obey(s)
  <2>1. /\ chan[s] # <<>> /\ chan'[s] = Tail(chan[s]) /\ node' = node /\ root' = root
        /\ at'[s] = Target(Head(chan[s]))
    BY <1>1, <1>10 DEF Obey, Target
  <2>2. Leads(Tail(chan[s]), Target(Head(chan[s])), View(s)) BY <1>3, <2>1, LeadsTail
  <2> QED BY <2>1, <2>2 DEF View
<1>11. CASE Replace(s)
  <2>1. chan'[s] = <<>> /\ at'[s] = None /\ node'[s] = None BY <1>1, <1>11 DEF Replace
  <2> QED BY <2>1 DEF View, Leads, Before
<1>12. CASE End
  <2>1. root \in Instance /\ node'[s] = None /\ at' = at BY <1>1, <1>12 DEF End
  <2>2. CASE node[s] = None
    BY <1>4, <1>12, <2>1, <2>2 DEF End, View
  <2>3. CASE node[s] # None
    <3>1. Stop(s) \in Messages BY <1>3, <2>1, <2>3, SentTypes
    <3>2. View(s) = <<Stop(s).of, Stop(s).from>> BY <2>3 DEF View, Stop
    <3>3. Leads(Append(chan[s], Stop(s)), at[s], Target(Stop(s)))
      BY <1>3, <3>1, <3>2, LeadsAppend
    <3>4. Target(Stop(s)) = None BY DEF Target, Stop
    <3>5. chan'[s] = Append(chan[s], Stop(s)) BY <1>12, <2>3 DEF End
    <3> QED BY <2>1, <3>3, <3>4, <3>5 DEF View
  <2> QED BY <2>2, <2>3
<1>13. CASE Ask(s)
  <2> DEFINE m == Request(node[s])
  <2>1. root \in Instance /\ node[s] \in Path /\ node[s] # None
    BY <1>1, <1>3, <1>13 DEF Ask, NodeInv
  <2>2. m \in Messages BY <2>1, SentTypes
  <2>3. View(s) = <<m.of, m.from>> /\ Target(m) = View(s)
    BY <2>1 DEF View, Request, Target
  <2>4. chan'[s] = Append(chan[s], m) /\ at' = at /\ View(s)' = View(s)
    BY <1>1, <1>13 DEF Ask, Write, View
  <2> HIDE DEF m
  <2>5. Leads(Append(chan[s], m), at[s], Target(m)) BY <1>3, <2>2, <2>3, LeadsAppend
  <2> QED BY <2>3, <2>4, <2>5
<1> QED BY <1>5, <1>6, <1>7, <1>8, <1>9, <1>10, <1>11, <1>12, <1>13 DEF Next

\* A process only changes what it has asserted when it reads a message or is replaced.
LEMMA BranchStep ==
  ASSUME MovesInv, Next
  PROVE  BranchInv'
<1>1. /\ at \in [Solver -> (Instance \X Path) \cup {None}]
      /\ stack \in [Solver -> Seq(Instance \X Path)] /\ BranchInv
  BY DEF MovesInv, TypeInv
<1>2. ASSUME UNCHANGED <<at, stack>> PROVE BranchInv'
  BY <1>1, <1>2 DEF BranchInv
<1>3. ASSUME NEW s \in Solver, Obey(s) PROVE BranchInv'
  <2> DEFINE m == Head(chan[s])
  <2>1. CASE m.op = "stop"
    BY <1>1, <1>3, <2>1 DEF Obey, BranchInv
  <2>2. CASE m.op # "stop"
    <3>1. /\ <<m.of, m.to>> \in Instance \X Path
          /\ Run(m.script.pop, Of(m.of, m.script.add),
                 IF m.op = "solve" THEN <<>> ELSE stack[s]) = Of(m.of, Line(m.to))
      BY <1>3, <2>2, ObeyStack DEF MovesInv, BranchInv, Obey
    <3>2. /\ at' = [at EXCEPT ![s] = <<m.of, m.to>>]
          /\ stack' = [stack EXCEPT ![s] = Of(m.of, Line(m.to))]
      BY <1>3, <2>2, <3>1 DEF Obey
    <3>3. <<m.of, m.to>> # None BY <3>1, MovesAssumption
    <3> HIDE DEF m
    <3> QED BY <1>1, <3>2, <3>3 DEF BranchInv
  <2> QED BY <2>1, <2>2
<1>4. ASSUME NEW s \in Solver, Replace(s) PROVE BranchInv'
  BY <1>1, <1>4 DEF Replace, BranchInv
<1>5. ASSUME NEW s \in Solver, Solve(s) \/ Ask(s) \/ \E n \in tree : Move(s, n) PROVE BranchInv'
  BY <1>2, <1>5 DEF Solve, Ask, Move
<1> QED BY <1>2, <1>3, <1>4, <1>5 DEF Next, Parse, Expand, End

\* In every reachable state the invariant holds.
THEOREM MovesInvariant == Spec => []MovesInv
<1>1. Init => MovesInv
  <2> SUFFICES ASSUME Init PROVE MovesInv OBVIOUS
  <2>1. <<>> \in Path /\ <<>> \in Seq(Messages) /\ <<>> \in Seq(Instance \X Path)
    BY DEF Path
  <2>2. TypeInv BY <2>1 DEF Init, TypeInv
  <2>3. ViewsChain BY DEF Init, ViewsChain, View, Leads, Before
  <2> QED BY <2>2, <2>3 DEF Init, MovesInv, NodeInv, BranchInv
<1>2. MovesInv /\ [Next]_vars => MovesInv'
  <2> SUFFICES ASSUME MovesInv, [Next]_vars PROVE MovesInv' OBVIOUS
  <2>1. CASE Next
    BY <2>1, TypeStep, NodeStep, ChainStep, BranchStep DEF MovesInv
  <2>2. CASE UNCHANGED vars
    BY <2>2 DEF vars, MovesInv, TypeInv, NodeInv, ViewsChain, View, BranchInv
  <2> QED BY <2>1, <2>2
<1> QED BY <1>1, <1>2, PTL DEF Spec

\* The server's view of every solver is where its messages lead the process
\* (Solver.incremental), for any number of solvers and messages.
THEOREM ViewsRight == Spec => []ViewsChain
<1>1. MovesInv => ViewsChain BY DEF MovesInv
<1> QED BY <1>1, MovesInvariant, PTL

\* Every process has asserted the branch of its node, and can run the script it reads
\* next (SMT.to_string), for trees and moves of any size.
THEOREM StacksRight == Spec => []StackIsBranch
<1>1. ASSUME MovesInv PROVE StackIsBranch
  <2> SUFFICES ASSUME NEW s \in Solver, chan[s] # <<>>, Head(chan[s]).op = "incremental"
               PROVE  CanRun(Head(chan[s]).script.pop, stack[s])
    BY <1>1 DEF MovesInv, BranchInv, StackIsBranch
  <2> QED BY <1>1, ObeyStack DEF MovesInv, BranchInv
<1> QED BY <1>1, MovesInvariant, PTL


-----------------------------------------------------------------------------
(* Splitting a fixedpoint instance.                                        *)

\* What a program derives is closed under its rules.
LEMMA DerivedClosed ==
  ASSUME NEW p
  PROVE  Derived(p) \in SUBSET Used(p) /\ Closed(p, Derived(p))
<1>1. Derived(p) \in SUBSET Used(p) BY DEF Derived
<1>2. ASSUME NEW k \in 1..Len(p.rules), p.rules[k].body \subseteq Derived(p)
      PROVE  p.rules[k].head \in Derived(p)
  <2>1. p.rules[k].head \in Used(p) BY DEF Used
  <2>2. ASSUME NEW S \in SUBSET Used(p), Closed(p, S) PROVE p.rules[k].head \in S
    <3>1. Derived(p) \subseteq S BY <2>2 DEF Derived
    <3> QED BY <1>2, <2>2, <3>1 DEF Closed
  <2> QED BY <2>1, <2>2 DEF Derived
<1> QED BY <1>1, <1>2 DEF Closed

\* The parts have the rules of the program, but for the heads of those that are split.
LEMMA PartitionedRules ==
  ASSUME NEW p, IsProgram(p)
  PROVE  /\ Len(Partitioned(p).rules) = Len(p.rules)
         /\ \A k \in 1..Len(p.rules) :
              /\ Partitioned(p).rules[k].body = p.rules[k].body
              /\ Partitioned(p).rules[k].head = IF k \in Split(p) THEN Part(p, k) ELSE p.rules[k].head
         /\ Partitioned(p).declared = p.declared \cup IF p.declared = {} THEN {} ELSE Queries(p)
<1> DEFINE rs == [k \in 1..Len(p.rules) |->
                    IF k \in Split(p) THEN [p.rules[k] EXCEPT !.head = Part(p, k)] ELSE p.rules[k]]
<1>1. Partitioned(p).rules = rs
      /\ Partitioned(p).declared = p.declared \cup IF p.declared = {} THEN {} ELSE Queries(p)
  BY DEF Partitioned
<1>2. Len(rs) = Len(p.rules)
  <2>1. Len(p.rules) \in Nat BY DEF IsProgram
  <2>2. DOMAIN rs = 1..Len(p.rules) OBVIOUS
  <2> DEFINE n == Len(p.rules)
             R == {rs[k] : k \in 1..n}
  <2>3. rs \in [1..n -> R] OBVIOUS
  <2> HIDE DEF rs, n, R
  <2>4. rs \in Seq(R) /\ Len(rs) = n BY <2>1, <2>3 DEF n
  <2> QED BY <2>4 DEF n
<1>3. ASSUME NEW k \in 1..Len(p.rules)
      PROVE  rs[k].body = p.rules[k].body
             /\ rs[k].head = IF k \in Split(p) THEN Part(p, k) ELSE p.rules[k].head
  <2>1. p.rules[k] = [form |-> p.rules[k].form, body |-> p.rules[k].body, head |-> p.rules[k].head]
    BY DEF IsProgram, IsRule
  <2> QED BY <2>1
<1> QED BY <1>1, <1>2, <1>3

\* Every rule for the query of a program that is Splittable is split.
LEMMA QuerySplit ==
  ASSUME NEW p, IsProgram(p), Splittable(p), NEW k \in 1..Len(p.rules), p.rules[k].head = p.query
  PROVE  k \in Split(p)
BY DEF IsProgram, IsRule, Splittable, Split, Splits

\* Asking for the parts is asking the query: what derives the query first does not use
\* it, and so derives the part of its last rule; and nothing but the rules of the query
\* derives a part, as their names are new.
THEOREM SplitKeepsMeaning ==
  ASSUME NEW p, IsProgram(p), Splittable(p)
  PROVE  /\ p.query \in Derived(p) <=> Queries(p) \cap Derived(Partitioned(p)) # {}
         /\ Used(Partitioned(p)) \subseteq Partitioned(p).declared
<1> DEFINE q == Partitioned(p)
           D == Derived(p)
           E == Derived(q)
<1>1. D \in SUBSET Used(p) /\ Closed(p, D) /\ E \in SUBSET Used(q) /\ Closed(q, E)
  BY DerivedClosed
<1>2. /\ Len(q.rules) = Len(p.rules)
      /\ \A k \in 1..Len(p.rules) :
           /\ q.rules[k].body = p.rules[k].body
           /\ q.rules[k].head = IF k \in Split(p) THEN Part(p, k) ELSE p.rules[k].head
      /\ q.declared = p.declared \cup IF p.declared = {} THEN {} ELSE Queries(p)
  BY PartitionedRules
<1>3. Used(p) \subseteq p.declared /\ Queries(p) \cap p.declared = {} BY DEF Splittable
<1>4. \A k \in 1..Len(p.rules) : p.rules[k].body \subseteq Used(p) /\ p.rules[k].head \in Used(p)
  BY DEF Used
<1>5. \A k \in Split(p) : k \in 1..Len(p.rules) /\ p.rules[k].head = p.query /\ Part(p, k) \in Queries(p)
  BY DEF Split, Splits, Queries
<1> HIDE DEF q, D, E
<1>6. ASSUME p.query \in D PROVE Queries(p) \cap E # {}
  <2> SUFFICES ASSUME Queries(p) \cap E = {} PROVE FALSE OBVIOUS
  <2> DEFINE S == {r \in E : r \in Used(p) /\ r # p.query}
  <2>1. ASSUME NEW k \in 1..Len(p.rules), p.rules[k].body \subseteq S PROVE p.rules[k].head \in S
    <3>1. q.rules[k].head \in E BY <1>1, <1>2, <2>1 DEF Closed
    <3>2. k \notin Split(p) BY <1>2, <1>5, <3>1
    <3>3. p.rules[k].head # p.query BY <3>2, QuerySplit
    <3> QED BY <1>2, <1>4, <3>1, <3>2, <3>3
  <2>2. S \in SUBSET Used(p) /\ Closed(p, S) /\ p.query \notin S BY <2>1 DEF Closed
  <2> QED BY <1>6, <2>2 DEF D, Derived
<1>7. ASSUME Queries(p) \cap E # {} PROVE p.query \in D
  <2> SUFFICES ASSUME p.query \notin D PROVE FALSE OBVIOUS
  <2> DEFINE S == D \cap Used(q)
  <2>1. ASSUME NEW k \in 1..Len(q.rules), q.rules[k].body \subseteq S PROVE q.rules[k].head \in S
    <3>1. p.rules[k].head \in D BY <1>1, <1>2, <2>1 DEF Closed
    <3>2. k \notin Split(p) BY <1>5, <3>1
    <3>3. q.rules[k].head \in Used(q) BY DEF Used
    <3> QED BY <1>2, <2>1, <3>1, <3>2, <3>3
  <2>2. S \in SUBSET Used(q) /\ Closed(q, S) BY <2>1 DEF Closed
  <2>3. E \subseteq S BY <2>2 DEF E, Derived
  <2> QED BY <1>1, <1>3, <1>7, <2>3
<1>8. Used(q) \subseteq q.declared
  <2> SUFFICES ASSUME NEW k \in 1..Len(q.rules), NEW r \in {q.rules[k].head} \cup q.rules[k].body
               PROVE  r \in q.declared
    BY DEF Used
  <2>1. k \in 1..Len(p.rules) /\ p.rules[k].head \in p.declared /\ p.rules[k].body \subseteq p.declared
    BY <1>2, <1>3, <1>4
  <2>2. k \in Split(p) => Part(p, k) \in Queries(p) BY <1>5
  <2> QED BY <1>2, <2>1, <2>2
<1> QED BY <1>6, <1>7, <1>8 DEF q, D, E

\* The program of the current instance is one of those that may be submitted.
KindInv == kind \in Kinds
LEMMA KindKept == Spec => []KindInv
<1>1. Init => KindInv BY DEF Init, Kinds, KindInv
<1>2. KindInv /\ [Next]_vars => KindInv'
  <2>1. \A i \in Instance : Parse(i) => kind' \in Kinds BY DEF Parse
  <2>2. End => kind' \in Kinds BY DEF End, Kinds
  <2>3. (\E n \in tree : Expand(n)) \/ (\E s \in Solver : Solve(s) \/ Ask(s) \/ Obey(s) \/ Replace(s)
        \/ \E n \in tree : Move(s, n)) \/ UNCHANGED vars => kind' = kind
    BY DEF Expand, Solve, Move, Ask, Obey, Replace, vars
  <2> QED BY <2>1, <2>2, <2>3 DEF Next, KindInv, Kinds
<1> QED BY <1>1, <1>2, PTL DEF Spec

\* Every instance is split so that its parts mean its query.
THEOREM PartsRight == Spec => []PartsMeanQuery
<1>1. KindInv => PartsMeanQuery
  <2> SUFFICES ASSUME kind \in Kinds, kind.type = "fixedpoint", Splittable(kind.program)
               PROVE  PartsMeanQuery
    BY DEF PartsMeanQuery, KindInv
  <2>1. kind.program \in Programs BY DEF Kinds
  <2> DEFINE p == kind.program
  <2>2. IsProgram(p) /\ Splittable(p) BY <2>1, MovesAssumption
  <2>3. /\ p.query \in Derived(p) <=> Queries(p) \cap Derived(Partitioned(p)) # {}
        /\ Used(Partitioned(p)) \subseteq Partitioned(p).declared
    <3> HIDE DEF p
    <3> QED BY <2>2, SplitKeepsMeaning
  <2> QED BY <2>3 DEF PartsMeanQuery
<1> QED BY <1>1, KindKept, PTL
=============================================================================
