--------------------------- MODULE DisplayProofs ---------------------------
(***************************************************************************)
(* Display.tla adds the way back to Moves.tla and changes nothing in it:   *)
(* what is proved of every behaviour of Moves holds with the reports too,  *)
(* whether or not they are read, passed on or drawn.  DisplayInv relates   *)
(* what is under way and what is drawn to the tree, for any number of      *)
(* solvers, reports and nodes: PictureTrue and DeciderShown follow.        *)
(***************************************************************************)
EXTENDS Display, MovesProofs

LEMMA DisplayStep == DisplayNext => [Next]_vars
<1> SUFFICES ASSUME DisplayNext PROVE [Next]_vars OBVIOUS
<1>1. ASSUME NEW i \in Instance, Begins(i) PROVE Next
  BY <1>1 DEF Begins, Next
<1>2. ASSUME NEW s \in Solver, Starts(s) \/ Asks(s) \/ Obeys(s) \/ Leaves(s) PROVE Next
  BY <1>2 DEF Starts, Asks, Obeys, Leaves, Next
<1>3. ASSUME NEW s \in Solver, Goes(s) PROVE Next
  <2>1. \E n \in tree : Move(s, n) BY <1>3 DEF Goes
  <2> QED BY <2>1 DEF Next
<1>4. ASSUME NEW s \in Solver, Finds(s) \/ Splinters(s) \/ Drops(s) \/ ReadStatus(s)
      PROVE  UNCHANGED vars
  BY <1>4 DEF Finds, Splinters, Drops, ReadStatus
<1>5. ASSUME NEW s \in Solver, ReadParts(s) PROVE [Next]_vars
  <2>1. Expand(node[s]) \/ UNCHANGED vars BY <1>5 DEF ReadParts
  <2>2. Expand(node[s]) => Next BY DEF Expand, Next
  <2> QED BY <2>1, <2>2
<1>6. ASSUME NEW s \in Solver, ReadOther(s) PROVE UNCHANGED vars
  BY <1>6 DEF ReadOther
<1>7. CASE Ends BY <1>7 DEF Ends, Next
<1> QED BY <1>1, <1>2, <1>3, <1>4, <1>5, <1>6, <1>7 DEF DisplayNext

\* Reports, and the picture drawn of them, do not change what the server sends and what
\* the processes do with it: with them, every step is one of Moves or none of its.
THEOREM DisplayMoves == DisplaySpec => Spec
<1>1. DisplayInit => Init BY DEF DisplayInit
<1>2. [DisplayNext]_displayVars => [Next]_vars
  <2>1. UNCHANGED displayVars => UNCHANGED vars BY DEF displayVars
  <2> QED BY <2>1, DisplayStep
<1> QED BY <1>1, <1>2, PTL DEF DisplaySpec, Spec

\* With reports under way the views of the server are right (Solver.incremental).
THEOREM DisplayViews == DisplaySpec => []ViewsChain
BY DisplayMoves, ViewsRight, PTL

\* And every process has asserted its branch (SMT.to_string).
THEOREM DisplayStacks == DisplaySpec => []StackIsBranch
BY DisplayMoves, StacksRight, PTL

-----------------------------------------------------------------------------
(* The picture.  DisplayInv is inductive, given that of Moves: reports and  *)
(* messages name nodes of their instance (WayInv), the picture has the parts *)
(* of the tree (PartsInv), and among its statuses the last has the highest *)
(* rank (Ranks).                                                           *)

\* Parts are reported of the node that is split.
Reports ==
  {m \in [says : {"start", "move", "status", "partitions"}, of : Instance, from : Path, to : Path] :
     m.says = "partitions" => m.from = m.to}
Entries == [colour : {"white", "none", "green"}, rank : Nat, parts : Seq(Nat)]

OutTypes ==
  /\ out \in [Solver -> Seq(Reports)]
  /\ forked \in [Solver -> BOOLEAN] /\ \A s \in Solver : forked[s] => at[s] # None
PictureTypes ==
  /\ keys \in Seq(Path) /\ rank \in Nat /\ stale \in BOOLEAN
  /\ \A k \in Path : Key(k) => entry[k] \in Entries

\* An instance that is no SMT instance is worked on at its root.
Here(n) == n \in tree /\ (kind.type # "smt" => n = <<>>)
Named(i, n) == i = root => Here(n)
Tells(m) == Named(m.of, m.from) /\ Named(m.of, m.to)

\* The nodes of an SMT instance have even length, and all above them is in the tree.
Rooted ==
  /\ <<>> \in tree
  /\ kind.type = "smt" =>
       \A m \in tree : /\ Len(m) % 2 = 0
                       /\ \A k \in 0..Len(m) : k % 2 = 0 => Prefix(m, k) \in tree

\* Where solvers and processes are, what they are sent and what they report, are nodes of
\* the tree as far as it is about the current instance.
WayInv ==
  \A s \in Solver :
    /\ node[s] # None => Here(node[s])
    /\ at[s] # None => Named(at[s][1], at[s][2])
    /\ \A k \in 1..Len(chan[s]) : Tells(chan[s][k])
    /\ \A k \in 1..Len(out[s]) : Tells(out[s][k])

\* Keys are drawn once, and statuses have different ranks.
Green(k) == entry[k].colour = "green"
Ranks ==
  /\ \A i, j \in 1..Len(keys) : keys[i] = keys[j] => i = j
  /\ \A k \in Path : Key(k) => entry[k].rank <= rank
  /\ \A k, l \in Path : (Key(k) /\ Key(l) /\ Green(k) /\ Green(l) /\ entry[k].rank = entry[l].rank) => k = l

\* Whatever is in the tree is drawn; what is drawn below an open node is in the tree.
Child(n, i, x) == n \o <<i, x>>
HasParts(n, i, x) == i < Len(entry[n].parts) /\ x < entry[n].parts[i + 1]
PartsInv ==
  kind.type = "smt" =>
    /\ \A n \in Path : \A i, x \in Nat : Child(n, i, x) \in tree => Key(n) /\ HasParts(n, i, x)
    /\ \A n \in Path \ solved : Key(n) =>
         \A i, x \in Nat : HasParts(n, i, x) => Child(n, i, x) \in tree
    /\ \A n \in Path : Key(n) => \A i \in 1..Len(entry[n].parts) : entry[n].parts[i] > 0

\* Every key but the root is a part of a key before it, which gave it its alias.
Parented ==
  \A i \in 1..Len(keys) :
    keys[i] = <<>> \/ \E j \in 1..i - 1 : \E y, x \in Nat :
                         HasParts(keys[j], y, x) /\ keys[i] = Child(keys[j], y, x)

\* The part of the invariant that a report of an earlier instance ends.
DrawInv ==
  ~stale =>
    /\ root = None => keys = <<>>
    /\ \A k \in Path : Key(k) => Here(k)
    /\ PartsInv
    /\ Parented
    /\ Ending => \E k \in Path : Key(k) /\ Green(k) /\ entry[k].rank = rank

DisplayInv == OutTypes /\ PictureTypes /\ Rooted /\ WayInv /\ Ranks /\ DrawInv

-----------------------------------------------------------------------------
(* Paths and keys.                                                         *)

\* A part of a node: the node, the number of the OR node and its own.
LEMMA ChildIs ==
  ASSUME NEW n \in Path, NEW i \in Nat, NEW x \in Nat
  PROVE  /\ Child(n, i, x) \in Path /\ Len(n) \in Nat /\ Len(Child(n, i, x)) = Len(n) + 2
         /\ \A k \in 1..Len(n) : Child(n, i, x)[k] = n[k]
         /\ Child(n, i, x)[Len(n) + 1] = i /\ Child(n, i, x)[Len(n) + 2] = x
<1> DEFINE t == <<i, x>>
           c == n \o t
<1>1. t \in Seq(Nat) /\ Len(t) = 2 /\ t[1] = i /\ t[2] = x OBVIOUS
<1>2. n \in Seq(Nat) /\ Len(n) \in Nat BY DEF Path
<1> HIDE DEF t
<1>3. /\ c \in Seq(Nat) /\ Len(c) = Len(n) + Len(t)
      /\ \A k \in 1..Len(n) + Len(t) : c[k] = IF k <= Len(n) THEN n[k] ELSE t[k - Len(n)]
  BY <1>1, <1>2, ConcatProperties
<1> HIDE DEF c
<1>4. c \in Path /\ Len(c) = Len(n) + 2 BY <1>1, <1>3 DEF Path
<1>5. \A k \in 1..Len(n) : c[k] = n[k] BY <1>1, <1>2, <1>3
<1>6. c[Len(n) + 1] = t[1]
  <2>1. Len(n) + 1 \in 1..Len(n) + Len(t) /\ ~(Len(n) + 1 <= Len(n)) /\ Len(n) + 1 - Len(n) = 1 BY <1>1, <1>2
  <2> QED BY <1>3, <2>1
<1>7. c[Len(n) + 2] = t[2]
  <2>1. Len(n) + 2 \in 1..Len(n) + Len(t) /\ ~(Len(n) + 2 <= Len(n)) /\ Len(n) + 2 - Len(n) = 2 BY <1>1, <1>2
  <2> QED BY <1>3, <2>1
<1> QED BY <1>1, <1>2, <1>4, <1>5, <1>6, <1>7 DEF Child, c, t

\* A part is below its node.
LEMMA ChildBelow ==
  ASSUME NEW n \in Path, NEW i \in Nat, NEW x \in Nat
  PROVE  IsAncestor(n, Child(n, i, x)) /\ IsAncestor(Append(n, i), Child(n, i, x))
<1>1. n \in Path /\ i \in Nat /\ x \in Nat OBVIOUS
<1>2. /\ Child(n, i, x) \in Path /\ Len(n) \in Nat /\ Len(Child(n, i, x)) = Len(n) + 2
      /\ \A k \in 1..Len(n) : Child(n, i, x)[k] = n[k]
      /\ Child(n, i, x)[Len(n) + 1] = i
  BY ONLY <1>1, ChildIs
<1>3. n \in Seq(Nat) BY DEF Path
<1>4. /\ Len(Append(n, i)) = Len(n) + 1 /\ Append(n, i)[Len(n) + 1] = i
      /\ \A k \in 1..Len(n) : Append(n, i)[k] = n[k]
  BY <1>1, <1>3, AppendProperties
<1>5. \A k \in 1..Len(n) + 1 : k \in 1..Len(n) \/ k = Len(n) + 1 BY <1>2
<1> QED BY <1>1, <1>2, <1>4, <1>5 DEF IsAncestor

\* A part belongs to one node, one OR node and one number.
LEMMA ChildOnce ==
  ASSUME NEW n \in Path, NEW i \in Nat, NEW x \in Nat, NEW m \in Path, NEW j \in Nat, NEW y \in Nat,
         Child(n, i, x) = Child(m, j, y)
  PROVE  n = m /\ i = j /\ x = y
<1> DEFINE c == Child(n, i, x)
           d == Child(m, j, y)
<1>0. n \in Path /\ i \in Nat /\ x \in Nat /\ m \in Path /\ j \in Nat /\ y \in Nat OBVIOUS
<1>1. c = d OBVIOUS
<1>2. /\ Len(n) \in Nat /\ Len(c) = Len(n) + 2 /\ \A k \in 1..Len(n) : c[k] = n[k]
      /\ c[Len(n) + 1] = i /\ c[Len(n) + 2] = x
  BY ONLY <1>0, ChildIs
<1>3. /\ Len(m) \in Nat /\ Len(d) = Len(m) + 2 /\ \A k \in 1..Len(m) : d[k] = m[k]
      /\ d[Len(m) + 1] = j /\ d[Len(m) + 2] = y
  BY ONLY <1>0, ChildIs
<1> HIDE DEF c, d
<1>4. Len(n) = Len(m) BY <1>1, <1>2, <1>3
<1>5. \A k \in 1..Len(n) : n[k] = m[k] BY <1>1, <1>2, <1>3, <1>4
<1>6. n = m
  <2>1. n \in Seq(Nat) /\ m \in Seq(Nat) BY DEF Path
  <2> QED BY <1>4, <1>5, <2>1, SeqEqual
<1> QED BY <1>1, <1>2, <1>3, <1>4, <1>6

\* A path that continues another by two steps is a part of it.
LEMMA ChildOf ==
  ASSUME NEW n \in Path, NEW m \in Path, Len(m) = Len(n) + 2, IsAncestor(n, m)
  PROVE  \E i, x \in Nat : m = Child(n, i, x)
<1>1. Len(n) \in Nat /\ m \in Seq(Nat) BY DEF Path
<1>2. Len(n) + 1 \in 1..Len(m) /\ Len(n) + 2 \in 1..Len(m) BY <1>1
<1>3. PICK i \in Nat : m[Len(n) + 1] = i BY <1>1, <1>2
<1>4. PICK x \in Nat : m[Len(n) + 2] = x BY <1>1, <1>2
<1> DEFINE c == Child(n, i, x)
<1>0. n \in Path /\ i \in Nat /\ x \in Nat OBVIOUS
<1>5. /\ c \in Path /\ Len(c) = Len(n) + 2 /\ \A k \in 1..Len(n) : c[k] = n[k]
      /\ c[Len(n) + 1] = i /\ c[Len(n) + 2] = x
  BY ONLY <1>0, ChildIs
<1> HIDE DEF c
<1>6. \A k \in 1..Len(m) : m[k] = c[k]
  <2> TAKE k \in 1..Len(m)
  <2>1. CASE k \in 1..Len(n) BY <1>5, <2>1 DEF IsAncestor
  <2>2. CASE k = Len(n) + 1 BY <1>3, <1>5, <2>2
  <2>3. CASE k = Len(n) + 2 BY <1>4, <1>5, <2>3
  <2> QED BY <1>1, <2>1, <2>2, <2>3
<1>7. m = c
  <2>1. c \in Seq(Nat) /\ Len(c) = Len(m) BY <1>5 DEF Path
  <2> QED BY <1>1, <1>6, <2>1, SeqEqual
<1> QED BY <1>7 DEF c

\* What is drawn below a key.
LEMMA DrawnIs ==
  ASSUME NEW k \in Path, entry[k] \in Entries, NEW m
  PROVE  m \in PartsDrawn(k) <=> \E i, x \in Nat : HasParts(k, i, x) /\ m = Child(k, i, x)
<1> DEFINE ps == entry[k].parts
<1>1. ps \in Seq(Nat) /\ Len(ps) \in Nat BY DEF Entries
<1>2. m \in PartsDrawn(k) <=> \E j \in 1..Len(ps) : \E x \in 0..ps[j] - 1 : m = Child(k, j - 1, x)
  <2> DEFINE S(j) == {Child(k, j - 1, x) : x \in 0..ps[j] - 1}
  <2>1. PartsDrawn(k) = UNION {S(j) : j \in 1..Len(ps)} BY Zenon DEF PartsDrawn, Child
  <2>2. \A j : m \in S(j) <=> \E x \in 0..ps[j] - 1 : m = Child(k, j - 1, x) OBVIOUS
  <2> HIDE DEF S
  <2>3. m \in PartsDrawn(k) <=> \E j \in 1..Len(ps) : m \in S(j) BY <2>1
  <2> QED BY <2>2, <2>3
<1>3. \A i, x : HasParts(k, i, x) <=> i < Len(ps) /\ x < ps[i + 1]
  BY DEF HasParts
<1> HIDE DEF ps
<1>4. ASSUME NEW j \in 1..Len(ps), NEW x \in 0..ps[j] - 1
      PROVE  j - 1 \in Nat /\ x \in Nat /\ HasParts(k, j - 1, x)
  <2>1. ps[j] \in Nat /\ j \in Nat /\ j - 1 \in Nat /\ (j - 1) + 1 = j /\ j - 1 < Len(ps) BY <1>1
  <2>2. x \in Nat /\ x < ps[j] BY <2>1
  <2> QED BY <1>3, <2>1, <2>2
<1>5. ASSUME NEW i \in Nat, NEW x \in Nat, HasParts(k, i, x)
      PROVE  i + 1 \in 1..Len(ps) /\ (i + 1) - 1 = i /\ x \in 0..ps[i + 1] - 1
  <2>1. i < Len(ps) /\ x < ps[i + 1] BY <1>3, <1>5
  <2>2. i + 1 \in 1..Len(ps) BY <1>1, <2>1
  <2>3. ps[i + 1] \in Nat BY <1>1, <2>2
  <2> QED BY <2>1, <2>2, <2>3
<1>6. ASSUME m \in PartsDrawn(k) PROVE \E i, x \in Nat : HasParts(k, i, x) /\ m = Child(k, i, x)
  <2>1. PICK j \in 1..Len(ps) : \E x \in 0..ps[j] - 1 : m = Child(k, j - 1, x) BY <1>2, <1>6
  <2>2. PICK x \in 0..ps[j] - 1 : m = Child(k, j - 1, x) BY <2>1
  <2> QED BY <1>4, <2>2
<1>7. ASSUME NEW i \in Nat, NEW x \in Nat, HasParts(k, i, x), m = Child(k, i, x) PROVE m \in PartsDrawn(k)
  <2> DEFINE j == i + 1
  <2>1. j \in 1..Len(ps) /\ x \in 0..ps[j] - 1 /\ j - 1 = i BY <1>5, <1>7
  <2> HIDE DEF j
  <2> QED BY <1>2, <1>7, <2>1
<1> QED BY <1>6, <1>7

\* A key is added after those that are there, and once.
LEMMA WithEffect ==
  ASSUME NEW ks \in Seq(Path), NEW k \in Path
  PROVE  /\ With(ks, k) \in Seq(Path) /\ Len(ks) <= Len(With(ks, k))
         /\ \A i \in 1..Len(ks) : With(ks, k)[i] = ks[i]
         /\ \A i \in 1..Len(With(ks, k)) : i > Len(ks) => With(ks, k)[i] = k
         /\ \E i \in 1..Len(With(ks, k)) : With(ks, k)[i] = k
         /\ (\A i, j \in 1..Len(ks) : ks[i] = ks[j] => i = j)
              => \A i, j \in 1..Len(With(ks, k)) : With(ks, k)[i] = With(ks, k)[j] => i = j
<1> DEFINE ws == With(ks, k)
<1>1. Len(ks) \in Nat OBVIOUS
<1>2. CASE \E i \in 1..Len(ks) : ks[i] = k
  <2>1. ws = ks BY <1>2 DEF With
  <2> QED BY <1>1, <1>2, <2>1
<1>3. CASE ~\E i \in 1..Len(ks) : ks[i] = k
  <2>1. ws = Append(ks, k) BY <1>3 DEF With
  <2>2. /\ ws \in Seq(Path) /\ Len(ws) = Len(ks) + 1 /\ ws[Len(ks) + 1] = k
        /\ \A i \in 1..Len(ks) : ws[i] = ks[i]
    BY <1>1, <2>1, AppendProperties
  <2> HIDE DEF ws
  <2>3. \A i \in 1..Len(ws) : i \in 1..Len(ks) \/ i = Len(ks) + 1 BY <1>1, <2>2
  <2>4. Len(ks) + 1 \in 1..Len(ws) BY <1>1, <2>2
  <2>5. ASSUME \A i, j \in 1..Len(ks) : ks[i] = ks[j] => i = j
        PROVE  \A i, j \in 1..Len(ws) : ws[i] = ws[j] => i = j
    BY <1>3, <2>2, <2>3, <2>5
  <2>6. \A i \in 1..Len(ws) : i > Len(ks) => ws[i] = k BY <1>1, <2>2, <2>3
  <2> QED BY <1>1, <2>2, <2>4, <2>5, <2>6 DEF ws
<1> QED BY <1>2, <1>3

\* What a report leaves of the keys and of their entries (collectData_vTree).
Reported(says, e, parts) ==
  [colour |-> IF says = "status" THEN "green" ELSE "none", rank |-> Ranked(says),
   parts |-> IF parts = 0 THEN e.parts ELSE Append(e.parts, parts)]
Found(k) == IF Key(k) THEN entry[k] ELSE Blank

LEMMA CollectKeys ==
  ASSUME PictureTypes, NEW says, NEW from \in Path, NEW to \in Path, NEW parts \in Nat,
         Collect(says, from, to, parts)
  PROVE  /\ keys' \in Seq(Path) /\ Len(keys) <= Len(keys')
         /\ \A i \in 1..Len(keys) : keys'[i] = keys[i]
         /\ \A i \in 1..Len(keys') : i > Len(keys) => keys'[i] \in {to, from}
         /\ \A k : Key(k)' <=> Key(k) \/ k \in {to, from}
         /\ (\A i, j \in 1..Len(keys) : keys[i] = keys[j] => i = j)
              => \A i, j \in 1..Len(keys') : keys'[i] = keys'[j] => i = j
<1> DEFINE one == With(keys, to)
           two == With(one, from)
<1>1. keys \in Seq(Path) /\ Len(keys) \in Nat BY DEF PictureTypes
<1>2. one \in Seq(Path) BY <1>1, WithEffect
<1>3. Len(one) \in Nat BY <1>2
<1>4. /\ one \in Seq(Path) /\ Len(keys) <= Len(one)
      /\ \A i \in 1..Len(keys) : one[i] = keys[i]
      /\ \A i \in 1..Len(one) : i > Len(keys) => one[i] = to
      /\ \E i \in 1..Len(one) : one[i] = to
      /\ (\A i, j \in 1..Len(keys) : keys[i] = keys[j] => i = j)
           => \A i, j \in 1..Len(one) : one[i] = one[j] => i = j
  BY <1>1, WithEffect
<1> HIDE DEF one
<1>5. two \in Seq(Path) BY <1>2, WithEffect
<1>6. Len(two) \in Nat BY <1>5
<1>7. /\ two \in Seq(Path) /\ Len(one) <= Len(two)
      /\ \A i \in 1..Len(one) : two[i] = one[i]
      /\ \A i \in 1..Len(two) : i > Len(one) => two[i] = from
      /\ \E i \in 1..Len(two) : two[i] = from
      /\ (\A i, j \in 1..Len(one) : one[i] = one[j] => i = j)
           => \A i, j \in 1..Len(two) : two[i] = two[j] => i = j
  BY <1>2, WithEffect
<1> HIDE DEF two
<1>8. keys' = two BY DEF Collect, one, two
<1>9. \A i \in 1..Len(two) : i > Len(keys) => two[i] \in {to, from}
  <2> SUFFICES ASSUME NEW i \in 1..Len(two), i > Len(keys) PROVE two[i] \in {to, from} OBVIOUS
  <2>1. CASE i > Len(one) BY <1>7, <2>1
  <2>2. CASE i \in 1..Len(one) BY <1>4, <1>7, <2>2
  <2> QED BY <1>1, <1>3, <1>6, <1>4, <1>7, <2>1, <2>2
<1>10. \A i \in 1..Len(keys) : i \in 1..Len(one) /\ i \in 1..Len(two) /\ two[i] = keys[i]
  <2> TAKE i \in 1..Len(keys)
  <2>1. i \in 1..Len(one) /\ i \in 1..Len(two) BY <1>1, <1>3, <1>6, <1>4, <1>7
  <2> QED BY <1>4, <1>7, <2>1
<1>11. ASSUME NEW k PROVE (\E i \in 1..Len(two) : two[i] = k) <=> Key(k) \/ k \in {to, from}
  <2>1. ASSUME NEW i \in 1..Len(two), two[i] = k PROVE Key(k) \/ k \in {to, from}
    <3>1. CASE i > Len(keys) BY <1>9, <2>1, <3>1
    <3>2. CASE i \in 1..Len(keys) BY <1>10, <2>1, <3>2 DEF Key
    <3> QED BY <1>1, <1>6, <1>7, <3>1, <3>2
  <2>2. Key(k) => \E i \in 1..Len(two) : two[i] = k BY <1>10 DEF Key
  <2>3. \E i \in 1..Len(two) : two[i] = to
    <3>1. PICK i \in 1..Len(one) : one[i] = to BY <1>4
    <3>2. i \in 1..Len(two) BY <1>3, <1>6, <1>7
    <3> QED BY <1>7, <3>1, <3>2
  <2> QED BY <1>7, <2>1, <2>2, <2>3
<1>12. Len(keys) <= Len(two) BY <1>1, <1>3, <1>6, <1>4, <1>7
<1> QED BY <1>4, <1>7, <1>8, <1>9, <1>10, <1>11, <1>12 DEF Key

LEMMA CollectEntries ==
  ASSUME PictureTypes, NEW says, NEW from \in Path, NEW to \in Path, NEW parts \in Nat,
         Collect(says, from, to, parts)
  PROVE  /\ rank' = Ranked(says) /\ rank' \in Nat
         /\ \A k \in Path : Found(k) \in Entries
         /\ \A k \in Path : Key(k)' =>
              /\ entry'[k] \in Entries
              /\ entry'[k] = IF k = to THEN Reported(says, Found(k), parts) ELSE Found(k)
<1>1. rank' = Ranked(says) /\ rank' \in Nat BY DEF Collect, Ranked, PictureTypes
<1>2. \A k \in Path : Found(k) \in Entries
  <2>1. <<>> \in Seq(Nat) OBVIOUS
  <2>2. Blank \in Entries BY <2>1 DEF Blank, Entries
  <2> QED BY <2>2 DEF Found, PictureTypes
<1> DEFINE D == {keys'[i] : i \in 1..Len(keys')}
           F(k) == LET e == IF Key(k) THEN entry[k] ELSE Blank IN
                   IF k # to THEN e
                   ELSE [colour |-> IF says = "status" THEN "green" ELSE "none", rank |-> rank',
                         parts |-> IF parts = 0 THEN e.parts ELSE Append(e.parts, parts)]
<1>3. entry' = [k \in D |-> F(k)] BY DEF Collect
<1>4. \A k : Key(k)' => k \in D BY DEF Key
<1>5. \A k : F(k) = IF k = to THEN Reported(says, Found(k), parts) ELSE Found(k)
  BY <1>1 DEF Reported, Found
<1> HIDE DEF D, F
<1>6. \A k : Key(k)' => entry'[k] = IF k = to THEN Reported(says, Found(k), parts) ELSE Found(k)
  BY <1>3, <1>4, <1>5
<1>7. Reported(says, Found(to), parts) \in Entries
  <2>1. Found(to).parts \in Seq(Nat) BY <1>2 DEF Entries
  <2>2. Append(Found(to).parts, parts) \in Seq(Nat) BY <2>1
  <2> QED BY <1>1, <2>1, <2>2 DEF Reported, Entries
<1> QED BY <1>1, <1>2, <1>6, <1>7

-----------------------------------------------------------------------------
(* The steps of the tree.                                                  *)

\* The parts of a node are below an OR node of their own (Node.clear_children, OrNode).
LEMMA ExpandEffect ==
  ASSUME tree \in SUBSET Path, NEW n \in Path, Expand(n)
  PROVE  \E j, c \in Nat :
           /\ c > 0 /\ ~HasOR(n, j) /\ \A i \in 0..j - 1 : HasOR(n, i)
           /\ tree' = tree \cup {Child(n, j, x) : x \in 0..c - 1}
           /\ Cardinality(tree' \ tree) = c
<1>1. \A j \in 0..MaxNodes, c \in 1..K : j \in Nat /\ c \in Nat /\ c > 0
  BY MovesAssumption
<1>2. PICK j \in Nat, c \in Nat :
        /\ c > 0 /\ ~HasOR(n, j) /\ \A i \in 0..j - 1 : HasOR(n, i)
        /\ tree' = tree \cup {n \o <<j, k>> : k \in 0..c - 1}
  BY <1>1 DEF Expand
<1> DEFINE new == {Child(n, j, x) : x \in 0..c - 1}
<1>3. tree' = tree \cup new BY <1>2, Zenon DEF Child
<1>4. \A x \in 0..c - 1 : x \in Nat /\ IsAncestor(Append(n, j), Child(n, j, x)) BY ChildBelow
<1>5. \A m \in new : m \notin tree
  <2> SUFFICES ASSUME NEW x \in 0..c - 1, Child(n, j, x) \in tree PROVE FALSE OBVIOUS
  <2> QED BY <1>2, <1>4 DEF HasOR
<1>6. tree' \ tree = new BY <1>3, <1>5
<1>7. Cardinality(new) = c
  <2> DEFINE f == [x \in 0..c - 1 |-> Child(n, j, x)]
  <2>1. f \in Bijection(0..c - 1, new)
    <3>1. f \in Surjection(0..c - 1, new) BY DEF Surjection
    <3>2. ASSUME NEW x \in 0..c - 1, NEW y \in 0..c - 1, f[x] = f[y] PROVE x = y
      <4>1. n \in Path /\ j \in Nat /\ x \in Nat /\ y \in Nat OBVIOUS
      <4>2. Child(n, j, x) = Child(n, j, y) BY <3>2
      <4> QED BY ONLY <4>1, <4>2, ChildOnce
    <3>3. \A x, y \in 0..c - 1 : f[x] = f[y] => x = y BY ONLY <3>2
    <3> HIDE DEF f, new
    <3>4. f \in Injection(0..c - 1, new)
      <4>1. f \in [0..c - 1 -> new] BY <3>1 DEF Surjection
      <4> QED BY <3>3, <4>1 DEF Injection, IsInjective
    <3> QED BY <3>1, <3>4 DEF Bijection
  <2>2. IsFiniteSet(0..c - 1) /\ Cardinality(0..c - 1) = c BY FS_Interval
  <2> HIDE DEF f, new
  <2>3. ExistsBijection(0..c - 1, new) BY <2>1 DEF ExistsBijection
  <2> QED BY <2>2, <2>3, FS_Bijection
<1> QED BY <1>2, <1>3, <1>6, <1>7

\* The nodes that are parsed are paths.
LEMMA RootedStep ==
  ASSUME MovesInv, MovesInv', Rooted, DisplayNext
  PROVE  Rooted'
<1>1. tree \in SUBSET Path BY DEF MovesInv, TypeInv
<1>2. <<>> \in Path /\ Len(<<>>) = 0 BY DEF Path
<1>3. (tree' = {<<>>}) => Rooted'
  <2>1. \A k \in 0..0 : Prefix(<<>>, k) = <<>> BY DEF Prefix
  <2> QED BY <1>2, <2>1 DEF Rooted
<1>4. ASSUME NEW i \in Instance, Begins(i) PROVE Rooted'
  <2>1. CASE kind'.type = "fixedpoint"
    <3>1. <<>> \in tree' BY <1>4 DEF Begins, Parse
    <3> QED BY <2>1, <3>1 DEF Rooted
  <2>2. CASE kind'.type # "fixedpoint"
    <3>1. tree' = {<<>>} BY <1>4, <2>2 DEF Begins, Parse
    <3> QED BY <1>3, <3>1
  <2> QED BY <2>1, <2>2
<1>5. CASE Ends BY <1>3, <1>5 DEF Ends, End
<1>6. ASSUME NEW n \in Path, Expand(n) PROVE Rooted'
  <2>1. n \in tree /\ kind.type = "smt" /\ kind' = kind BY <1>6 DEF Expand
  <2>2. PICK j \in Nat, c \in Nat : tree' = tree \cup {Child(n, j, x) : x \in 0..c - 1}
    BY <1>1, <1>6, ExpandEffect
  <2>3. Len(n) \in Nat /\ Len(n) % 2 = 0 /\ \A k \in 0..Len(n) : k % 2 = 0 => Prefix(n, k) \in tree
    BY <2>1 DEF Rooted, Path
  <2>4. ASSUME NEW x \in 0..c - 1
        PROVE  /\ Len(Child(n, j, x)) % 2 = 0
               /\ \A k \in 0..Len(Child(n, j, x)) : k % 2 = 0 => Prefix(Child(n, j, x), k) \in tree'
    <3> DEFINE m == Child(n, j, x)
    <3>1. n \in Path /\ j \in Nat /\ x \in Nat OBVIOUS
    <3>2. m \in Path /\ Len(m) = Len(n) + 2 /\ \A k \in 1..Len(n) : m[k] = n[k]
      BY ONLY <3>1, ChildIs
    <3>3. m \in tree' BY <2>2
    <3> HIDE DEF m
    <3>4. m \in Seq(Nat) /\ n \in Seq(Nat) BY <3>2 DEF Path
    <3>5. ASSUME NEW k \in 0..Len(m), k % 2 = 0 PROVE Prefix(m, k) \in tree'
      <4>1. CASE k \in 0..Len(n)
        <5>1. k \in 0..Len(m) BY <3>5
        <5>2. /\ Prefix(m, k) \in Seq(Nat) /\ Len(Prefix(m, k)) = k
              /\ \A i \in 1..k : Prefix(m, k)[i] = m[i]
          BY <3>4, <5>1, PrefixType
        <5>3. /\ Prefix(n, k) \in Seq(Nat) /\ Len(Prefix(n, k)) = k
              /\ \A i \in 1..k : Prefix(n, k)[i] = n[i]
          BY <3>4, <4>1, PrefixType
        <5>4. \A i \in 1..k : m[i] = n[i] BY <2>3, <3>2, <4>1
        <5>5. Prefix(m, k) = Prefix(n, k) BY <5>2, <5>3, <5>4, SeqEqual
        <5> QED BY <2>2, <2>3, <3>5, <4>1, <5>5
      <4>2. CASE k = Len(m)
        <5>1. Prefix(m, k) = m BY <3>4, <4>2, SubSeqFull DEF Prefix
        <5> QED BY <3>3, <5>1
      <4>3. CASE k = Len(n) + 1 BY <2>3, <3>5, <4>3
      <4> QED BY <2>3, <3>2, <4>1, <4>2, <4>3
    <3>6. Len(m) % 2 = 0 BY <2>3, <3>2
    <3> QED BY <3>5, <3>6 DEF m
  <2>5. ASSUME NEW m \in tree
        PROVE  Len(m) % 2 = 0 /\ \A k \in 0..Len(m) : k % 2 = 0 => Prefix(m, k) \in tree'
    BY <2>1, <2>2 DEF Rooted
  <2>6. <<>> \in tree' BY <2>2 DEF Rooted
  <2> QED BY <2>2, <2>4, <2>5, <2>6 DEF Rooted
<1>7. (UNCHANGED <<kind, tree>>) => Rooted' BY DEF Rooted
<1>8. ASSUME NEW s \in Solver, ReadParts(s) PROVE Rooted'
  <2>1. CASE UNCHANGED vars BY <1>7, <2>1 DEF vars
  <2>2. CASE Expand(node[s])
    <3>1. node[s] \in Path BY <1>1, <2>2 DEF Expand
    <3> QED BY <1>6, <2>2, <3>1
  <2> QED BY <1>8, <2>1, <2>2 DEF ReadParts
<1>9. ASSUME NEW s \in Solver, Goes(s) PROVE UNCHANGED <<kind, tree>> BY <1>9 DEF Goes, Move
<1>10. ASSUME NEW s \in Solver, \/ Starts(s) \/ Asks(s) \/ Obeys(s) \/ Finds(s) \/ Splinters(s)
                                \/ Leaves(s) \/ Drops(s) \/ ReadStatus(s) \/ ReadOther(s)
       PROVE  UNCHANGED <<kind, tree>>
  BY <1>10 DEF Starts, Asks, Obeys, Finds, Splinters, Leaves, Drops, ReadStatus, ReadOther,
               Solve, Ask, Obey, Replace, vars
<1> QED BY <1>4, <1>5, <1>7, <1>8, <1>9, <1>10 DEF DisplayNext

-----------------------------------------------------------------------------
(* The reports.                                                            *)

\* A report is read from the front.
LEMMA ReadsEffect ==
  ASSUME OutTypes, NEW s \in Solver, Reads(s)
  PROVE  /\ Head(out[s]) \in Reports /\ Head(out[s]) = out[s][1] /\ 1 \in 1..Len(out[s])
         /\ out' \in [Solver -> Seq(Reports)]
         /\ \A r \in Solver : r # s => out'[r] = out[r]
         /\ Len(out'[s]) = Len(out[s]) - 1 /\ Len(out[s]) \in Nat
         /\ \A k \in 1..Len(out'[s]) : k + 1 \in 1..Len(out[s]) /\ out'[s][k] = out[s][k + 1]
<1>1. out \in [Solver -> Seq(Reports)] /\ out[s] # <<>> /\ out' = [out EXCEPT ![s] = Tail(@)]
  BY DEF OutTypes, Reads
<1> DEFINE q == out[s]
<1>2. q \in Seq(Reports) /\ q # <<>> BY <1>1
<1> HIDE DEF q
<1>3. /\ Head(q) \in Reports /\ Head(q) = q[1] /\ Len(q) \in Nat /\ Len(q) >= 1 /\ Tail(q) \in Seq(Reports)
      /\ Len(Tail(q)) = Len(q) - 1
      /\ \A k \in 1..Len(Tail(q)) : k + 1 \in 1..Len(q) /\ Tail(q)[k] = q[k + 1]
  BY <1>2
<1>4. out'[s] = Tail(q) /\ out' \in [Solver -> Seq(Reports)] /\ \A r \in Solver : r # s => out'[r] = out[r]
  BY <1>1, <1>3 DEF q
<1>5. 1 \in 1..Len(q) BY <1>3
<1> QED BY <1>3, <1>4, <1>5 DEF q

\* A report is put at the end; its process works somewhere.
LEMMA SaysEffect ==
  ASSUME OutTypes, NEW s \in Solver, NEW w, NEW from, NEW to, Says(s, w, from, to),
         w \in {"start", "move", "status", "partitions"}, at'[s] \in Instance \X Path,
         from \in Path, to \in Path, w = "partitions" => from = to
  PROVE  /\ out' \in [Solver -> Seq(Reports)]
         /\ \A r \in Solver : r # s => out'[r] = out[r]
         /\ \A k \in 1..Len(out'[s]) :
              \/ k \in 1..Len(out[s]) /\ out'[s][k] = out[s][k]
              \/ out'[s][k].of = at'[s][1] /\ out'[s][k].from = from /\ out'[s][k].to = to
<1> DEFINE m == [says |-> w, of |-> at'[s][1], from |-> from, to |-> to]
           q == out[s]
<1>1. m \in Reports /\ m.of = at'[s][1] /\ m.from = from /\ m.to = to BY DEF Reports
<1>2. out \in [Solver -> Seq(Reports)] /\ out' = [out EXCEPT ![s] = Append(@, m)]
  BY DEF OutTypes, Says
<1> HIDE DEF m
<1>3. q \in Seq(Reports) BY <1>2
<1>4. out'[s] = Append(q, m) /\ \A r \in Solver : r # s => out'[r] = out[r] BY <1>2
<1> HIDE DEF q
<1>5. /\ Len(q) \in Nat /\ Append(q, m) \in Seq(Reports) /\ Len(Append(q, m)) = Len(q) + 1
      /\ Append(q, m)[Len(q) + 1] = m /\ \A k \in 1..Len(q) : Append(q, m)[k] = q[k]
  BY <1>1, <1>3, AppendProperties
<1>6. \A k \in 1..Len(q) + 1 : k \in 1..Len(q) \/ k = Len(q) + 1 BY <1>5
<1>7. out' \in [Solver -> Seq(Reports)] BY <1>2, <1>4, <1>5
<1> QED BY <1>1, <1>4, <1>5, <1>6, <1>7 DEF q

\* The messages a process reads and those that are left.
LEMMA ObeyEffect ==
  ASSUME TypeInv, NEW s \in Solver, Obey(s)
  PROVE  /\ Head(chan[s]) \in Messages /\ Head(chan[s]) = chan[s][1] /\ 1 \in 1..Len(chan[s])
         /\ \A r \in Solver : r # s => chan'[r] = chan[r] /\ at'[r] = at[r]
         /\ \A k \in 1..Len(chan'[s]) : k + 1 \in 1..Len(chan[s]) /\ chan'[s][k] = chan[s][k + 1]
         /\ at'[s] = IF Head(chan[s]).op = "stop" THEN None ELSE <<Head(chan[s]).of, Head(chan[s]).to>>
<1> DEFINE q == chan[s]
<1>1. /\ chan \in [Solver -> Seq(Messages)] /\ q # <<>> /\ chan' = [chan EXCEPT ![s] = Tail(@)]
      /\ at \in [Solver -> (Instance \X Path) \cup {None}]
  BY DEF TypeInv, Obey
<1>2. q \in Seq(Messages) BY <1>1
<1>3. chan'[s] = Tail(q) /\ \A r \in Solver : r # s => chan'[r] = chan[r] BY <1>1
<1>4. /\ at'[s] = IF Head(q).op = "stop" THEN None ELSE <<Head(q).of, Head(q).to>>
      /\ \A r \in Solver : r # s => at'[r] = at[r]
  BY <1>1 DEF Obey
<1> HIDE DEF q
<1>5. /\ Head(q) \in Messages /\ Head(q) = q[1] /\ Len(q) \in Nat /\ Len(q) >= 1
      /\ Len(Tail(q)) = Len(q) - 1
      /\ \A k \in 1..Len(Tail(q)) : k + 1 \in 1..Len(q) /\ Tail(q)[k] = q[k + 1]
  BY <1>1, <1>2
<1>6. 1 \in 1..Len(q) BY <1>5
<1> QED BY <1>3, <1>4, <1>5, <1>6 DEF q

LEMMA OutStep ==
  ASSUME MovesInv, MovesInv', OutTypes, DisplayNext
  PROVE  OutTypes'
<1>1. /\ out \in [Solver -> Seq(Reports)] /\ forked \in [Solver -> BOOLEAN]
      /\ \A s \in Solver : forked[s] => at[s] # None
  BY DEF OutTypes
<1>2. TypeInv /\ at' \in [Solver -> (Instance \X Path) \cup {None}] /\ None \notin Instance \X Path
  BY MovesAssumption DEF MovesInv, TypeInv
<1>3. at \in [Solver -> (Instance \X Path) \cup {None}] BY <1>2 DEF TypeInv
<1>4. ASSUME UNCHANGED <<out, forked, at>> PROVE OutTypes' BY <1>1, <1>4 DEF OutTypes
<1>5. ASSUME NEW i \in Instance, Begins(i) PROVE OutTypes'
  BY <1>4, <1>5 DEF Begins, Parse
<1>6. CASE Ends BY <1>4, <1>6 DEF Ends, End
<1>7. ASSUME NEW s \in Solver, Starts(s) \/ Goes(s) \/ Asks(s) PROVE OutTypes'
  BY <1>4, <1>7 DEF Starts, Goes, Asks, Entrusts, Solve, Move, Ask
<1>8. ASSUME NEW s \in Solver, Obeys(s) PROVE OutTypes'
  <2> DEFINE m == Head(chan[s])
  <2>1. /\ m \in Messages /\ \A r \in Solver : r # s => at'[r] = at[r]
        /\ at'[s] = IF m.op = "stop" THEN None ELSE <<m.of, m.to>>
    BY <1>2, <1>8, ObeyEffect DEF Obeys
  <2>2. forked' = [forked EXCEPT ![s] = m.op = "partition"] BY <1>8 DEF Obeys
  <2>3. forked' \in [Solver -> BOOLEAN] /\ \A r \in Solver : forked'[r] => at'[r] # None
    <3> DEFINE b == m.op = "partition"
    <3>1. b \in BOOLEAN OBVIOUS
    <3>2. m.of \in Instance /\ m.to \in Path BY <2>1 DEF Messages
    <3>3. b => at'[s] # None
      <4>1. b => at'[s] = <<m.of, m.to>> BY <2>1
      <4>2. <<m.of, m.to>> # None BY <1>2, <3>2
      <4> QED BY <4>1, <4>2
    <3> HIDE DEF b
    <3>4. forked' = [forked EXCEPT ![s] = b] BY <2>2 DEF b
    <3>5. forked' \in [Solver -> BOOLEAN] BY <1>1, <3>1, <3>4, Zenon
    <3>6. forked'[s] = b /\ \A r \in Solver : r # s => forked'[r] = forked[r] BY <1>1, <3>4, Zenon
    <3>7. \A r \in Solver : r # s => at'[r] = at[r] BY <2>1
    <3>8. ASSUME NEW r \in Solver, forked'[r] PROVE at'[r] # None
      <4>1. CASE r = s BY <3>3, <3>6, <3>8, <4>1, Zenon
      <4>2. CASE r # s BY <1>1, <3>6, <3>7, <3>8, <4>2, Zenon
      <4> QED BY <4>1, <4>2
    <3> QED BY <3>5, <3>8
  <2>4. out' \in [Solver -> Seq(Reports)]
    <3>1. m.from \in Path /\ m.to \in Path /\ m.of \in Instance /\ <<>> \in Path
      BY <2>1 DEF Messages, Path
    <3>2. CASE m.op = "solve"
      <4>1. Says(s, "start", <<>>, m.to) BY <1>8, <3>2 DEF Obeys
      <4> QED BY <2>1, <3>1, <3>2, <4>1, SaysEffect
    <3>3. CASE m.op = "incremental" /\ Log
      <4>1. Says(s, "move", m.from, m.to) BY <1>8, <3>3 DEF Obeys
      <4> QED BY <2>1, <3>1, <3>3, <4>1, SaysEffect
    <3>4. CASE ~(m.op = "solve") /\ ~(m.op = "incremental" /\ Log)
      <4>1. out' = out BY <1>8, <3>4 DEF Obeys
      <4> QED BY <1>1, <4>1
    <3> QED BY <3>2, <3>3, <3>4
  <2> QED BY <2>3, <2>4 DEF OutTypes
<1>9. ASSUME NEW s \in Solver, Finds(s) \/ Splinters(s) PROVE OutTypes'
  <2>1. at[s] # None /\ at' = at BY <1>1, <1>9 DEF Finds, Splinters, vars
  <2>2. at'[s] \in Instance \X Path /\ at[s][2] \in Path BY <1>3, <2>1
  <2>3. Says(s, "status", at[s][2], at[s][2]) \/ Says(s, "partitions", at[s][2], at[s][2])
    BY <1>9 DEF Finds, Splinters
  <2>4. out' \in [Solver -> Seq(Reports)] BY <2>2, <2>3, SaysEffect
  <2>5. forked' = forked \/ forked' = [forked EXCEPT ![s] = FALSE]
    BY <1>9 DEF Finds, Splinters
  <2>6. forked' \in [Solver -> BOOLEAN] /\ \A r \in Solver : forked'[r] => forked[r]
    BY <1>1, <2>5
  <2> QED BY <1>1, <2>1, <2>4, <2>6 DEF OutTypes
<1>10. ASSUME NEW s \in Solver, Leaves(s) PROVE OutTypes'
  <2>1. /\ out' = [out EXCEPT ![s] = <<>>] /\ forked' = [forked EXCEPT ![s] = FALSE]
        /\ at' = [at EXCEPT ![s] = None]
    BY <1>10 DEF Leaves, Replace
  <2>2. <<>> \in Seq(Reports) OBVIOUS
  <2> QED BY <1>1, <1>3, <2>1, <2>2 DEF OutTypes
<1>11. ASSUME NEW s \in Solver, Reads(s), UNCHANGED <<forked, at>> PROVE OutTypes'
  <2>1. out' \in [Solver -> Seq(Reports)] BY <1>11, ReadsEffect
  <2> QED BY <1>1, <1>11, <2>1 DEF OutTypes
<1>12. ASSUME NEW s \in Solver, Drops(s) \/ ReadStatus(s) \/ ReadParts(s) \/ ReadOther(s)
       PROVE  Reads(s) /\ UNCHANGED <<forked, at>>
  <2>1. Reads(s) BY <1>12 DEF Drops, ReadStatus, ReadParts, ReadOther, Passes
  <2>2. CASE UNCHANGED vars BY <2>1, <2>2 DEF Reads, vars
  <2>3. CASE Expand(node[s]) BY <2>1, <2>3 DEF Reads, Expand
  <2> QED BY <1>12, <2>2, <2>3 DEF Drops, ReadStatus, ReadParts, ReadOther
<1> QED BY <1>5, <1>6, <1>7, <1>8, <1>9, <1>10, <1>11, <1>12 DEF DisplayNext

-----------------------------------------------------------------------------
(* What solvers and processes work on.                                     *)

\* A tree that grows keeps what is true of its nodes.
LEMMA HereKept ==
  ASSUME root' = root, kind' = kind, tree \subseteq tree'
  PROVE  /\ \A n : Here(n) => Here(n)'
         /\ \A i, n : Named(i, n) => Named(i, n)'
         /\ \A m : Tells(m) => Tells(m)'
<1>1. \A n : Here(n) => Here(n)' BY DEF Here
<1>2. \A i, n : Named(i, n) => Named(i, n)' BY <1>1 DEF Named
<1> QED BY <1>1, <1>2 DEF Tells

\* A message is put at the end.
LEMMA WriteEffect ==
  ASSUME chan \in [Solver -> Seq(Messages)], NEW s \in Solver, NEW m \in Messages, Write(s, m)
  PROVE  /\ \A r \in Solver : r # s => chan'[r] = chan[r]
         /\ \A k \in 1..Len(chan'[s]) : (k \in 1..Len(chan[s]) /\ chan'[s][k] = chan[s][k]) \/ chan'[s][k] = m
<1> DEFINE q == chan[s]
<1>1. q \in Seq(Messages) /\ chan'[s] = Append(q, m) /\ \A r \in Solver : r # s => chan'[r] = chan[r]
  BY DEF Write
<1> HIDE DEF q
<1>2. /\ Len(q) \in Nat /\ Len(Append(q, m)) = Len(q) + 1
      /\ Append(q, m)[Len(q) + 1] = m /\ \A k \in 1..Len(q) : Append(q, m)[k] = q[k]
  BY <1>1, AppendProperties
<1>3. \A k \in 1..Len(q) + 1 : k \in 1..Len(q) \/ k = Len(q) + 1 BY <1>2
<1> QED BY <1>1, <1>2, <1>3 DEF q

\* What is under way names a node of its instance, and so does where it leads.
LEMMA WayStep ==
  ASSUME MovesInv, MovesInv', OutTypes, OutTypes', Rooted, WayInv, DisplayNext
  PROVE  WayInv'
<1>1. /\ chan \in [Solver -> Seq(Messages)] /\ chan' \in [Solver -> Seq(Messages)]
      /\ node \in [Solver -> Path \cup {None}] /\ root \in Instance \cup {None}
      /\ at \in [Solver -> (Instance \X Path) \cup {None}]
      /\ at' \in [Solver -> (Instance \X Path) \cup {None}]
      /\ out \in [Solver -> Seq(Reports)] /\ out' \in [Solver -> Seq(Reports)]
      /\ TypeInv /\ \A s \in Solver : forked[s] => at[s] # None
  BY DEF MovesInv, TypeInv, OutTypes
<1>2. /\ \A s \in Solver : \A k \in 1..Len(chan[s]) : chan[s][k] \in Messages
      /\ \A s \in Solver : \A k \in 1..Len(chan'[s]) : chan'[s][k] \in Messages
      /\ \A s \in Solver : \A k \in 1..Len(out'[s]) : out'[s][k] \in Reports
  <2>1. \A T : \A q \in Seq(T) : \A k \in 1..Len(q) : q[k] \in T OBVIOUS
  <2> QED BY <1>1, <2>1
<1>3. Here(<<>>) BY DEF Here, Rooted
<1>4. ASSUME root' = root, kind' = kind, tree \subseteq tree', UNCHANGED <<node, at, chan, out>>
      PROVE  WayInv'
  BY <1>4, HereKept DEF WayInv
<1>5. ASSUME NEW i \in Instance, Begins(i) PROVE WayInv'
  <2>1. root = None /\ root' = i /\ UNCHANGED <<node, at, chan, out>> /\ Forgotten(i)
    BY <1>5 DEF Begins, Parse
  <2>2. \A s \in Solver : node'[s] = None BY <2>1 DEF MovesInv, NodeInv
  <2> QED BY <2>1, <2>2 DEF WayInv, Named, Tells, Forgotten
<1>6. CASE Ends
  <2>1. /\ root' = None /\ at' = at /\ out' = out /\ node' = [s \in Solver |-> None]
    BY <1>6 DEF Ends, End
  <2>2. None \notin Instance BY MovesAssumption
  <2>3. \A s \in Solver : at'[s] # None => at'[s][1] \in Instance BY <1>1
  <2>4. \A m \in Messages : Tells(m)' BY <2>1, <2>2 DEF Messages, Tells, Named
  <2>5. \A m \in Reports : Tells(m)' BY <2>1, <2>2 DEF Reports, Tells, Named
  <2> QED BY <1>2, <2>1, <2>2, <2>3, <2>4, <2>5 DEF WayInv, Named
\* A message that names nodes of the tree is sent to a solver, and is now at one of them.
<1>7. ASSUME NEW s \in Solver, NEW m \in Messages, Write(s, m), m.of = root, Here(m.from), Here(m.to),
             node' = [node EXCEPT ![s] = m.to], UNCHANGED <<root, kind, tree, at, out>>
      PROVE  WayInv'
  <2>1. Tells(m) BY <1>7 DEF Tells, Named
  <2>2. /\ \A r \in Solver : r # s => chan'[r] = chan[r]
        /\ \A k \in 1..Len(chan'[s]) : (k \in 1..Len(chan[s]) /\ chan'[s][k] = chan[s][k]) \/ chan'[s][k] = m
    BY <1>1, <1>7, WriteEffect
  <2>3. \A r \in Solver : \A k \in 1..Len(chan'[r]) : Tells(chan'[r][k])
    BY <2>1, <2>2 DEF WayInv
  <2>4. \A r \in Solver : node'[r] # None => Here(node'[r]) BY <1>1, <1>7 DEF WayInv
  <2>5. (\A n : Here(n) => Here(n)') /\ (\A i, n : Named(i, n) => Named(i, n)') /\ \A l : Tells(l) => Tells(l)'
    BY <1>7, HereKept
  <2> QED BY <1>7, <2>3, <2>4, <2>5 DEF WayInv
<1>8. ASSUME NEW s \in Solver, Starts(s) PROVE WayInv'
  <2>1. Write(s, SolveMessage) /\ node' = [node EXCEPT ![s] = <<>>] /\ root \in Instance
        /\ UNCHANGED <<root, kind, tree, at, out>>
    BY <1>1, <1>8 DEF Starts, Solve, Entrusts
  <2>2. SolveMessage \in Messages BY <2>1, SentTypes
  <2>3. SolveMessage.of = root /\ SolveMessage.from = <<>> /\ SolveMessage.to = <<>> BY DEF SolveMessage
  <2> HIDE DEF SolveMessage
  <2> QED BY <1>3, <1>7, <2>1, <2>2, <2>3
<1>9. ASSUME NEW s \in Solver, Goes(s) PROVE WayInv'
  <2>1. PICK n \in tree : Move(s, n) BY <1>9 DEF Goes
  <2>2. /\ node[s] # None /\ kind.type = "smt" /\ Write(s, MoveMessage(node[s], n))
        /\ node' = [node EXCEPT ![s] = n] /\ UNCHANGED <<root, kind, tree, at, out>>
    BY <1>9, <2>1 DEF Goes, Move, Movable, Entrusts
  <2>3. node[s] \in Path /\ n \in Path /\ root \in Instance
    <3>1. node[s] \in Path BY <1>1, <2>2
    <3>2. tree \subseteq Path BY <1>1 DEF TypeInv
    <3>3. root # None BY <2>2 DEF MovesInv, NodeInv
    <3> QED BY <1>1, <3>1, <3>2, <3>3
  <2>4. Here(node[s]) /\ Here(n) BY <2>1, <2>2 DEF WayInv, Here
  <2> DEFINE m == MoveMessage(node[s], n)
  <2>5. m \in Messages BY <2>3, SentTypes
  <2>6. m.of = root /\ m.from = node[s] /\ m.to = n BY DEF MoveMessage
  <2>7. Write(s, m) BY <2>2
  <2> HIDE DEF m
  <2> QED BY <1>7, <2>2, <2>4, <2>5, <2>6, <2>7
<1>10. ASSUME NEW s \in Solver, Asks(s) PROVE WayInv'
  <2>1. node[s] # None /\ Write(s, Request(node[s])) /\ UNCHANGED <<root, kind, tree, node, at, out>>
    BY <1>10 DEF Asks, Ask, Entrusts
  <2>2. node[s] \in Path /\ root \in Instance
    <3>1. root # None BY <2>1 DEF MovesInv, NodeInv
    <3> QED BY <1>1, <2>1, <3>1
  <2> DEFINE m == Request(node[s])
  <2>3. m \in Messages
    <3>1. [pop |-> 0, add |-> <<>>] \in [pop : Nat, add : Seq(Path)] OBVIOUS
    <3> QED BY <2>2, <3>1 DEF Request, Messages
  <2>4. m.of = root /\ m.from = node[s] /\ m.to = node[s] BY DEF Request
  <2>5. Here(node[s]) BY <2>1 DEF WayInv
  <2>6. node' = [node EXCEPT ![s] = node[s]] BY <1>1, <2>1
  <2>7. Write(s, m) BY <2>1
  <2> HIDE DEF m
  <2> QED BY <1>7, <2>1, <2>3, <2>4, <2>5, <2>6, <2>7
\* A report names what its process was sent.
<1>11. ASSUME NEW s \in Solver, NEW w \in {"start", "move", "status", "partitions"}, NEW from \in Path,
              NEW to \in Path, Says(s, w, from, to), w = "partitions" => from = to,
              at'[s] \in Instance \X Path, Named(at'[s][1], from), Named(at'[s][1], to)
       PROVE  \A r \in Solver : \A k \in 1..Len(out'[r]) : Tells(out'[r][k])
  <2>2. /\ \A r \in Solver : r # s => out'[r] = out[r]
        /\ \A k \in 1..Len(out'[s]) :
              \/ k \in 1..Len(out[s]) /\ out'[s][k] = out[s][k]
              \/ out'[s][k].of = at'[s][1] /\ out'[s][k].from = from /\ out'[s][k].to = to
    BY <1>11, SaysEffect
  <2> QED BY <1>11, <2>2 DEF WayInv, Tells
<1>12. ASSUME NEW s \in Solver, Obeys(s) PROVE WayInv'
  <2> DEFINE m == Head(chan[s])
  <2>1. Obey(s) /\ UNCHANGED <<root, kind, tree, node>> BY <1>12 DEF Obeys, Obey
  <2>2. /\ m \in Messages /\ m = chan[s][1] /\ 1 \in 1..Len(chan[s])
        /\ \A r \in Solver : r # s => chan'[r] = chan[r] /\ at'[r] = at[r]
        /\ \A k \in 1..Len(chan'[s]) : k + 1 \in 1..Len(chan[s]) /\ chan'[s][k] = chan[s][k + 1]
        /\ at'[s] = IF m.op = "stop" THEN None ELSE <<m.of, m.to>>
    BY <1>1, <2>1, ObeyEffect
  <2>3. Tells(m) BY <2>2 DEF WayInv
  <2>4. \A r \in Solver : \A k \in 1..Len(chan'[r]) : Tells(chan'[r][k]) BY <2>2 DEF WayInv
  <2>5. \A r \in Solver : at'[r] # None => Named(at'[r][1], at'[r][2])
    BY <2>2, <2>3 DEF WayInv, Tells
  <2>6. \A r \in Solver : \A k \in 1..Len(out'[r]) : Tells(out'[r][k])
    <3>1. /\ m.of \in Instance /\ m.to \in Path /\ m.from \in Path /\ <<>> \in Path
          /\ Named(m.of, m.to) /\ Named(m.of, m.from) /\ Named(m.of, <<>>)
      BY <1>3, <2>2, <2>3 DEF Messages, Tells, Named, Path
    <3>2. CASE m.op = "solve"
      <4>1. Says(s, "start", <<>>, m.to) BY <1>12, <3>2 DEF Obeys
      <4> QED BY <1>11, <2>2, <3>1, <3>2, <4>1
    <3>3. CASE m.op = "incremental" /\ Log
      <4>1. Says(s, "move", m.from, m.to) BY <1>12, <3>3 DEF Obeys
      <4> QED BY <1>11, <2>2, <3>1, <3>3, <4>1
    <3>4. CASE ~(m.op = "solve") /\ ~(m.op = "incremental" /\ Log)
      <4>1. out' = out BY <1>12, <3>4 DEF Obeys
      <4> QED BY <4>1 DEF WayInv
    <3> QED BY <3>2, <3>3, <3>4
  <2>7. (\A n : Here(n) => Here(n)') /\ (\A i, n : Named(i, n) => Named(i, n)') /\ \A l : Tells(l) => Tells(l)'
    BY <2>1, HereKept
  <2> HIDE DEF m
  <2> QED BY <2>1, <2>4, <2>5, <2>6, <2>7 DEF WayInv
<1>13. ASSUME NEW s \in Solver, Finds(s) \/ Splinters(s) PROVE WayInv'
  <2>1. at[s] # None /\ UNCHANGED vars BY <1>1, <1>13 DEF Finds, Splinters
  <2>2. UNCHANGED <<root, kind, tree, node, chan, at>> BY <2>1 DEF vars
  <2>3. at'[s] \in Instance \X Path /\ at[s][2] \in Path /\ Named(at'[s][1], at[s][2])
    BY <1>1, <2>1, <2>2 DEF WayInv
  <2>4. Says(s, "status", at[s][2], at[s][2]) \/ Says(s, "partitions", at[s][2], at[s][2])
    BY <1>13 DEF Finds, Splinters
  <2>5. \A r \in Solver : \A k \in 1..Len(out'[r]) : Tells(out'[r][k]) BY <1>11, <2>3, <2>4
  <2>6. (\A n : Here(n) => Here(n)') /\ (\A i, n : Named(i, n) => Named(i, n)') /\ \A l : Tells(l) => Tells(l)'
    BY <2>2, HereKept
  <2> QED BY <2>2, <2>5, <2>6 DEF WayInv
<1>14. ASSUME NEW s \in Solver, Leaves(s) PROVE WayInv'
  <2>1. /\ node' = [node EXCEPT ![s] = None] /\ chan' = [chan EXCEPT ![s] = <<>>]
        /\ at' = [at EXCEPT ![s] = None] /\ out' = [out EXCEPT ![s] = <<>>]
        /\ UNCHANGED <<root, kind, tree>>
    BY <1>14 DEF Leaves, Replace
  <2>2. (\A n : Here(n) => Here(n)') /\ (\A i, n : Named(i, n) => Named(i, n)') /\ \A l : Tells(l) => Tells(l)'
    BY <2>1, HereKept
  <2>3. \A r \in Solver : r # s => /\ node'[r] = node[r] /\ chan'[r] = chan[r]
                                   /\ at'[r] = at[r] /\ out'[r] = out[r]
    BY <1>1, <2>1
  <2>4. node'[s] = None /\ at'[s] = None /\ Len(chan'[s]) = 0 /\ Len(out'[s]) = 0 BY <1>1, <2>1
  <2> QED BY <2>2, <2>3, <2>4 DEF WayInv
<1>15. ASSUME NEW s \in Solver, Reads(s), root' = root, kind' = kind, tree \subseteq tree',
              UNCHANGED <<node, at, chan>>
       PROVE  WayInv'
  <2>1. /\ \A r \in Solver : r # s => out'[r] = out[r]
        /\ \A k \in 1..Len(out'[s]) : k + 1 \in 1..Len(out[s]) /\ out'[s][k] = out[s][k + 1]
    BY <1>15, ReadsEffect
  <2>2. \A r \in Solver : \A k \in 1..Len(out'[r]) : Tells(out'[r][k]) BY <2>1 DEF WayInv
  <2> QED BY <1>15, <2>2, HereKept DEF WayInv
<1>16. ASSUME NEW s \in Solver, Drops(s) \/ ReadStatus(s) \/ ReadParts(s) \/ ReadOther(s)
       PROVE  /\ Reads(s) /\ root' = root /\ kind' = kind /\ tree \subseteq tree'
              /\ UNCHANGED <<node, at, chan>>
  <2>1. Reads(s) BY <1>16 DEF Drops, ReadStatus, ReadParts, ReadOther, Passes
  <2>2. CASE UNCHANGED vars BY <2>1, <2>2 DEF vars
  <2>3. CASE Expand(node[s]) BY <2>1, <2>3 DEF Expand
  <2> QED BY <1>16, <2>2, <2>3 DEF Drops, ReadStatus, ReadParts, ReadOther
<1> QED BY <1>5, <1>6, <1>8, <1>9, <1>10, <1>12, <1>13, <1>14, <1>15, <1>16 DEF DisplayNext

-----------------------------------------------------------------------------
(* The picture.                                                            *)

\* Every report that is passed on is collected, with the node it names.
LEMMA ReadCollects ==
  ASSUME TypeInv, OutTypes, NEW s \in Solver, ReadStatus(s) \/ ReadParts(s) \/ ReadOther(s)
  PROVE  LET m == Head(out[s]) IN
         /\ m \in Reports /\ <<>> \in Path
         /\ stale' = (stale \/ node[s] = None)
         /\ \E says : \E from \in {<<>>, m.from} : \E parts \in Nat : Collect(says, from, m.to, parts)
<1> DEFINE m == Head(out[s])
<1>1. Reads(s) /\ stale' = (stale \/ node[s] = None)
  BY DEF ReadStatus, ReadParts, ReadOther, Passes
<1>2. m \in Reports /\ <<>> \in Path BY <1>1, ReadsEffect DEF Path
<1> DEFINE Collected == \E says : \E from \in {<<>>, m.from} : \E parts \in Nat : Collect(says, from, m.to, parts)
<1>3. ASSUME ReadStatus(s) PROVE Collected
  <2>1. Collect("status", <<>>, m.to, 0) BY <1>3 DEF ReadStatus
  <2> HIDE DEF m
  <2> QED BY <2>1
<1>4. ASSUME ReadOther(s) PROVE Collected
  <2>1. \/ Collect("move", m.from, m.to, 0) \/ Collect("start", <<>>, m.to, 0)
        \/ Collect("other", <<>>, m.to, 0)
    BY <1>4 DEF ReadOther
  <2> HIDE DEF m
  <2> QED BY <2>1
<1>5. ASSUME ReadParts(s) PROVE Collected
  <2>1. CASE Expand(node[s]) /\ Collect("parts", <<>>, m.to, Cardinality(tree' \ tree))
    <3>1. tree \in SUBSET Path BY DEF TypeInv
    <3>2. node[s] \in Path BY <2>1, <3>1 DEF Expand
    <3>3. Cardinality(tree' \ tree) \in Nat BY <2>1, <3>1, <3>2, ExpandEffect
    <3> HIDE DEF m
    <3> QED BY <2>1, <3>3
  <2>2. CASE \E c \in 0..K : Collect("parts", <<>>, m.to, c)
    <3>1. 0..K \subseteq Nat BY MovesAssumption
    <3> HIDE DEF m
    <3> QED BY <2>2, <3>1
  <2> QED BY <1>5, <2>1, <2>2 DEF ReadParts
<1>6. Collected BY <1>3, <1>4, <1>5
<1> QED BY <1>1, <1>2, <1>6

\* The handlers that do not draw.
LEMMA Undrawn ==
  ASSUME NEW s \in Solver, \/ Starts(s) \/ Goes(s) \/ Asks(s) \/ Obeys(s) \/ Finds(s) \/ Splinters(s)
                           \/ Leaves(s) \/ Drops(s)
  PROVE  UNCHANGED <<root, kind, tree, solved, keys, entry, rank, stale>>
<1>1. CASE Starts(s) \/ Goes(s) \/ Asks(s)
  BY <1>1 DEF Starts, Goes, Asks, Entrusts, drawing, Solve, Move, Ask
<1>2. CASE Obeys(s) \/ Leaves(s) BY <1>2 DEF Obeys, Leaves, drawing, Obey, Replace
<1>3. CASE Finds(s) \/ Splinters(s) \/ Drops(s)
  BY <1>3 DEF Finds, Splinters, Drops, drawing, vars
<1> QED BY <1>1, <1>2, <1>3

\* The types of the picture, and the ranks of its statuses, are kept by every report.
LEMMA RanksCollected ==
  ASSUME PictureTypes, Ranks, stale' \in BOOLEAN,
         NEW says, NEW from \in Path, NEW to \in Path, NEW parts \in Nat, Collect(says, from, to, parts)
  PROVE  PictureTypes' /\ Ranks'
<1>1. /\ keys' \in Seq(Path) /\ \A k : Key(k)' <=> Key(k) \/ k \in {to, from}
      /\ \A i, j \in 1..Len(keys') : keys'[i] = keys'[j] => i = j
  BY CollectKeys DEF Ranks
<1>2. /\ rank' = Ranked(says) /\ rank' \in Nat /\ rank \in Nat
      /\ \A k \in Path : Found(k) \in Entries
      /\ \A k \in Path : Key(k)' =>
           /\ entry'[k] \in Entries
           /\ entry'[k] = IF k = to THEN Reported(says, Found(k), parts) ELSE Found(k)
  BY CollectEntries DEF PictureTypes
<1>3. \A k \in Path : Found(k).rank \in Nat /\ Found(k).rank <= rank
  BY <1>2 DEF Found, Blank, Entries, Ranks
<1>4. /\ \A k \in Path : (Key(k)' /\ k # to) => entry'[k] = Found(k)
      /\ Key(to)' /\ entry'[to].rank = rank'
      /\ entry'[to].colour = "green" => rank' = rank + 1
      /\ rank <= rank'
  <2>1. Key(to)' BY <1>1
  <2>2. entry'[to] = Reported(says, Found(to), parts) BY <1>2, <2>1
  <2>3. entry'[to].rank = rank' /\ (entry'[to].colour = "green" => says = "status") BY <1>2, <2>2 DEF Reported
  <2>4. rank <= rank' /\ (says = "status" => rank' = rank + 1) BY <1>2 DEF Ranked
  <2>5. \A k \in Path : (Key(k)' /\ k # to) => entry'[k] = Found(k) BY <1>2
  <2> QED BY <2>1, <2>3, <2>4, <2>5
<1>5. \A k \in Path : Key(k)' => entry'[k].rank <= rank' /\ (k # to => entry'[k].rank <= rank)
  BY <1>2, <1>3, <1>4
<1>6. \A k \in Path : (Key(k)' /\ k # to /\ entry'[k].colour = "green") => Key(k) /\ entry'[k] = entry[k]
  BY <1>4 DEF Found, Blank
<1>7. ASSUME NEW k \in Path, NEW l \in Path, Key(k)', Key(l)', entry'[k].colour = "green",
             entry'[l].colour = "green", entry'[k].rank = entry'[l].rank
      PROVE  k = l
  <2>1. CASE k # to /\ l # to BY <1>6, <1>7, <2>1 DEF Ranks, Green
  <2>2. CASE k = to /\ l # to BY <1>2, <1>4, <1>5, <1>7, <2>2
  <2>3. CASE k # to /\ l = to BY <1>2, <1>4, <1>5, <1>7, <2>3
  <2> QED BY <2>1, <2>2, <2>3
<1>8. PictureTypes' BY <1>1, <1>2 DEF PictureTypes
<1>9. Ranks' BY <1>1, <1>5, <1>7 DEF Ranks, Green
<1> QED BY <1>8, <1>9

LEMMA RanksStep ==
  ASSUME MovesInv, OutTypes, PictureTypes, Ranks, DisplayNext
  PROVE  PictureTypes' /\ Ranks'
<1>1. TypeInv /\ stale \in BOOLEAN BY DEF MovesInv, PictureTypes
<1>2. (UNCHANGED <<keys, entry, rank, stale>>) => PictureTypes' /\ Ranks'
  BY DEF PictureTypes, Ranks, Key, Green
<1>3. ASSUME NEW s \in Solver, \/ Starts(s) \/ Goes(s) \/ Asks(s) \/ Obeys(s) \/ Finds(s) \/ Splinters(s)
                               \/ Leaves(s) \/ Drops(s)
      PROVE  PictureTypes' /\ Ranks'
  <2>1. UNCHANGED <<keys, entry, rank, stale>> BY <1>3, Undrawn
  <2> QED BY <1>2, <2>1
<1>4. ASSUME NEW i \in Instance, Begins(i) PROVE PictureTypes' /\ Ranks'
  BY <1>2, <1>4 DEF Begins, drawing
<1>5. CASE Ends
  <2>1. keys' = <<>> /\ rank' = 0 /\ stale' = FALSE BY <1>5 DEF Ends, Cleared
  <2>2. <<>> \in Seq(Path) /\ 1..Len(keys') = {} BY <2>1
  <2>3. \A k : ~Key(k)' BY <2>2 DEF Key
  <2>4. PictureTypes' BY <2>1, <2>2, <2>3 DEF PictureTypes
  <2>5. Ranks' BY <2>2, <2>3 DEF Ranks
  <2> QED BY <2>4, <2>5
<1>6. ASSUME NEW s \in Solver, ReadStatus(s) \/ ReadParts(s) \/ ReadOther(s)
      PROVE  PictureTypes' /\ Ranks'
  <2> DEFINE m == Head(out[s])
  <2>1. /\ m \in Reports /\ <<>> \in Path /\ stale' = (stale \/ node[s] = None)
        /\ \E says : \E from \in {<<>>, m.from} : \E parts \in Nat : Collect(says, from, m.to, parts)
    BY <1>1, <1>6, ReadCollects
  <2>2. PICK says : \E from \in {<<>>, m.from} : \E parts \in Nat : Collect(says, from, m.to, parts)
    BY <2>1
  <2>3. PICK from \in {<<>>, m.from} : \E parts \in Nat : Collect(says, from, m.to, parts) BY <2>2
  <2>4. PICK parts \in Nat : Collect(says, from, m.to, parts) BY <2>3
  <2>5. from \in Path /\ m.to \in Path BY <2>1 DEF Reports
  <2>6. stale' \in BOOLEAN BY <1>1, <2>1, Zenon
  <2> QED BY <2>4, <2>5, <2>6, RanksCollected
<1> QED BY <1>3, <1>4, <1>5, <1>6 DEF DisplayNext

\* A node below the root of an SMT instance is a part of a node of its tree.
LEMMA HasParent ==
  ASSUME tree \in SUBSET Path, Rooted, kind.type = "smt", NEW m \in tree, m # <<>>
  PROVE  \E n \in tree : \E i, x \in Nat : m = Child(n, i, x)
<1>1. m \in Path /\ m \in Seq(Nat) /\ Len(m) \in Nat /\ Len(m) # 0 BY DEF Path
<1>2. Len(m) % 2 = 0 /\ \A k \in 0..Len(m) : k % 2 = 0 => Prefix(m, k) \in tree BY DEF Rooted
<1> DEFINE l == Len(m) - 2
           n == Prefix(m, l)
<1>3. l \in 0..Len(m) /\ l % 2 = 0 BY <1>1, <1>2
<1>4. n \in tree BY <1>2, <1>3
<1>5. n \in Path /\ Len(n) = l /\ \A i \in 1..l : n[i] = m[i] BY <1>1, <1>3, PrefixType DEF Path
<1> HIDE DEF n
<1>6. Len(m) = Len(n) + 2 /\ IsAncestor(n, m) BY <1>1, <1>3, <1>5 DEF IsAncestor
<1>7. \E i, x \in Nat : m = Child(n, i, x) BY <1>1, <1>5, <1>6, ChildOf
<1> QED BY <1>4, <1>7

\* The OR nodes of an open node are those that are drawn below it.
LEMMA DrawnOR ==
  ASSUME tree \in SUBSET Path, PictureTypes, Rooted, PartsInv, kind.type = "smt",
         NEW n \in tree, n \notin solved, NEW i \in Nat
  PROVE  HasOR(n, i) <=> i < Len(Found(n).parts)
<1>1. n \in Path /\ Len(n) \in Nat /\ n \in Seq(Nat) BY DEF Path
<1>2. ASSUME HasOR(n, i) PROVE i < Len(Found(n).parts)
  <2>1. PICK m \in tree : IsAncestor(Append(n, i), m) BY <1>2 DEF HasOR
  <2>2. m \in Seq(Nat) /\ Len(m) \in Nat /\ Len(m) % 2 = 0 /\ Len(n) % 2 = 0 BY DEF Path, Rooted
  <2>3. /\ Len(Append(n, i)) = Len(n) + 1 /\ Append(n, i)[Len(n) + 1] = i
        /\ \A k \in 1..Len(n) : Append(n, i)[k] = n[k]
    BY <1>1, AppendProperties
  <2>4. Len(m) >= Len(n) + 1 /\ \A k \in 1..Len(n) + 1 : m[k] = Append(n, i)[k]
    BY <2>1, <2>3 DEF IsAncestor
  <2>5. Len(n) + 2 \in 0..Len(m) /\ (Len(n) + 2) % 2 = 0
    <3>1. \A k, l \in Nat : (k % 2 = 0 /\ l % 2 = 0 /\ l >= k + 1) => k + 2 <= l /\ (k + 2) % 2 = 0
      OBVIOUS
    <3>2. Len(n) + 2 <= Len(m) /\ (Len(n) + 2) % 2 = 0 BY <1>1, <2>2, <2>4, <3>1
    <3> QED BY <1>1, <2>2, <3>2
  <2> DEFINE c == Prefix(m, Len(n) + 2)
  <2>6. c \in tree BY <2>2, <2>5 DEF Rooted
  <2>7. c \in Path /\ Len(c) = Len(n) + 2 /\ \A k \in 1..Len(n) + 2 : c[k] = m[k]
    BY <2>2, <2>5, PrefixType DEF Path
  <2> HIDE DEF c
  <2>8. \A k \in 1..Len(n) : k \in 1..Len(n) + 1 /\ k \in 1..Len(n) + 2 BY <1>1
  <2>9. IsAncestor(n, c)
    <3>1. Len(n) <= Len(c) BY <1>1, <2>7
    <3> QED BY <2>3, <2>4, <2>7, <2>8, <3>1 DEF IsAncestor
  <2>10. PICK j \in Nat : \E x \in Nat : c = Child(n, j, x) BY <1>1, <2>7, <2>9, ChildOf
  <2>11. PICK x \in Nat : c = Child(n, j, x) BY <2>10
  <2>12. j = i
    <3>1. n \in Path /\ j \in Nat /\ x \in Nat BY <1>1
    <3>2. Child(n, j, x)[Len(n) + 1] = j BY ONLY <3>1, ChildIs
    <3>3. Len(n) + 1 \in 1..Len(n) + 1 /\ Len(n) + 1 \in 1..Len(n) + 2 BY <1>1
    <3> QED BY <2>3, <2>4, <2>7, <2>11, <3>2, <3>3
  <2>13. Key(n) /\ HasParts(n, i, x) BY <1>1, <2>6, <2>11, <2>12 DEF PartsInv
  <2> QED BY <2>13 DEF HasParts, Found
<1>3. ASSUME i < Len(Found(n).parts) PROVE HasOR(n, i)
  <2>1. Key(n)
    <3>1. ~Key(n) => Len(Found(n).parts) = 0 BY DEF Found, Blank
    <3> QED BY <1>3, <3>1
  <2> DEFINE ps == entry[n].parts
  <2>2. ps \in Seq(Nat) /\ i < Len(ps) BY <1>1, <1>3, <2>1 DEF Found, PictureTypes, Entries
  <2>3. \A k \in 1..Len(ps) : ps[k] > 0 BY <1>1, <2>1 DEF PartsInv
  <2>4. i < Len(ps) /\ 0 < ps[i + 1]
    <3> HIDE DEF ps
    <3>1. i + 1 \in 1..Len(ps) BY <2>2
    <3>2. ps[i + 1] \in Nat BY <2>2, <3>1
    <3> QED BY <2>2, <2>3, <3>1, <3>2
  <2>5. HasParts(n, i, 0) BY <2>4 DEF HasParts
  <2>6. Child(n, i, 0) \in tree BY <1>1, <2>1, <2>5 DEF PartsInv
  <2>7. IsAncestor(Append(n, i), Child(n, i, 0)) BY <1>1, ChildBelow
  <2> QED BY <2>6, <2>7 DEF HasOR
<1> QED BY <1>2, <1>3

\* A report adds the parts it brings to its node and changes no others.
LEMMA PartsCollected ==
  ASSUME PictureTypes, NEW says, NEW from \in Path, NEW to \in Path, NEW parts \in Nat,
         Collect(says, from, to, parts), NEW k \in Path, Key(k)', NEW i \in Nat, NEW x \in Nat
  PROVE  HasParts(k, i, x)' <=>
           \/ Key(k) /\ HasParts(k, i, x)
           \/ k = to /\ parts > 0 /\ i = Len(Found(k).parts) /\ x < parts
<1>1. /\ Found(k) \in Entries
      /\ entry'[k] = IF k = to THEN Reported(says, Found(k), parts) ELSE Found(k)
  BY CollectEntries
<1> DEFINE ps == Found(k).parts
           qs == entry'[k].parts
<1>2. ps \in Seq(Nat) /\ Len(ps) \in Nat BY <1>1 DEF Entries
<1>3. i < Len(ps) /\ x < ps[i + 1] <=> Key(k) /\ HasParts(k, i, x)
  <2>1. ~Key(k) => Len(ps) = 0 BY DEF Found, Blank
  <2>2. Key(k) => ps = entry[k].parts BY DEF Found
  <2> HIDE DEF ps
  <2> QED BY <1>2, <2>1, <2>2 DEF HasParts
<1>4. HasParts(k, i, x)' <=> i < Len(qs) /\ x < qs[i + 1] BY DEF HasParts
<1>5. qs = IF k = to /\ parts > 0 THEN Append(ps, parts) ELSE ps BY <1>1 DEF Reported
<1> HIDE DEF ps, qs
<1>6. CASE ~(k = to /\ parts > 0) BY <1>3, <1>4, <1>5, <1>6 DEF ps
<1>7. CASE k = to /\ parts > 0
  <2>1. /\ Len(qs) = Len(ps) + 1 /\ qs[Len(ps) + 1] = parts
        /\ \A j \in 1..Len(ps) : qs[j] = ps[j]
    BY <1>2, <1>5, <1>7, AppendProperties
  <2>2. CASE i < Len(ps)
    <3>1. i + 1 \in 1..Len(ps) BY <1>2, <2>2
    <3>2. qs[i + 1] = ps[i + 1] /\ i < Len(qs) BY <1>2, <2>1, <2>2, <3>1
    <3>3. i # Len(ps) BY <1>2, <2>2
    <3> QED BY <1>3, <1>4, <2>2, <3>2, <3>3 DEF ps
  <2>3. CASE i = Len(ps)
    <3>1. ~(i < Len(ps)) /\ i < Len(qs) /\ qs[i + 1] = parts BY <1>2, <2>1, <2>3
    <3> QED BY <1>3, <1>4, <1>7, <2>3, <3>1 DEF ps
  <2>4. CASE i > Len(ps)
    <3>1. ~(i < Len(ps)) /\ ~(i < Len(qs)) /\ i # Len(ps) BY <1>2, <2>1, <2>4
    <3> QED BY <1>3, <1>4, <3>1 DEF ps
  <2> QED BY <1>2, <2>2, <2>3, <2>4
<1> QED BY <1>6, <1>7

\* The picture keeps the parts of the tree, if the parts that a report brings are in the
\* tree that it leaves or its node is closed.
LEMMA PartsKept ==
  ASSUME PictureTypes, PartsInv, kind' = kind, tree \subseteq tree', solved \subseteq solved',
         NEW says, NEW from \in Path, NEW to \in Path, NEW parts \in Nat, Collect(says, from, to, parts),
         \A n \in Path : \A i, x \in Nat : Child(n, i, x) \in tree' =>
            \/ Child(n, i, x) \in tree
            \/ n = to /\ parts > 0 /\ i = Len(Found(to).parts) /\ x < parts,
         parts > 0 =>
            to \in solved' \/ \A x \in Nat : x < parts => Child(to, Len(Found(to).parts), x) \in tree'
  PROVE  PartsInv'
<1> SUFFICES ASSUME kind.type = "smt" PROVE PartsInv' BY DEF PartsInv
<1>1. \A k : Key(k)' <=> Key(k) \/ k \in {to, from} BY CollectKeys
<1>2. \A k \in Path : Key(k)' =>
        entry'[k] = IF k = to THEN Reported(says, Found(k), parts) ELSE Found(k)
  BY CollectEntries
<1>3. \A k \in Path : Key(k)' => \A i, x \in Nat : HasParts(k, i, x)' <=>
        \/ Key(k) /\ HasParts(k, i, x)
        \/ k = to /\ parts > 0 /\ i = Len(Found(k).parts) /\ x < parts
  BY PartsCollected
<1>4. \A k \in Path : Found(k) \in Entries BY CollectEntries
<1>5. ASSUME NEW n \in Path, NEW i \in Nat, NEW x \in Nat, Child(n, i, x) \in tree'
      PROVE  Key(n)' /\ HasParts(n, i, x)'
  <2>1. CASE Child(n, i, x) \in tree
    <3>1. Key(n) /\ HasParts(n, i, x) BY <2>1 DEF PartsInv
    <3> QED BY <1>1, <1>3, <3>1
  <2>2. CASE n = to /\ parts > 0 /\ i = Len(Found(to).parts) /\ x < parts
    BY <1>1, <1>3, <2>2
  <2> QED BY <1>5, <2>1, <2>2
<1>6. ASSUME NEW n \in Path, n \notin solved', Key(n)', NEW i \in Nat, NEW x \in Nat, HasParts(n, i, x)'
      PROVE  Child(n, i, x) \in tree'
  <2>1. CASE Key(n) /\ HasParts(n, i, x)
    <3>1. n \notin solved BY <1>6
    <3>2. Child(n, i, x) \in tree BY <2>1, <3>1 DEF PartsInv
    <3> QED BY <3>2
  <2>2. CASE n = to /\ parts > 0 /\ i = Len(Found(n).parts) /\ x < parts
    BY <1>6, <2>2
  <2> QED BY <1>3, <1>6, <2>1, <2>2
<1>7. ASSUME NEW n \in Path, Key(n)', NEW i \in 1..Len(entry'[n].parts) PROVE entry'[n].parts[i] > 0
  <2> DEFINE ps == Found(n).parts
             qs == entry'[n].parts
  <2>1. ps \in Seq(Nat) /\ Len(ps) \in Nat BY <1>4 DEF Entries
  <2>2. \A j \in 1..Len(ps) : ps[j] > 0
    <3>1. CASE Key(n)
      <4>1. ps = entry[n].parts BY <3>1 DEF Found
      <4> QED BY <3>1, <4>1 DEF PartsInv
    <3>2. CASE ~Key(n)
      <4>1. ps = <<>> BY <3>2 DEF Found, Blank
      <4> QED BY <4>1
    <3> QED BY <3>1, <3>2
  <2>3. qs = ps \/ (parts > 0 /\ qs = Append(ps, parts))
    <3>1. entry'[n] = IF n = to THEN Reported(says, Found(n), parts) ELSE Found(n) BY <1>2, <1>7
    <3>2. parts = 0 \/ parts > 0 OBVIOUS
    <3> QED BY <3>1, <3>2 DEF Reported
  <2>4. i \in 1..Len(qs) OBVIOUS
  <2> HIDE DEF ps, qs
  <2>5. CASE qs = ps BY <2>2, <2>4, <2>5 DEF qs
  <2>6. CASE parts > 0 /\ qs = Append(ps, parts)
    <3>1. /\ Len(qs) = Len(ps) + 1 /\ qs[Len(ps) + 1] = parts
          /\ \A j \in 1..Len(ps) : qs[j] = ps[j]
      BY <2>1, <2>6, AppendProperties
    <3>2. i \in 1..Len(ps) \/ i = Len(ps) + 1 BY <2>1, <2>4, <3>1
    <3>3. qs[i] > 0 BY <2>2, <2>6, <3>1, <3>2
    <3> QED BY <3>3 DEF qs
  <2>7. qs[i] > 0 BY <2>2, <2>3, <2>4, <2>5, <2>6 DEF qs
  <2> QED BY <2>7 DEF qs
<1> QED BY <1>5, <1>6, <1>7 DEF PartsInv

\* A report about nodes of the tree leaves every key with an alias.
LEMMA ParentsKept ==
  ASSUME tree \in SUBSET Path, PictureTypes, Rooted, PartsInv, Parented,
         NEW says, NEW from \in Path, NEW to \in Path, NEW parts \in Nat, Collect(says, from, to, parts),
         Here(from), Here(to)
  PROVE  Parented'
<1>1. /\ keys \in Seq(Path) /\ Len(keys) \in Nat /\ Len(keys') \in Nat /\ Len(keys) <= Len(keys')
      /\ \A i \in 1..Len(keys) : keys'[i] = keys[i]
      /\ \A i \in 1..Len(keys') : i > Len(keys) => keys'[i] \in {to, from}
      /\ \A k : Key(k)' <=> Key(k) \/ k \in {to, from}
  <2>1. keys' \in Seq(Path) BY CollectKeys
  <2>2. keys \in Seq(Path) BY DEF PictureTypes
  <2>3. Len(keys) \in Nat /\ Len(keys') \in Nat BY <2>1, <2>2
  <2>4. /\ Len(keys) <= Len(keys')
        /\ \A i \in 1..Len(keys) : keys'[i] = keys[i]
        /\ \A i \in 1..Len(keys') : i > Len(keys) => keys'[i] \in {to, from}
        /\ \A k : Key(k)' <=> Key(k) \/ k \in {to, from}
    BY CollectKeys
  <2> QED BY <2>2, <2>3, <2>4
<1>2. \A k \in Path : Key(k) => \A i, x \in Nat : HasParts(k, i, x) => HasParts(k, i, x)'
  BY <1>1, PartsCollected
<1>3. ASSUME NEW i \in 1..Len(keys'), NEW j \in 1..Len(keys), j < i, NEW y \in Nat, NEW x \in Nat,
             HasParts(keys[j], y, x), keys'[i] = Child(keys[j], y, x)
      PROVE  \E l \in 1..i - 1 : \E b, a \in Nat :
               HasParts(keys[l], b, a)' /\ keys'[i] = Child(keys'[l], b, a)
  <2>1. keys[j] \in Path /\ Key(keys[j]) BY <1>1 DEF Key
  <2>3. j \in 1..i - 1 /\ keys'[j] = keys[j] BY <1>1, <1>3
  <2>2. HasParts(keys[j], y, x)'
    <3>1. PICK k \in Path : k = keys[j] BY <2>1
    <3>2. HasParts(k, y, x)' BY <1>2, <1>3, <2>1, <3>1
    <3> QED BY <2>3, <3>1, <3>2 DEF HasParts
  <2> QED BY <1>3, <2>2, <2>3
<1>4. ASSUME NEW i \in 1..Len(keys'), keys'[i] # <<>>
      PROVE  \E j \in 1..Len(keys) : j < i /\ \E y, x \in Nat :
               HasParts(keys[j], y, x) /\ keys'[i] = Child(keys[j], y, x)
  <2>1. CASE i \in 1..Len(keys)
    <3>1. keys'[i] = keys[i] BY <1>1, <2>1
    <3>2. \A j \in 1..i - 1 : j \in 1..Len(keys) /\ j < i BY <1>1, <2>1
    <3> QED BY <1>4, <2>1, <3>1, <3>2 DEF Parented
  <2>2. CASE i > Len(keys)
    <3> DEFINE n == keys'[i]
    <3>1. n \in tree /\ kind.type = "smt" BY <1>1, <1>4, <2>2 DEF Here
    <3>2. PICK p \in tree : \E y, x \in Nat : n = Child(p, y, x) BY <1>4, <3>1, HasParent
    <3>3. PICK y \in Nat : \E x \in Nat : n = Child(p, y, x) BY <3>2
    <3>4. PICK x \in Nat : n = Child(p, y, x) BY <3>3
    <3>5. Key(p) /\ HasParts(p, y, x) BY <3>1, <3>4 DEF PartsInv
    <3>6. PICK j \in 1..Len(keys) : keys[j] = p BY <3>5 DEF Key
    <3>7. j < i BY <1>1, <2>2
    <3> QED BY <3>4, <3>5, <3>6, <3>7
  <2> QED BY <1>1, <2>1, <2>2
<1>5. ASSUME NEW i \in 1..Len(keys'), keys'[i] # <<>>
      PROVE  \E l \in 1..i - 1 : \E b, a \in Nat :
               HasParts(keys[l], b, a)' /\ keys'[i] = Child(keys'[l], b, a)
  <2>1. PICK j \in 1..Len(keys) : j < i /\ \E y, x \in Nat :
               HasParts(keys[j], y, x) /\ keys'[i] = Child(keys[j], y, x)
    BY <1>4, <1>5
  <2>2. PICK y \in Nat : \E x \in Nat : HasParts(keys[j], y, x) /\ keys'[i] = Child(keys[j], y, x)
    BY <2>1
  <2>3. PICK x \in Nat : HasParts(keys[j], y, x) /\ keys'[i] = Child(keys[j], y, x) BY <2>2
  <2> QED BY <1>3, <2>1, <2>3
<1> QED BY <1>5, Zenon DEF Parented, Child

\* What is known of the picture is that of a drawable one.
LEMMA ParentedDrawable ==
  ASSUME PictureTypes, Parented
  PROVE  Drawable
<1> SUFFICES ASSUME NEW i \in 1..Len(keys), keys[i] # <<>>
             PROVE  \E j \in 1..i - 1 : keys[i] \in PartsDrawn(keys[j])
  BY DEF Drawable
<1>1. PICK j \in 1..i - 1 : \E y, x \in Nat : HasParts(keys[j], y, x) /\ keys[i] = Child(keys[j], y, x)
  BY DEF Parented
<1>2. keys \in Seq(Path) /\ Len(keys) \in Nat BY DEF PictureTypes
<1>3. j \in 1..Len(keys) BY <1>2
<1>4. keys[j] \in Path /\ Key(keys[j]) BY <1>2, <1>3 DEF Key
<1>5. entry[keys[j]] \in Entries BY <1>4 DEF PictureTypes
<1> QED BY <1>1, <1>4, <1>5, DrawnIs

\* A report of the current instance about nodes of its tree keeps the picture true.
LEMMA DrawCollected ==
  ASSUME tree \in SUBSET Path, PictureTypes, Rooted, DrawInv, ~stale, root # None, root' = root, kind' = kind,
         tree \subseteq tree', solved \subseteq solved',
         NEW says, NEW from \in Path, NEW to \in Path, NEW parts \in Nat, Collect(says, from, to, parts),
         Here(from), Here(to), Ending' => says = "status",
         \A n \in Path : \A i, x \in Nat : Child(n, i, x) \in tree' =>
            \/ Child(n, i, x) \in tree
            \/ n = to /\ parts > 0 /\ i = Len(Found(to).parts) /\ x < parts,
         parts > 0 =>
            to \in solved' \/ \A x \in Nat : x < parts => Child(to, Len(Found(to).parts), x) \in tree'
  PROVE  DrawInv'
<1>1. PartsInv /\ Parented /\ \A k \in Path : Key(k) => Here(k) BY DEF DrawInv
<1>2. PartsInv' BY <1>1, PartsKept
<1>3. Parented' BY <1>1, ParentsKept
<1>4. \A k : Key(k)' <=> Key(k) \/ k \in {to, from} BY CollectKeys
<1>5. \A k \in Path : Key(k)' => Here(k)'
  <2>1. \A n : Here(n) => Here(n)' BY HereKept
  <2> QED BY <1>1, <1>4, <2>1
<1>6. ASSUME says = "status" PROVE \E k \in Path : Key(k)' /\ Green(k)' /\ entry'[k].rank = rank'
  <2>1. Key(to)' BY <1>4
  <2>2. entry'[to] = Reported(says, Found(to), parts) /\ rank' = Ranked(says)
    <3>1. /\ rank' = Ranked(says)
          /\ \A k \in Path : Key(k)' =>
               entry'[k] = IF k = to THEN Reported(says, Found(k), parts) ELSE Found(k)
      BY CollectEntries
    <3> QED BY <2>1, <3>1
  <2>3. entry'[to].colour = "green" /\ entry'[to].rank = rank' BY <1>6, <2>2 DEF Reported
  <2> QED BY <2>1, <2>3 DEF Green
<1> QED BY <1>2, <1>3, <1>5, <1>6 DEF DrawInv

LEMMA DrawStep ==
  ASSUME MovesInv, OutTypes, PictureTypes, Rooted, WayInv, DrawInv, DisplayNext
  PROVE  DrawInv'
<1>1. TypeInv /\ tree \in SUBSET Path /\ NodeInv BY DEF MovesInv, TypeInv
<1>2. ASSUME keys' = <<>>, solved' = {}, kind'.type = "smt" => tree' = {<<>>} PROVE DrawInv'
  <2>1. 1..Len(keys') = {} BY <1>2
  <2>2. \A k : ~Key(k)' BY <2>1 DEF Key
  <2>3. Parented' BY <2>1 DEF Parented
  <2>4. ~Ending' BY <1>2 DEF Ending
  <2>5. ASSUME NEW n \in Path, NEW i \in Nat, NEW x \in Nat PROVE Child(n, i, x) # <<>>
    <3>1. n \in Path /\ i \in Nat /\ x \in Nat OBVIOUS
    <3>2. Len(n) \in Nat /\ Len(Child(n, i, x)) = Len(n) + 2 BY ONLY <3>1, ChildIs
    <3>3. Len(Child(n, i, x)) # 0 BY <3>2
    <3>4. Len(<<>>) = 0 OBVIOUS
    <3> QED BY <3>3, <3>4
  <2>6. PartsInv' BY <1>2, <2>2, <2>5 DEF PartsInv
  <2> QED BY <1>2, <2>2, <2>3, <2>4, <2>6 DEF DrawInv
<1>3. (UNCHANGED <<root, kind, tree, solved, keys, entry, rank, stale>>) => DrawInv'
  BY DEF DrawInv, Key, Here, PartsInv, HasParts, Parented, Ending, Green
<1>4. ASSUME NEW s \in Solver, \/ Starts(s) \/ Goes(s) \/ Asks(s) \/ Obeys(s) \/ Finds(s) \/ Splinters(s)
                               \/ Leaves(s) \/ Drops(s)
      PROVE  DrawInv'
  BY <1>3, <1>4, Undrawn
<1>5. ASSUME NEW i \in Instance, Begins(i) PROVE DrawInv'
  <2>1. root = None /\ keys' = keys /\ stale' = stale /\ solved' = {} BY <1>5 DEF Begins, Parse, drawing
  <2>2. CASE stale BY <2>1, <2>2 DEF DrawInv
  <2>3. CASE ~stale
    <3>1. keys' = <<>> BY <2>1, <2>3 DEF DrawInv
    <3>2. kind'.type = "smt" => tree' = {<<>>} BY <1>5 DEF Begins, Parse
    <3> QED BY <1>2, <2>1, <3>1, <3>2
  <2> QED BY <2>2, <2>3
<1>6. CASE Ends
  <2>1. keys' = <<>> /\ solved' = {} /\ tree' = {<<>>} BY <1>6 DEF Ends, End, Cleared
  <2> QED BY <1>2, <2>1
<1>7. ASSUME NEW s \in Solver, ReadStatus(s) \/ ReadParts(s) \/ ReadOther(s) PROVE DrawInv'
  <2> DEFINE m == Head(out[s])
  <2>1. m \in Reports /\ <<>> \in Path /\ stale' = (stale \/ node[s] = None)
    BY <1>1, <1>7, ReadCollects
  <2> SUFFICES ASSUME ~stale' PROVE DrawInv' BY DEF DrawInv
  <2>2. ~stale /\ node[s] # None BY <2>1
  <2>3. Reads(s) /\ Accepts(s, m) BY <1>7 DEF ReadStatus, ReadParts, ReadOther, Passes
  <2>4. m.of = root /\ m.from = node[s] /\ root # None
    BY <1>1, <2>2, <2>3 DEF Accepts, NodeInv
  <2>5. Here(m.from) /\ Here(m.to) /\ Here(<<>>)
    <3>1. m = out[s][1] /\ 1 \in 1..Len(out[s]) BY <2>3, ReadsEffect
    <3>2. Tells(m) BY <3>1 DEF WayInv
    <3> QED BY <2>4, <3>2 DEF Tells, Named, Here, Rooted
  <2>6. m.from \in Path /\ m.to \in Path BY <2>1 DEF Reports
  <2>7. ~Ending
    <3>1. Drawable BY <2>2, ParentedDrawable DEF DrawInv
    <3> QED BY <2>3, <3>1 DEF Reads
  <2>8. 0 \in Nat /\ ~(0 > 0) OBVIOUS
  <2>9. CASE ReadStatus(s)
    <3>1. UNCHANGED <<root, kind, tree>> /\ Collect("status", <<>>, m.to, 0) BY <2>9 DEF ReadStatus, vars
    <3>2. solved \subseteq solved' BY <2>9 DEF ReadStatus, Closes
    <3> HIDE DEF m
    <3> QED BY <1>1, <2>1, <2>2, <2>4, <2>5, <2>6, <2>8, <3>1, <3>2, DrawCollected
  <2>10. CASE ReadOther(s)
    <3>1. /\ UNCHANGED <<root, kind, tree, solved>>
          /\ \E says, from : from \in {<<>>, m.from} /\ Collect(says, from, m.to, 0)
      BY <2>10 DEF ReadOther, vars
    <3>2. ~Ending' BY <2>7, <3>1 DEF Ending
    <3>3. PICK says, from : from \in {<<>>, m.from} /\ Collect(says, from, m.to, 0) BY <3>1
    <3>4. from \in Path /\ Here(from) BY <2>1, <2>5, <2>6, <3>3
    <3> HIDE DEF m
    <3> QED BY <1>1, <2>1, <2>2, <2>4, <2>5, <2>6, <2>8, <3>1, <3>2, <3>3, <3>4, DrawCollected
  <2>11. CASE ReadParts(s)
    <3>1. m.to = node[s] /\ solved' = solved
      BY <2>1, <2>4, <2>11 DEF ReadParts, Passes, Reports
    <3>2. CASE \E c \in 0..K : (c = 0 \/ node[s] \in solved) /\ UNCHANGED vars
                               /\ Collect("parts", <<>>, m.to, c)
      <4>1. 0..K \subseteq Nat BY MovesAssumption
      <4>2. PICK c \in Nat : (c = 0 \/ node[s] \in solved) /\ UNCHANGED vars /\ Collect("parts", <<>>, m.to, c)
        BY <3>2, <4>1
      <4>3. UNCHANGED <<root, kind, tree>> BY <4>2 DEF vars
      <4>4. ~Ending' BY <2>7, <3>1, <4>3 DEF Ending
      <4>5. c > 0 => m.to \in solved' BY <3>1, <4>2
      <4> HIDE DEF m
      <4> QED BY <1>1, <2>1, <2>2, <2>4, <2>5, <2>6, <3>1, <4>2, <4>3, <4>4, <4>5, DrawCollected
    <3>3. CASE node[s] \notin solved /\ Expand(node[s])
               /\ Collect("parts", <<>>, m.to, Cardinality(tree' \ tree))
      <4> DEFINE n == m.to
                 l == Len(Found(n).parts)
      <4>1. n \in tree /\ n \in Path /\ n \notin solved /\ Expand(n) /\ kind.type = "smt"
            /\ UNCHANGED <<root, kind>>
        <5>1. n = node[s] /\ n \in Path BY <2>6, <3>1
        <5> HIDE DEF n
        <5>2. Expand(n) /\ n \notin solved BY <3>3, <5>1, Zenon
        <5> QED BY <5>1, <5>2 DEF Expand
      <4>2. Collect("parts", <<>>, n, Cardinality(tree' \ tree)) BY <3>3
      <4> HIDE DEF n
      <4>3. PICK j \in Nat, c \in Nat :
              /\ c > 0 /\ ~HasOR(n, j) /\ \A i \in 0..j - 1 : HasOR(n, i)
              /\ tree' = tree \cup {Child(n, j, x) : x \in 0..c - 1}
              /\ Cardinality(tree' \ tree) = c
        BY <1>1, <4>1, ExpandEffect
      <4>4. j = l
        <5>1. PartsInv BY <2>2 DEF DrawInv
        <5>2. \A i \in Nat : HasOR(n, i) <=> i < l BY <1>1, <4>1, <5>1, DrawnOR
        <5>3. l \in Nat
          <6>1. Found(n).parts \in Seq(Nat)
            <7>1. <<>> \in Seq(Nat) OBVIOUS
            <7> QED BY <4>1, <7>1 DEF Found, Blank, PictureTypes, Entries
          <6> QED BY <6>1
        <5> HIDE DEF l
        <5>4. ~(j < l) BY <4>3, <5>2
        <5>5. ~(l < j)
          <6>1. (l < j) => l \in 0..j - 1 BY <5>3
          <6>2. ~(l < l) BY <5>3
          <6> QED BY <4>3, <5>2, <5>3, <6>1, <6>2
        <5> QED BY <5>3, <5>4, <5>5
      <4> HIDE DEF l
      <4>5. \A q \in Path : \A i, x \in Nat : Child(q, i, x) \in tree' =>
              \/ Child(q, i, x) \in tree
              \/ q = n /\ c > 0 /\ i = l /\ x < c
        <5> SUFFICES ASSUME NEW q \in Path, NEW i \in Nat, NEW x \in Nat, NEW y \in 0..c - 1,
                            Child(q, i, x) = Child(n, j, y)
                     PROVE  q = n /\ c > 0 /\ i = l /\ x < c
          BY <4>3
        <5>1. q \in Path /\ i \in Nat /\ x \in Nat /\ n \in Path /\ j \in Nat /\ y \in Nat BY <4>1
        <5>2. Child(q, i, x) = Child(n, j, y) OBVIOUS
        <5>3. q = n /\ i = j /\ x = y BY ONLY <5>1, <5>2, ChildOnce
        <5> QED BY <4>3, <4>4, <5>3
      <4>6. \A x \in Nat : x < c => Child(n, l, x) \in tree' BY <4>3, <4>4
      <4>7. ~Ending' BY <2>7, <3>1, <4>1 DEF Ending
      <4>8. tree \subseteq tree' BY <4>3
      <4>9. Collect("parts", <<>>, n, c) BY <4>2, <4>3
      <4>10. Here(n) BY <2>5 DEF n
      <4> HIDE DEF m
      <4> QED BY <1>1, <2>1, <2>2, <2>4, <2>5, <3>1, <4>1, <4>5, <4>6, <4>7, <4>8, <4>9, <4>10,
                 DrawCollected DEF l
    <3> QED BY <2>11, <3>2, <3>3 DEF ReadParts
  <2> QED BY <1>7, <2>9, <2>10, <2>11
<1> QED BY <1>4, <1>5, <1>6, <1>7 DEF DisplayNext

-----------------------------------------------------------------------------

\* What is under way and what is drawn belong to the tree of their instance.
THEOREM DisplayInvariant == DisplaySpec => []DisplayInv
<1>1. DisplayInit => DisplayInv
  <2> SUFFICES ASSUME DisplayInit PROVE DisplayInv OBVIOUS
  <2>1. /\ root = None /\ kind = [type |-> "smt"] /\ tree = {<<>>} /\ node = [s \in Solver |-> None]
        /\ chan = [s \in Solver |-> <<>>] /\ at = [s \in Solver |-> None]
        /\ out = [s \in Solver |-> <<>>] /\ forked = [s \in Solver |-> FALSE]
        /\ solved = {} /\ keys = <<>> /\ rank = 0 /\ stale = FALSE
    BY DEF DisplayInit, Init
  <2>2. <<>> \in Path /\ <<>> \in Seq(Path) /\ <<>> \in Seq(Reports) /\ Len(<<>>) = 0 BY DEF Path
  <2>3. 1..Len(keys) = {} BY <2>1
  <2>4. \A k : ~Key(k) BY <2>3 DEF Key
  <2>5. OutTypes /\ PictureTypes BY <2>1, <2>2, <2>4 DEF OutTypes, PictureTypes
  <2>6. Rooted
    <3>1. Prefix(<<>>, 0) = <<>> BY DEF Prefix
    <3> QED BY <2>1, <2>2, <3>1 DEF Rooted
  <2>7. WayInv
    <3>1. \A s \in Solver : 1..Len(chan[s]) = {} /\ 1..Len(out[s]) = {} BY <2>1
    <3> QED BY <2>1, <3>1 DEF WayInv
  <2>8. Ranks BY <2>3, <2>4 DEF Ranks
  <2>9. DrawInv
    <3>1. ASSUME NEW n \in Path, NEW i \in Nat, NEW x \in Nat PROVE Child(n, i, x) # <<>>
      <4>1. n \in Path /\ i \in Nat /\ x \in Nat OBVIOUS
      <4>2. Len(n) \in Nat /\ Len(Child(n, i, x)) = Len(n) + 2 BY ONLY <4>1, ChildIs
      <4>3. Len(Child(n, i, x)) # 0 BY <4>2
      <4> QED BY <2>2, <4>3
    <3>2. PartsInv BY <2>1, <2>4, <3>1 DEF PartsInv
    <3>3. Parented BY <2>3 DEF Parented
    <3>4. ~Ending BY <2>1 DEF Ending
    <3> QED BY <2>1, <2>4, <3>2, <3>3, <3>4 DEF DrawInv
  <2> QED BY <2>5, <2>6, <2>7, <2>8, <2>9 DEF DisplayInv
<1>2. MovesInv /\ MovesInv' /\ DisplayInv /\ [DisplayNext]_displayVars => DisplayInv'
  <2> SUFFICES ASSUME MovesInv, MovesInv', DisplayInv, [DisplayNext]_displayVars PROVE DisplayInv' OBVIOUS
  <2> USE DEF DisplayInv
  <2>1. CASE DisplayNext
    <3>1. OutTypes' BY <2>1, OutStep
    <3>2. PictureTypes' /\ Ranks' BY <2>1, RanksStep
    <3>3. Rooted' BY <2>1, RootedStep
    <3>4. WayInv' BY <2>1, <3>1, WayStep
    <3>5. DrawInv' BY <2>1, DrawStep
    <3> QED BY <3>1, <3>2, <3>3, <3>4, <3>5
  <2>2. CASE UNCHANGED displayVars
    <3>1. UNCHANGED <<root, kind, tree, node, chan, at, out, forked, solved, keys, entry, rank, stale>>
      BY <2>2 DEF displayVars, vars, wayBack, drawing
    <3>2. OutTypes' BY <3>1 DEF OutTypes
    <3>3. PictureTypes' BY <3>1 DEF PictureTypes, Key
    <3>4. Rooted' BY <3>1 DEF Rooted
    <3>5. WayInv' BY <3>1 DEF WayInv, Here, Named, Tells
    <3>6. Ranks' BY <3>1 DEF Ranks, Key, Green
    <3>7. DrawInv' BY <3>1 DEF DrawInv, Key, Here, PartsInv, HasParts, Parented, Ending, Green
    <3> QED BY <3>2, <3>3, <3>4, <3>5, <3>6, <3>7
  <2> QED BY <2>1, <2>2
<1> QED BY <1>1, <1>2, DisplayMoves, MovesInvariant, PTL DEF DisplaySpec

\* Unless a report came after the end of the instance before, the picture can be drawn
\* and shows the tree (collectData_vTree, render_vTree).
THEOREM PictureRight == DisplaySpec => []PictureTrue
<1>1. ASSUME MovesInv, DisplayInv PROVE PictureTrue
  <2> SUFFICES ASSUME ~stale
               PROVE  /\ Drawable
                      /\ \A i \in 1..Len(keys) :
                           /\ keys[i] \in tree
                           /\ kind.type = "smt" /\ keys[i] \notin solved =>
                                PartsDrawn(keys[i])
                                  = {m \in tree : Len(m) = Len(keys[i]) + 2 /\ IsAncestor(keys[i], m)}
    BY DEF PictureTrue
  <2>1. /\ PictureTypes /\ keys \in Seq(Path) /\ tree \in SUBSET Path
        /\ PartsInv /\ Parented /\ \A k \in Path : Key(k) => Here(k)
    BY <1>1 DEF DisplayInv, PictureTypes, DrawInv, MovesInv, TypeInv
  <2>2. Drawable BY <2>1, ParentedDrawable
  <2>3. ASSUME NEW k \in Path, Key(k), kind.type = "smt", k \notin solved, NEW m
        PROVE  m \in PartsDrawn(k) <=> m \in tree /\ Len(m) = Len(k) + 2 /\ IsAncestor(k, m)
    <3>1. entry[k] \in Entries BY <2>1, <2>3 DEF PictureTypes
    <3>2. m \in PartsDrawn(k) <=> \E i, x \in Nat : HasParts(k, i, x) /\ m = Child(k, i, x)
      BY <3>1, DrawnIs
    <3>3. ASSUME NEW i \in Nat, NEW x \in Nat
          PROVE  /\ HasParts(k, i, x) <=> Child(k, i, x) \in tree
                 /\ Len(Child(k, i, x)) = Len(k) + 2 /\ IsAncestor(k, Child(k, i, x))
      <4>1. k \in Path /\ i \in Nat /\ x \in Nat OBVIOUS
      <4>2. Len(Child(k, i, x)) = Len(k) + 2 BY ONLY <4>1, ChildIs
      <4>3. HasParts(k, i, x) <=> Child(k, i, x) \in tree BY <2>1, <2>3 DEF PartsInv
      <4> QED BY <4>2, <4>3, ChildBelow
    <3>4. ASSUME m \in tree, Len(m) = Len(k) + 2, IsAncestor(k, m)
          PROVE  \E i, x \in Nat : m = Child(k, i, x)
      BY <2>1, <3>4, ChildOf
    <3> QED BY <3>2, <3>3, <3>4
  <2>4. \A i \in 1..Len(keys) : keys[i] \in Path /\ Key(keys[i]) BY <2>1 DEF Key
  <2>5. \A i \in 1..Len(keys) : keys[i] \in tree BY <2>1, <2>4 DEF Here
  <2>6. ASSUME NEW i \in 1..Len(keys), kind.type = "smt", keys[i] \notin solved
        PROVE  PartsDrawn(keys[i]) = {m \in tree : Len(m) = Len(keys[i]) + 2 /\ IsAncestor(keys[i], m)}
    <3>1. \A m : m \in PartsDrawn(keys[i]) <=>
                   m \in tree /\ Len(m) = Len(keys[i]) + 2 /\ IsAncestor(keys[i], m)
      BY <2>3, <2>4, <2>6
    <3> QED BY <3>1
  <2> QED BY <2>2, <2>5, <2>6
<1> QED BY <1>1, DisplayInvariant, DisplayMoves, MovesInvariant, PTL

\* When a status decided the instance, its node and no other is highlighted
\* (collectData_vTree ranks a status above those before it).
THEOREM DeciderRight == DisplaySpec => []DeciderShown
<1>1. ASSUME DisplayInv PROVE DeciderShown
  <2> SUFFICES ASSUME Ending, ~stale
               PROVE  \E i \in 1..Len(keys) :
                        /\ Highlighted(keys[i]) /\ entry[keys[i]].rank = rank
                        /\ \A j \in 1..Len(keys) : Highlighted(keys[j]) => j = i
    BY DEF DeciderShown
  <2>1. /\ keys \in Seq(Path) /\ rank \in Nat /\ \A k \in Path : Key(k) => entry[k].rank \in Nat
        /\ Ranks /\ \E k \in Path : Key(k) /\ Green(k) /\ entry[k].rank = rank
    BY <1>1 DEF DisplayInv, PictureTypes, Entries, DrawInv
  <2>2. PICK k \in Path : Key(k) /\ Green(k) /\ entry[k].rank = rank BY <2>1
  <2>3. PICK i \in 1..Len(keys) : keys[i] = k BY <2>2 DEF Key
  <2>4. \A j \in 1..Len(keys) : keys[j] \in Path /\ Key(keys[j]) BY <2>1 DEF Key
  <2>5. Highlighted(keys[i]) BY <2>1, <2>2, <2>3, <2>4 DEF Highlighted, Green, Ranks
  <2>6. ASSUME NEW j \in 1..Len(keys), Highlighted(keys[j]) PROVE j = i
    <3> DEFINE d == keys[j]
    <3>1. d \in Path /\ Key(d) /\ Green(d) /\ rank <= entry[d].rank
      BY <2>2, <2>3, <2>4, <2>6 DEF Highlighted, Green
    <3>2. entry[d].rank = rank
      <4>1. entry[d].rank <= rank /\ entry[d].rank \in Nat BY <2>1, <3>1 DEF Ranks
      <4> HIDE DEF d
      <4> QED BY <2>1, <3>1, <4>1
    <3>3. d = k BY <2>1, <2>2, <3>1, <3>2 DEF Ranks
    <3> QED BY <2>1, <2>3, <3>3 DEF Ranks
  <2> QED BY <2>2, <2>3, <2>5, <2>6
<1> QED BY <1>1, DisplayInvariant, PTL

\* The reports change no instance: its parts mean its query (Fixedpoint.partition).
THEOREM DisplayParts == DisplaySpec => []PartsMeanQuery
BY DisplayMoves, PartsRight, PTL
=============================================================================
