------------------------------- MODULE Moves -------------------------------
(***************************************************************************)
(* What the server sends to move a solver, and what the solver has asserted *)
(* then: Solver.solve, incremental, ask_partitions and stop                *)
(* (server/schedular.py), the scripts of the three kinds of roots          *)
(* (server/framework.py), and the processes that run them                  *)
(* (dummy_solver.py, SolverProcess.cpp).                                   *)
(*                                                                         *)
(* Which node a solver is sent to is the choice of entrust (Scheduler);    *)
(* here any node of the tree will do.  A move that raises changes nothing: *)
(* the write to a process that died, and every move in a fixedpoint        *)
(* instance, whose to_string refuses a start.                              *)
(*                                                                         *)
(* Operators named Mut_... are faulty variants of the definition after     *)
(* them, used to test properties.                                          *)
(***************************************************************************)
EXTENDS Script, Fixedpoint

CONSTANTS
  Solver, Instance, None,
  Programs,    \* the fixedpoint instances that may be submitted
  K,           \* bound: parts that arrive at once
  MaxNodes,    \* bound: AND nodes of a tree
  MaxQueue     \* bound: messages under way to a process

ASSUME MovesAssumption ==
  /\ None \notin Instance \cup Path \cup (Instance \X Path)
  /\ {K, MaxNodes, MaxQueue} \subseteq Nat
  /\ \A p \in Programs : IsProgram(p)

VARIABLES
  root, kind,  \* the current instance: its name, and its type and program
  tree,        \* its AND nodes
  node,        \* per solver: Solver.node
  chan,        \* per solver: messages under way
  at, stack    \* per process: where it works, and what it has asserted
vars == <<root, kind, tree, node, chan, at, stack>>

Kinds == [type : {"smt", "mcmt"}] \cup [type : {"fixedpoint"}, program : Programs]
Of(i, ns) == [k \in 1..Len(ns) |-> <<i, ns[k]>>]         \* nodes of instance i

Init ==
  /\ root = None /\ kind = [type |-> "smt"] /\ tree = {<<>>}
  /\ node = [s \in Solver |-> None] /\ chan = [s \in Solver |-> <<>>]
  /\ at = [s \in Solver |-> None] /\ stack = [s \in Solver |-> <<>>]

-----------------------------------------------------------------------------
(* The server. *)

\* parse, by the name and the text of the file, and partition a fixedpoint instance.
Parse(i) ==
  /\ root = None /\ root' = i
  /\ kind' \in Kinds
  /\ tree' = {<<>>} \cup
       IF kind'.type = "fixedpoint"
       THEN {<<0, Nth(kind'.program, k)>> : k \in Split(kind'.program)} ELSE {}
  /\ UNCHANGED <<node, chan, at, stack>>

\* Parts of a node arrive, below a new OR node; only an SMT instance is asked for any.
HasOR(n, j) == \E m \in tree : IsAncestor(Append(n, j), m)
Expand(n) ==
  /\ root # None /\ kind.type = "smt" /\ n \in tree
  /\ \E j \in 0..MaxNodes, c \in 1..K :
       /\ ~HasOR(n, j) /\ \A i \in 0..j - 1 : HasOR(n, i)
       /\ tree' = tree \cup {n \o <<j, k>> : k \in 0..c - 1}
  /\ Cardinality(tree') <= MaxNodes
  /\ UNCHANGED <<root, kind, node, chan, at, stack>>

Write(s, m) == Len(chan[s]) < MaxQueue /\ chan' = [chan EXCEPT ![s] = Append(@, m)]
SolveMessage == [op |-> "solve", of |-> root, from |-> <<>>, to |-> <<>>, script |-> Whole(<<>>)]
Solve(s) ==
  /\ root # None /\ node[s] = None /\ Write(s, SolveMessage)
  /\ node' = [node EXCEPT ![s] = <<>>]
  /\ UNCHANGED <<root, kind, tree, at, stack>>

\* The header and the script name the node the server believes the solver to be at.
Mut_MoveMessage(start, n) ==                 \* the node is assigned too early
  [op |-> "incremental", of |-> root, from |-> n, to |-> n, script |-> Script(n, n)]
MoveMessage(start, n) ==
  [op |-> "incremental", of |-> root, from |-> start, to |-> n, script |-> Script(n, start)]
\* to_string of a fixedpoint instance takes no start; an mcmt instance is its root.
Movable == kind.type = "smt"
Move(s, n) ==
  /\ node[s] # None /\ n \in tree /\ Movable /\ Write(s, MoveMessage(node[s], n))
  /\ node' = [node EXCEPT ![s] = n]
  /\ UNCHANGED <<root, kind, tree, at, stack>>

\* A solver is asked for parts of its node; it stays there.
Request(n) ==
  [op |-> "partition", of |-> root, from |-> n, to |-> n, script |-> [pop |-> 0, add |-> <<>>]]
Ask(s) ==
  /\ node[s] # None /\ kind.type = "smt" /\ Write(s, Request(node[s]))
  /\ UNCHANGED <<root, kind, tree, node, at, stack>>

\* The instance is over: its solvers are stopped.
Stop(s) == [op |-> "stop", of |-> root, from |-> node[s], to |-> node[s], script |-> Whole(<<>>)]
End ==
  /\ root # None /\ root' = None /\ kind' = [type |-> "smt"] /\ tree' = {<<>>}
  /\ \A s \in Solver : node[s] # None => Len(chan[s]) < MaxQueue
  /\ chan' = [s \in Solver |-> IF node[s] # None THEN Append(chan[s], Stop(s)) ELSE chan[s]]
  /\ node' = [s \in Solver |-> None]
  /\ UNCHANGED <<at, stack>>

-----------------------------------------------------------------------------
(* The processes. *)

\* A process reads a message.  SOLVE starts from nothing; a move runs its script
\* on what is asserted; a request for parts has none; STOP forgets all.
Obey(s) ==
  /\ chan[s] # <<>> /\ chan' = [chan EXCEPT ![s] = Tail(@)]
  /\ LET m == Head(chan[s])
         old == IF m.op = "solve" THEN <<>> ELSE stack[s]
     IN IF m.op = "stop"
        THEN at' = [at EXCEPT ![s] = None] /\ stack' = [stack EXCEPT ![s] = <<>>]
        ELSE /\ at' = [at EXCEPT ![s] = <<m.of, m.to>>]
             /\ stack' = [stack EXCEPT ![s] = Run(m.script.pop, Of(m.of, m.script.add), old)]
  /\ UNCHANGED <<root, kind, tree, node>>

\* A process is lost, and another one registers.
Replace(s) ==
  /\ node' = [node EXCEPT ![s] = None] /\ chan' = [chan EXCEPT ![s] = <<>>]
  /\ at' = [at EXCEPT ![s] = None] /\ stack' = [stack EXCEPT ![s] = <<>>]
  /\ UNCHANGED <<root, kind, tree>>

Next ==
  \/ \E i \in Instance : Parse(i)
  \/ \E n \in tree : Expand(n)
  \/ \E s \in Solver : Solve(s) \/ Ask(s) \/ Obey(s) \/ Replace(s) \/ \E n \in tree : Move(s, n)
  \/ End
Spec == Init /\ [][Next]_vars

-----------------------------------------------------------------------------
(* Properties. *)

\* Messages c lead a process that is at a to v: each move starts where the one before it
\* ends.  A process is nowhere after STOP.
Target(m) == IF m.op = "stop" THEN None ELSE <<m.of, m.to>>
Before(a, c, k) == IF k = 1 THEN a ELSE Target(c[k - 1])
Leads(c, a, v) ==
  /\ Before(a, c, Len(c) + 1) = v
  /\ \A k \in 1..Len(c) : c[k].op # "solve" => Before(a, c, k) = <<c[k].of, c[k].from>>

\* The server's view of a solver is where the messages under way lead it, each from where
\* the one before it ends (schedular.py:92-105): a script is only right at its start.
View(s) == IF node[s] = None THEN None ELSE <<root, node[s]>>
ViewsChain == \A s \in Solver : Leads(chan[s], at[s], View(s))

\* A process has asserted the AND nodes from the root of its instance to the node it
\* works on, each once and nothing else, after any moves over any branches
\* (framework.py:222-240); and no script pops the frame of the root.
StackIsBranch ==
  \A s \in Solver :
    /\ stack[s] = IF at[s] = None THEN <<>> ELSE Of(at[s][1], Line(at[s][2]))
    /\ (chan[s] # <<>> /\ Head(chan[s]).op = "incremental")
         => CanRun(Head(chan[s]).script.pop, stack[s])

\* Splitting a fixedpoint instance keeps its meaning: the query can be derived if and
\* only if one of the parts can, and every relation used is declared
\* (framework.py:257-280), provided that the query is no fact and that the program does
\* not already use the names of the parts.
Splittable(p) ==
  /\ Used(p) \subseteq p.declared /\ Queries(p) \cap p.declared = {}
  /\ \A k \in 1..Len(p.rules) : p.rules[k].head = p.query => p.rules[k].form # "fact"
PartsMeanQuery ==
  (kind.type = "fixedpoint" /\ Splittable(kind.program)) =>
    LET p == kind.program q == Partitioned(p) IN
      /\ (p.query \in Derived(p)) <=> (Queries(p) \cap Derived(q) # {})
      /\ Used(q) \subseteq q.declared
=============================================================================
