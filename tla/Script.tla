------------------------------- MODULE Script -------------------------------
(***************************************************************************)
(* The script that takes a solver from one node to another (SMT.to_string  *)
(* in server/framework.py), and what it does to an assertion stack.        *)
(*                                                                         *)
(* A node is its path: AND nodes have even length, OR nodes odd length, and *)
(* the root is <<>>.  A script pops some frames and then asserts AND nodes, *)
(* each but the root in a frame of its own.  A stack is the sequence of the *)
(* AND nodes asserted, one per frame.                                      *)
(***************************************************************************)
EXTENDS Integers, Sequences

Path == Seq(Nat)
Prefix(n, k) == SubSeq(n, 1, k)

IsAncestor(a, n) == Len(a) <= Len(n) /\ \A i \in 1..Len(a) : a[i] = n[i]

\* The AND nodes from the root down to n: what a solver at n has asserted.
Depth(n) == Len(n) \div 2
Line(n) == [k \in 1..Depth(n) + 1 |-> Prefix(n, 2 * (k - 1))]

\* The loop of lines 225-228 climbs from start to the first ancestor of node, which
\* may be an OR node; it pops once for each AND node it leaves.
Meets(start, node) ==
  CHOOSE k \in 0..Len(start) :
    /\ IsAncestor(Prefix(start, k), node)
    /\ \A j \in k + 1..Len(start) : ~IsAncestor(Prefix(start, j), node)
Mut_Pops(start, m) == Len(start) - m
Pops(start, m) == Depth(start) - m \div 2

\* The loop of lines 231-236 climbs from node to that ancestor, at length m.
Adds(node, m) == [k \in 1..Depth(node) - m \div 2 |-> Prefix(node, 2 * (m \div 2 + k))]

Whole(node) == [pop |-> 0, add |-> Line(node)]        \* start is None
Script(node, start) ==
  LET m == Meets(start, node) IN [pop |-> Pops(start, m), add |-> Adds(node, m)]

\* A pop of the last frame, which holds the root, is an error of the solver.
CanRun(pop, stack) == pop < Len(stack)
Run(pop, add, stack) == Prefix(stack, Len(stack) - pop) \o add
=============================================================================
