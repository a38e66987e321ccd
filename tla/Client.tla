------------------------------- MODULE Client -------------------------------
(***************************************************************************)
(* One solver process as the server sees it: it obeys its commands in      *)
(* order, and what it reports is an answer for the node it was last moved  *)
(* to, or the parts of that node.  Both sides are measured against this    *)
(* module: the scheduler relies on it (ClientView in SchedulerProps.tla),  *)
(* and the threads of the process implement it (SolverClient.tla).         *)
(***************************************************************************)
EXTENDS Integers, Sequences

CONSTANTS
  K, MaxNode,    \* as in Scheduler
  None,          \* no node
  Mortal         \* may the process die at any time

Node == 0..MaxNode

VARIABLES
  models,        \* the nodes that are satisfiable
  conn,          \* "away" before it registers, "dead" once it exited
  cmds,          \* commands sent and not yet executed
  reports,       \* reports sent and not yet read by the server
  pos,           \* the node it works on
  fork,          \* a partitioner works on that node
  done           \* it answered for that node
vars == <<models, conn, cmds, reports, pos, fork, done>>

Cmd == [op : {"SOLVE", "INCREMENTAL"}, node : Node] \cup [op : {"PARTITION", "STOP", "TERMINATE"}]

Init ==
  /\ models \subseteq Node
  /\ conn \in {"away", "up"}
  /\ cmds = <<>> \/ cmds = <<[op |-> "SOLVE", node |-> 0]>>
  /\ reports = <<>>
  /\ pos = None /\ fork = FALSE /\ done = FALSE

-----------------------------------------------------------------------------
(* The server.                                                             *)

Up == conn = "up"

Connect == conn = "away" /\ conn' = "up" /\ UNCHANGED <<models, cmds, reports, pos, fork, done>>

\* What is written to a dead process is lost.
Send ==
  /\ Up /\ \E c \in Cmd : cmds' = Append(cmds, c)
  /\ UNCHANGED <<models, conn, reports, pos, fork, done>>

\* The parts somebody reported are new nodes, some of them satisfiable.
Receive ==
  /\ \/ reports # <<>> /\ reports' = Tail(reports)
     \/ UNCHANGED reports
  /\ models \subseteq models'
  /\ UNCHANGED <<conn, cmds, pos, fork, done>>

-----------------------------------------------------------------------------
(* The process.                                                            *)

Report(r) == reports' = Append(reports, r)

Move ==
  /\ Up /\ cmds # <<>> /\ Head(cmds).op \in {"SOLVE", "INCREMENTAL"}
  /\ pos' = Head(cmds).node
  /\ cmds' = Tail(cmds) /\ fork' = FALSE /\ done' = FALSE
  /\ UNCHANGED <<models, conn, reports>>

Partition ==
  /\ Up /\ cmds # <<>> /\ Head(cmds).op = "PARTITION"
  /\ fork' = (fork \/ ~done)
  /\ cmds' = Tail(cmds) /\ done' = FALSE
  /\ UNCHANGED <<models, conn, reports, pos>>

Answer ==
  /\ Up /\ pos # None /\ ~done
  /\ Report([kind |-> IF pos \in models THEN "sat" ELSE "unsat", node |-> pos])
  /\ done' = TRUE
  /\ UNCHANGED <<models, conn, cmds, pos, fork>>

AnswerParts ==
  /\ Up /\ fork
  /\ \/ \E m \in 0..K : /\ m = 0 => pos \notin models
                        /\ Report([kind |-> "parts", node |-> pos, size |-> m])
     \/ pos \in models /\ Report([kind |-> "sat", node |-> pos])
  /\ fork' = FALSE
  /\ UNCHANGED <<models, conn, cmds, pos, done>>

\* The search starts again when clauses of others are injected.
Restart == Up /\ done' = FALSE /\ UNCHANGED <<models, conn, cmds, reports, pos, fork>>

Exit ==
  /\ Up
  /\ Mortal \/ \E i \in 1..Len(cmds) : cmds[i].op \in {"STOP", "TERMINATE"}
  /\ conn' = "dead"
  /\ cmds' = <<>> /\ pos' = None /\ fork' = FALSE /\ done' = FALSE
  /\ UNCHANGED <<models, reports>>

Next == \/ Connect \/ Send \/ Receive
        \/ Move \/ Partition \/ Answer \/ AnswerParts \/ Restart \/ Exit

Spec == Init /\ [][Next]_vars
=============================================================================
