-------------------------- MODULE SchedulerProofs --------------------------
(***************************************************************************)
(* Proofs about Scheduler.tla, for any number of solvers and parts, any    *)
(* bound on the tree and every configuration.                              *)
(*                                                                         *)
(* SearchInv is inductive: each conjunct has a lemma "...Step" which shows *)
(* that one step keeps it, given all of SearchInv before the step (and     *)
(* TypeOK after it).  From it follow Soundness and, with one case per      *)
(* action, the refinement of Search.tla; ClimbInv is inductive given       *)
(* SearchInv, and the assertion of entrust follows from both.              *)
(***************************************************************************)
EXTENDS SchedulerProps, TLAPS, FiniteSetTheorems, SequenceTheorems, WellFoundedInduction

-----------------------------------------------------------------------------
(* The numbering of the nodes.                                             *)

\* The parts of a node come after it, and it is their parent.
LEMMA PartParent ==
  ASSUME NEW n \in Nat, NEW i \in 1..K
  PROVE  Part(n, i) \in Nat /\ Part(n, i) > n /\ Parent(Part(n, i)) = n
<1>1. K \in Nat /\ K > 0 BY SchedulerAssumption
<1>2. K * n \in Nat /\ K * n >= n BY <1>1
<1>3. (K * n + i - 1) \div K = n BY <1>1, <1>2
<1> QED BY <1>1, <1>2, <1>3 DEF Part, Parent

\* Every node but the root has a parent, which comes before it.
LEMMA ParentBelow ==
  ASSUME NEW c \in Node \ {Root}
  PROVE  Parent(c) \in Node /\ Parent(c) < c
BY SchedulerAssumption DEF Node, Root, Parent

\* Path is the least closed set: what is closed under parents and holds the
\* node holds its path.
LEMMA PathLeast ==
  ASSUME NEW n \in Node, NEW a \in Path[n], NEW S \in SUBSET Node, n \in S,
         \A m \in S \ {Root} : Parent(m) \in S
  PROVE  a \in S
BY DEF Path

\* A node whose truth is "satisfiable" has only such nodes on its path: a
\* satisfiable part makes its parent satisfiable.
LEMMA TruthClimbs ==
  ASSUME TypeOK, TreeShape, PartsCover,
         NEW m \in tree \cap models, NEW n \in Path[m]
  PROVE  n \in models
<1> DEFINE S == tree \cap models
<1>1. ASSUME NEW x \in S \ {Root} PROVE Parent(x) \in S
  <2>1. x \in Parts(Parent(x)) /\ Parent(x) \in tree BY DEF TypeOK, TreeShape, Parts
  <2>2. x \in Parts(Parent(x)) \cap models BY <2>1
  <2>3. Parent(x) \in models BY <2>1, <2>2 DEF PartsCover
  <2> QED BY <2>1, <2>3
<1>2. S \in SUBSET Node /\ m \in S /\ m \in Node BY DEF TypeOK
<1> HIDE DEF S
<1>3. n \in S BY <1>1, <1>2, PathLeast
<1> QED BY <1>3 DEF S

-----------------------------------------------------------------------------
(* Types.                                                                  *)

\* Appending to one channel keeps every channel typed.
LEMMA PostType ==
  ASSUME TypeOK, NEW s \in Solver, NEW c \in Cmd, Post(s, c)
  PROVE  cmds' \in [Solver -> Seq(Cmd)]
<1>1. cmds \in [Solver -> Seq(Cmd)] BY DEF TypeOK
<1>2. Append(cmds[s], c) \in Seq(Cmd) BY <1>1
<1> QED BY <1>1, <1>2 DEF Post

\* The effect of Solver.solve and Solver.incremental has the right types.
LEMMA MoveType ==
  ASSUME TypeOK, NEW s \in Solver, NEW n \in Node, Move(s, n)
  PROVE  /\ cmds' \in [Solver -> Seq(Cmd)] /\ at' \in [Solver -> Node \cup {None}]
         /\ orWaiting' \in SUBSET Solver /\ started' \in SUBSET Node
<1>1. [op |-> "INCREMENTAL", node |-> n] \in Cmd BY DEF Cmd
<1>2. Post(s, [op |-> "INCREMENTAL", node |-> n]) BY DEF Move, Assign
<1>3. cmds' \in [Solver -> Seq(Cmd)] BY <1>1, <1>2, PostType
<1> QED BY <1>3 DEF TypeOK, Move, Assign

\* The root is a node, and None is not.
LEMMA RootIsNode == Root \in Node /\ None \notin Node
BY SchedulerAssumption DEF Node, Root

\* So has the end of a handler.
LEMMA ResetType ==
  ASSUME ResetLocals
  PROVE  /\ cursor' \in Node /\ scan' \in SUBSET Node /\ moving' \in SUBSET Solver
         /\ round' \in SUBSET Node /\ target' \in Node \cup {None}
         /\ rescue' \in BOOLEAN /\ got' \in Node \cup {None}
BY RootIsNode, Zenon DEF ResetLocals

\* Sets of solvers are finite and can be counted.
LEMMA SolversCount ==
  ASSUME NEW S \in SUBSET Solver
  PROVE  IsFiniteSet(S) /\ Cardinality(S) \in Nat
BY SchedulerAssumption, FS_Subset, FS_CardinalityType

\* A distribution round hands solvers to nodes, or ends the handler.
LEMMA HandOutType ==
  ASSUME TypeOK, NEW receivers \in SUBSET Node, NEW places \in [Node -> SUBSET Node],
         HandOut(receivers, places)
  PROVE  /\ phase' \in Phase
         /\ cmds' \in [Solver -> Seq(Cmd)] /\ at' \in [Solver -> Node \cup {None}]
         /\ orWaiting' \in SUBSET Solver /\ started' \in SUBSET Node
         /\ cursor' \in Node /\ scan' \in SUBSET Node /\ moving' \in SUBSET Solver
         /\ round' \in SUBSET Node /\ target' \in Node \cup {None}
         /\ rescue' \in BOOLEAN /\ got' \in Node \cup {None}
<1> DEFINE turn == IF round = {} THEN receivers ELSE round
<1>1. turn \in SUBSET Node BY DEF TypeOK
<1>2. CASE receivers = {}
  BY <1>2, ResetType DEF HandOut, TypeOK, Phase
<1>3. CASE receivers # {}
  <2>1. PICK c \in turn : \E s \in moving, n \in places[c] :
           \/ /\ Move(s, n)
              /\ moving' = moving \ {s} /\ round' = turn \ {c}
              /\ UNCHANGED <<phase, cursor, scan, target, rescue, got>>
           \/ MoveRaises(s)
    BY <1>3 DEF HandOut
  <2>2. PICK s \in moving, n \in places[c] :
           \/ /\ Move(s, n)
              /\ moving' = moving \ {s} /\ round' = turn \ {c}
              /\ UNCHANGED <<phase, cursor, scan, target, rescue, got>>
           \/ MoveRaises(s)
    BY <2>1
  <2>3. s \in Solver /\ n \in Node BY <1>1 DEF TypeOK
  <2>4. CASE Move(s, n) /\ moving' = moving \ {s} /\ round' = turn \ {c}
             /\ UNCHANGED <<phase, cursor, scan, target, rescue, got>>
    BY <1>1, <2>3, <2>4, MoveType DEF TypeOK
  <2>5. CASE MoveRaises(s)
    BY <2>5, ResetType DEF MoveRaises, EndHandler, Phase, TypeOK
  <2> QED BY <2>2, <2>4, <2>5
<1> QED BY <1>2, <1>3

\* The next report is true of the node it names, and its parts fit the bound.
LEMMA IncomingTrue ==
  ASSUME SearchInv, NEW s \in Solver, Receives(s)
  PROVE  /\ Incoming(s) \in Answer /\ Incoming(s).node \in tree
         /\ IF Incoming(s).kind = "parts"
            THEN Part(Incoming(s).node, Incoming(s).size) <= MaxNode
            ELSE Incoming(s).kind = Truth(Incoming(s).node)
<1>1. reports[s] \in Seq(Answer) /\ reports[s] # <<>> BY DEF SearchInv, TypeOK, Receives
<1>2. 1 \in 1..Len(reports[s]) /\ Incoming(s) = reports[s][1] BY <1>1 DEF Incoming
<1>3. reports[s][1] \in Answer BY <1>1, <1>2
<1> QED BY <1>2, <1>3 DEF SearchInv, ReportsTrue

\* The parts in an answer are nodes.
LEMMA PartsInRange ==
  ASSUME SearchInv, NEW s \in Solver, Receives(s), Incoming(s).kind = "parts",
         NEW i \in 1..Incoming(s).size
  PROVE  /\ Incoming(s).size \in 0..K /\ Incoming(s).node \in Node
         /\ Part(Incoming(s).node, i) \in Node
<1>1. Incoming(s).size \in 0..K /\ Incoming(s).node \in Node BY IncomingTrue DEF Answer
<1>2. i \in 1..K /\ K \in Nat BY <1>1, SchedulerAssumption
<1>3. Part(Incoming(s).node, i) \in Nat BY <1>1, <1>2, PartParent DEF Node
<1>4. Part(Incoming(s).node, Incoming(s).size) <= MaxNode BY IncomingTrue
<1>5. K * Incoming(s).node \in Nat BY <1>1, <1>2 DEF Node
<1>6. Part(Incoming(s).node, i) <= MaxNode
  BY <1>1, <1>2, <1>4, <1>5, SchedulerAssumption DEF Part
<1> QED BY <1>1, <1>3, <1>6, SchedulerAssumption DEF Node

\* Every step of the program keeps the types.  That parts are nodes comes from
\* what the reports say; that a rescue has a target, from Whereabouts.
LEMMA TypeStep ==
  ASSUME SearchInv, [Next]_vars
  PROVE  TypeOK'
<1> USE DEF treeVars, solverVars, jobVars, localVars, clientVars
<1>0. TypeOK BY DEF SearchInv
<1>1. CASE Raise
  <2>1. cursor # Root => Parent(cursor) \in Node BY <1>0, ParentBelow DEF TypeOK
  <2>2. status \in [Node -> Status] /\ cursor \in Node /\ phase \in Phase BY <1>0 DEF TypeOK
  <2>3. status' \in [Node -> Status] /\ cursor' \in Node /\ phase' \in Phase
    <3>1. status[cursor] \in Status BY <2>2
    <3> QED BY <1>1, <2>1, <2>2, <3>1, RootIsNode DEF Raise, Phase
  <2> QED BY <1>0, <1>1, <2>3 DEF TypeOK, Raise
<1>2. CASE TerminateAll
  <2>1. cmds' \in [Solver -> Seq(Cmd)]
    <3>1. PICK S : Terminate(S) BY <1>2 DEF TerminateAll
    <3>2. [op |-> "TERMINATE"] \in Cmd BY DEF Cmd
    <3>3. \A s \in Solver : cmds[s] \in Seq(Cmd) /\ Append(cmds[s], [op |-> "TERMINATE"]) \in Seq(Cmd)
      BY <1>0, <3>2 DEF TypeOK
    <3> QED BY <3>1, <3>3 DEF Terminate
  <2> QED BY <1>0, <1>2, <2>1, ResetType DEF TypeOK, TerminateAll, EndHandler, Phase
<1>3. CASE PrintVerdict
  <2>1. cmds' \in [Solver -> Seq(Cmd)]
    <3>1. [op |-> "STOP"] \in Cmd BY DEF Cmd
    <3>2. \A s \in Solver : cmds[s] \in Seq(Cmd) /\ Append(cmds[s], [op |-> "STOP"]) \in Seq(Cmd)
      BY <1>0, <3>1 DEF TypeOK
    <3>3. cmds \in [Solver -> Seq(Cmd)] BY <1>0 DEF TypeOK
    <3> QED BY <1>3, <3>2, <3>3 DEF PrintVerdict
  <2>2. at' \in [Solver -> Node \cup {None}] BY <1>0, <1>3 DEF TypeOK, PrintVerdict
  <2>3. status[Root] \in Status BY <1>0, RootIsNode DEF TypeOK
  <2> QED BY <1>0, <1>3, <2>1, <2>2, <2>3, ResetType DEF TypeOK, PrintVerdict, EndHandler, Phase
<1>4. ASSUME NEW s \in Solver, PlaceNewcomer(s) PROVE TypeOK'
  <2>1. cmds' \in [Solver -> Seq(Cmd)]
    <3>1. [op |-> "SOLVE", node |-> Root] \in Cmd BY RootIsNode DEF Cmd
    <3> QED BY <1>0, <1>4, <3>1, PostType DEF TypeOK, PlaceNewcomer
  <2>2. CASE EndHandler /\ started' = started
    BY <1>0, <1>4, <2>1, <2>2, RootIsNode, ResetType DEF TypeOK, PlaceNewcomer, EndHandler, Phase
  <2>3. CASE started' = started \cup {Root} /\ UNCHANGED <<phase, localVars>>
    <3>1. total' \in Nat /\ at' \in [Solver -> Node \cup {None}] /\ started' \in SUBSET Node
      BY <1>0, <1>4, <2>3, RootIsNode DEF TypeOK, PlaceNewcomer
    <3> QED BY <1>0, <1>4, <2>1, <2>3, <3>1 DEF TypeOK, PlaceNewcomer
  <2> QED BY <1>4, <2>2, <2>3 DEF PlaceNewcomer
<1>5. CASE StartScan BY <1>0, <1>5 DEF TypeOK, StartScan, Phase
<1>6. ASSUME NEW n \in Node, ScanUnsat(n) PROVE TypeOK'
  <2>1. Freed(n) \in SUBSET Solver BY DEF Freed, At
  <2>2. Closed(n) \in SUBSET Node BY ParentBelow DEF Closed
  <2>3. Cardinality(Freed(n) \ idle) \in Nat BY <2>1, SolversCount
  <2> QED BY <1>0, <1>6, <2>1, <2>2, <2>3 DEF TypeOK, ScanUnsat, LeaveIdle, Rest
<1>7. ASSUME NEW n \in Node, ScanExpired(n) PROVE TypeOK'
  <2>1. Cardinality(Busy(n)) \in Nat BY SolversCount DEF Busy, At
  <2>2. At(n) \in SUBSET Solver BY DEF At
  <2>3. processed' \in SUBSET Node /\ timedOut' \in SUBSET Node /\ scan' \in SUBSET Node
    BY <1>0, <1>7 DEF TypeOK, ScanExpired, Rest
  <2>4. idle' \in SUBSET Solver /\ count' \in Int
    BY <1>0, <1>7, <2>1, <2>2 DEF TypeOK, ScanExpired
  <2>5. target' \in Node \cup {None} /\ rescue' \in BOOLEAN
    BY <1>0, <1>7 DEF TypeOK, ScanExpired, Consider
  <2> QED BY <1>0, <1>7, <2>3, <2>4, <2>5 DEF TypeOK, ScanExpired
<1>8. ASSUME NEW n \in Node, ScanRunning(n) PROVE TypeOK'
  BY <1>0, <1>8 DEF TypeOK, ScanRunning, Consider, Rest
<1>9. CASE PlaceSolved
  <2>1. [c \in Node |-> LeastLoaded(ActiveBelow(c))] \in [Node -> SUBSET Node]
    BY <1>0 DEF TypeOK, LeastLoaded, ActiveBelow, Below
  <2>2. {c \in UnknownParts(Root) : ActiveBelow(c) # {}} \in SUBSET Node
    BY <1>0 DEF TypeOK, UnknownParts, Parts
  <2> QED BY <1>0, <1>9, <2>1, <2>2, HandOutType DEF TypeOK, PlaceSolved
<1>10. CASE ChooseFollowers BY <1>0, <1>10 DEF TypeOK, ChooseFollowers, Phase
<1>11. CASE PlaceFollowers
  <2>1. [c \in Node |-> {c}] \in [Node -> SUBSET Node] OBVIOUS
  <2>2. UnknownParts(got) \in SUBSET Node BY <1>0 DEF TypeOK, UnknownParts, Parts
  <2> QED BY <1>0, <1>11, <2>1, <2>2, HandOutType DEF TypeOK, PlaceFollowers
<1>12. CASE PlaceIdle
  <2>1. PICK n \in Unattempted :
     \/ \E s \in idle : LeaveIdle({s})
             /\ \/ Move(s, n) /\ scan' = Rest(n)
                   /\ UNCHANGED <<phase, moving, round, target, rescue, got, cursor>>
                \/ MoveRaises(s)
     \/ EndHandler /\ UNCHANGED <<idle, at, orWaiting, started, cmds>>
     \/ /\ scan' = Rest(n)
        /\ UNCHANGED <<idle, at, orWaiting, started, cmds, phase, moving, round, target,
                       rescue, got, cursor>>
    BY <1>12 DEF PlaceIdle
  <2>2. n \in Node BY <1>0 DEF TypeOK, Unattempted
  <2>3. ASSUME NEW s \in idle, LeaveIdle({s}), Move(s, n), scan' = Rest(n),
               UNCHANGED <<phase, moving, round, target, rescue, got, cursor>>
        PROVE  TypeOK'
    BY <1>0, <1>12, <2>2, <2>3, MoveType DEF TypeOK, PlaceIdle, LeaveIdle, Rest
  <2>4. ASSUME NEW s \in idle, LeaveIdle({s}), MoveRaises(s) PROVE TypeOK'
    BY <1>0, <1>12, <2>4, ResetType DEF TypeOK, PlaceIdle, LeaveIdle, MoveRaises, EndHandler, Phase
  <2>5. CASE EndHandler /\ UNCHANGED <<idle, at, orWaiting, started, cmds>>
    BY <1>0, <1>12, <2>5, ResetType DEF TypeOK, PlaceIdle, EndHandler, Phase
  <2>6. CASE scan' = Rest(n) /\ UNCHANGED <<idle, at, orWaiting, started, cmds, phase, moving,
                                            round, target, rescue, got, cursor>>
    BY <1>0, <1>12, <2>6 DEF TypeOK, PlaceIdle, Rest
  <2> QED BY <2>1, <2>3, <2>4, <2>5, <2>6
<1>13. CASE Rescue
  <2>1. target \in Node BY <1>0, <1>13 DEF TypeOK, Rescue, SearchInv, Whereabouts
  <2>2. \/ EndHandler /\ UNCHANGED <<idle, at, orWaiting, started, cmds>>
        \/ phase' = "ask" /\ UNCHANGED <<idle, at, orWaiting, started, cmds, localVars>>
        \/ \E s \in idle : Move(s, target) /\ LeaveIdle({s}) /\ phase' = "ask" /\ UNCHANGED localVars
        \/ \E s \in idle : MoveRaises(s) /\ UNCHANGED idle
    BY <1>13 DEF Rescue
  <2>3. CASE EndHandler /\ UNCHANGED <<idle, at, orWaiting, started, cmds>>
    BY <1>0, <1>13, <2>3, ResetType DEF TypeOK, Rescue, EndHandler, Phase
  <2>4. CASE phase' = "ask" /\ UNCHANGED <<idle, at, orWaiting, started, cmds, localVars>>
    BY <1>0, <1>13, <2>4 DEF TypeOK, Rescue, Phase
  <2>5. ASSUME NEW s \in idle, Move(s, target), LeaveIdle({s}), phase' = "ask", UNCHANGED localVars
        PROVE  TypeOK'
    BY <1>0, <1>13, <2>1, <2>5, MoveType DEF TypeOK, Rescue, LeaveIdle, Phase
  <2>6. ASSUME NEW s \in idle, MoveRaises(s), UNCHANGED idle PROVE TypeOK'
    BY <1>0, <1>13, <2>6, ResetType DEF TypeOK, Rescue, MoveRaises, EndHandler, Phase
  <2> QED BY <2>2, <2>3, <2>4, <2>5, <2>6
<1>14. CASE Ask
  <2>1. cmds' \in [Solver -> Seq(Cmd)]
    <3>1. [op |-> "PARTITION"] \in Cmd BY DEF Cmd
    <3>2. ASSUME NEW s \in Solver, Post(s, [op |-> "PARTITION"]) PROVE cmds' \in [Solver -> Seq(Cmd)]
      BY <1>0, <3>1, <3>2, PostType
    <3> QED BY <1>0, <1>14, <3>2 DEF TypeOK, Ask, At
  <2>2. K \in Nat BY SchedulerAssumption
  <2> QED BY <1>0, <1>14, <2>1, <2>2, ResetType DEF TypeOK, Ask, At, EndHandler, Phase
<1>15. CASE Tick BY <1>0, <1>15 DEF TypeOK, Tick, Phase
<1>16. CASE Overdue BY <1>0, <1>16 DEF TypeOK, Overdue
<1>17. ASSUME NEW s \in Solver, JoinSolver(s) PROVE TypeOK'
  BY <1>0, <1>17 DEF TypeOK, JoinSolver, Phase
<1>18. ASSUME NEW s \in Solver, CloseSolver(s) PROVE TypeOK'
  BY <1>0, <1>18 DEF TypeOK, CloseSolver
<1>19. ASSUME NEW s \in Solver, Receives(s)
       PROVE  reports' \in [Solver -> Seq(Answer)] /\ Incoming(s) \in Answer
  <2>1. reports[s] \in Seq(Answer) /\ reports[s] # <<>> BY <1>0, <1>19 DEF TypeOK, Receives
  <2>2. Head(reports[s]) \in Answer /\ Tail(reports[s]) \in Seq(Answer) BY <2>1
  <2> QED BY <1>0, <1>19, <2>2 DEF TypeOK, Receives, Incoming
<1>20. ASSUME NEW s \in Solver, DropReport(s) PROVE TypeOK'
  BY <1>0, <1>19, <1>20 DEF TypeOK, DropReport, Phase
<1>21. ASSUME NEW s \in Solver, ReadStatus(s) PROVE TypeOK'
  <2>1. Incoming(s).kind \in {"sat", "unsat"} /\ at[s] \in Node
    BY <1>19, <1>21 DEF ReadStatus, Current, Answer
  <2>2. status' \in [Node -> Status] /\ cursor' \in Node /\ reports' \in [Solver -> Seq(Answer)]
    BY <1>0, <1>19, <1>21, <2>1 DEF TypeOK, ReadStatus, Status
  <2> QED BY <1>0, <1>21, <2>2 DEF TypeOK, ReadStatus, Phase
<1>22. ASSUME NEW s \in Solver, ReadParts(s) PROVE TypeOK'
  <2>1. reports' \in [Solver -> Seq(Answer)] /\ at[s] \in Node /\ Incoming(s).size \in 0..K
    BY <1>19, <1>22 DEF ReadParts, Current, Answer
  <2>2. CASE s \notin orWaiting BY <1>0, <1>22, <2>1, <2>2 DEF TypeOK, ReadParts, Phase
  <2>3. CASE s \in orWaiting
    <3> DEFINE size == IF Unknown(at[s]) THEN Incoming(s).size ELSE 0
               new == {Part(at[s], i) : i \in 1..size}
    <3>0. Receives(s) /\ Incoming(s).kind = "parts" /\ Incoming(s).node = at[s]
      BY <1>22 DEF ReadParts, Current
    <3>1. new \subseteq Node /\ size \in Nat BY <2>1, <3>0, PartsInRange
    <3>2. PICK yes \in SUBSET new : models' = models \cup yes BY <1>22, <2>3 DEF ReadParts
    <3>3. models' \in SUBSET Node BY <1>0, <3>1, <3>2 DEF TypeOK
    <3>4. /\ orWaiting' = orWaiting \ {s} /\ tree' = tree \cup new
          /\ count' = count - K + size /\ got' = at[s]
      BY <1>22, <2>3 DEF ReadParts
    <3>5. K \in Nat BY SchedulerAssumption
    <3>6. tree' \in SUBSET Node /\ Root \in tree' /\ count' \in Int /\ orWaiting' \in SUBSET Solver
      BY <1>0, <3>1, <3>4, <3>5 DEF TypeOK
    <3>7. got' \in Node \cup {None} BY <2>1, <3>4
    <3>8. phase' \in Phase /\ reports' \in [Solver -> Seq(Answer)] BY <1>22, <2>1 DEF ReadParts, Phase
    <3>9. UNCHANGED <<status, started, partitioning, timedOut, processed, conn, at, idle, total,
                 nodeTimeout, overdue, terminate, jammed, verdict, cursor, scan, moving, round,
                 target, rescue, cmds, pos, fork, done>>
      BY <1>22 DEF ReadParts
    <3> QED BY <1>0, <3>3, <3>6, <3>7, <3>8, <3>9 DEF TypeOK
  <2> QED BY <2>2, <2>3
<1>23. ASSUME NEW s \in Solver, TakeCommand(s) PROVE TypeOK'
  <2>1. Head(cmds[s]) \in Cmd /\ Tail(cmds[s]) \in Seq(Cmd)
    BY <1>0, <1>23 DEF TypeOK, TakeCommand
  <2>2. Head(cmds[s]).op \in {"SOLVE", "INCREMENTAL"} => Head(cmds[s]).node \in Node
    BY <2>1 DEF Cmd
  <2>3. cmds' \in [Solver -> Seq(Cmd)]
    <3>1. <<>> \in Seq(Cmd) /\ cmds \in [Solver -> Seq(Cmd)] BY <1>0 DEF TypeOK
    <3> QED BY <1>23, <2>1, <3>1 DEF TakeCommand, Exit
  <2>4. pos' \in [Solver -> Node \cup {None}] BY <1>0, <1>23, <2>2 DEF TypeOK, TakeCommand, Exit
  <2>5. /\ conn' \in [Solver -> {"away", "up", "dead", "closed"}]
        /\ fork' \in SUBSET Solver /\ done' \in SUBSET Solver
    BY <1>0, <1>23 DEF TypeOK, TakeCommand, Exit
  <2> QED BY <1>0, <1>23, <2>3, <2>4, <2>5 DEF TypeOK, TakeCommand
<1>24. ASSUME NEW s \in Solver, Answers(s) PROVE TypeOK'
  <2>1. pos[s] \in Node BY <1>0, <1>24 DEF TypeOK, Answers
  <2>2. [kind |-> Truth(pos[s]), node |-> pos[s]] \in Answer BY <2>1 DEF Answer, Truth
  <2> QED BY <1>0, <1>24, <2>2 DEF TypeOK, Answers, Report
<1>25. ASSUME NEW s \in Solver, AnswersParts(s) PROVE TypeOK'
  <2>1. pos[s] \in Node BY <1>0, <1>25 DEF TypeOK, AnswersParts
  <2>2. \A m \in 0..K : [kind |-> "parts", node |-> pos[s], size |-> m] \in Answer
    BY <2>1 DEF Answer
  <2>3. [kind |-> "sat", node |-> pos[s]] \in Answer BY <2>1 DEF Answer
  <2>4. PICK r \in Answer : Report(s, r) BY <1>25, <2>2, <2>3 DEF AnswersParts
  <2>5. reports' \in [Solver -> Seq(Answer)] BY <1>0, <2>4 DEF TypeOK, Report
  <2> QED BY <1>0, <1>25, <2>5 DEF TypeOK, AnswersParts
<1>26. ASSUME NEW s \in Solver, Dies(s) PROVE TypeOK'
  BY <1>0, <1>26 DEF TypeOK, Dies, Exit
<1>27. ASSUME NEW s \in Solver, Restarts(s) PROVE TypeOK'
  BY <1>0, <1>27 DEF TypeOK, Restarts
<1>28. CASE UNCHANGED vars BY <1>0, <1>28 DEF TypeOK, vars
<1> QED
  BY <1>1, <1>2, <1>3, <1>4, <1>5, <1>6, <1>7, <1>8, <1>9, <1>10, <1>11, <1>12, <1>13, <1>14,
     <1>15, <1>16, <1>17, <1>18, <1>20, <1>21, <1>22, <1>23, <1>24, <1>25, <1>26, <1>27, <1>28
  DEF Next, Handler, Scan, Halted, Wakeup, Client

-----------------------------------------------------------------------------
(* What is known of the tree.                                              *)

\* Only the reports of the solvers and the climbing of a status change what the
\* server knows of the tree.
LEMMA WhoLearns ==
  ASSUME [Next]_vars
  PROVE  \/ UNCHANGED <<tree, status, models>>
         \/ Raise
         \/ \E s \in Solver : ReadStatus(s) \/ ReadParts(s)
<1> USE DEF treeVars
<1>1. Raise \/ TerminateAll \/ PrintVerdict \/ StartScan \/ ChooseFollowers \/ Tick \/ Overdue
      => UNCHANGED <<tree, status, models>> \/ Raise
  BY DEF TerminateAll, PrintVerdict, StartScan, ChooseFollowers, Tick, Overdue
<1>2. PlaceSolved \/ PlaceFollowers \/ PlaceIdle \/ Rescue \/ Ask \/ Scan \/ UNCHANGED vars
      => UNCHANGED <<tree, status, models>>
  BY DEF PlaceSolved, PlaceFollowers, PlaceIdle, Rescue, Ask, Scan, ScanUnsat, ScanExpired,
         ScanRunning, vars
<1>3. \A s \in Solver : PlaceNewcomer(s) \/ JoinSolver(s) \/ CloseSolver(s) \/ DropReport(s)
                        \/ Client(s)
      => UNCHANGED <<tree, status, models>>
  BY DEF PlaceNewcomer, JoinSolver, CloseSolver, DropReport, Client, TakeCommand, Answers, Restarts,
         AnswersParts, Dies
<1> QED BY <1>1, <1>2, <1>3 DEF Next, Handler, Halted, Wakeup

\* Only an answer with the parts of a node that has none yet makes the tree
\* grow.
LEMMA NewParts ==
  ASSUME SearchInv, NEW s \in Solver, ReadParts(s)
  PROVE  \/ UNCHANGED <<tree, models>>
         \/ /\ s \in orWaiting /\ at[s] \in tree /\ Unknown(at[s]) /\ Parts(at[s]) = {}
            /\ at[s] \in partitioning
            /\ \E size \in 1..K :
                 LET new == {Part(at[s], i) : i \in 1..size} IN
                 /\ new \subseteq Node \ {Root} /\ new \cap tree = {} /\ new # {}
                 /\ \A c \in new : Parent(c) = at[s]
                 /\ tree' = tree \cup new
                 /\ \E yes \in SUBSET new : /\ at[s] \in models <=> yes # {}
                                            /\ models' = models \cup yes
<1> DEFINE n == at[s]
           size == IF Unknown(n) THEN Incoming(s).size ELSE 0
           new == {Part(n, i) : i \in 1..size}
<1>1. Receives(s) /\ Incoming(s).kind = "parts" /\ Incoming(s).node = n
  BY DEF ReadParts, Current
<1>2. size \in 0..K /\ n \in Node /\ n \in tree /\ K \in Nat
  <2>1. Incoming(s) \in Answer BY <1>1, IncomingTrue
  <2> QED BY <1>1, <2>1, IncomingTrue, SchedulerAssumption DEF Answer
<1>3. CASE s \notin orWaiting BY <1>3 DEF ReadParts
<1>4. CASE s \in orWaiting /\ size = 0
  <2>1. new = {}
    <3>1. 1..size = {} BY <1>4
    <3> QED BY <3>1
  <2>2. tree' = tree \cup new /\ \E yes \in SUBSET new : models' = models \cup yes
    BY <1>4 DEF ReadParts
  <2> QED BY <2>1, <2>2
<1>5. CASE s \in orWaiting /\ size # 0
  <2>1. Unknown(n) /\ size \in 1..K /\ size = Incoming(s).size BY <1>2, <1>5
  <2>2. Parts(n) = {} /\ n \in partitioning BY <1>5 DEF SearchInv, Requests
  <2>3. \A i \in 1..size : /\ Part(n, i) \in Node \ {Root} /\ Parent(Part(n, i)) = n
                           /\ Part(n, i) \notin tree
    <3> SUFFICES ASSUME NEW i \in 1..size
                 PROVE  /\ Part(n, i) \in Node \ {Root} /\ Parent(Part(n, i)) = n
                        /\ Part(n, i) \notin tree
      OBVIOUS
    <3>1. Part(n, i) \in Node BY <1>1, <2>1, PartsInRange
    <3>2. i \in 1..K /\ n \in Nat BY <1>2, <2>1 DEF Node
    <3>3. Part(n, i) > n /\ Parent(Part(n, i)) = n BY <3>2, PartParent
    <3>4. Part(n, i) # Root BY <3>1, <3>2, <3>3 DEF Root, Node
    <3> QED BY <2>2, <3>1, <3>3, <3>4 DEF Parts
  <2>4. new \subseteq Node \ {Root} /\ new \cap tree = {} /\ \A c \in new : Parent(c) = n
    BY <2>3
  <2>5. new # {}
    <3>1. 1 \in 1..size BY <2>1
    <3> QED BY <3>1
  <2>6. tree' = tree \cup new BY <1>5 DEF ReadParts
  <2>7. \E yes \in SUBSET new : (n \in models <=> yes # {}) /\ models' = models \cup yes
    BY <1>5, <2>5 DEF ReadParts
  <2> QED BY <1>2, <1>5, <2>1, <2>2, <2>4, <2>5, <2>6, <2>7
<1> QED BY <1>2, <1>3, <1>4, <1>5

\* The tree only grows, and what is true of a node stays true.
LEMMA TreeGrows ==
  ASSUME SearchInv, [Next]_vars
  PROVE  /\ tree \subseteq tree'
         /\ \A n \in tree : n \in models' <=> n \in models
<1>1. CASE UNCHANGED <<tree, status, models>> BY <1>1
<1>2. CASE Raise BY <1>2 DEF Raise
<1>3. ASSUME NEW s \in Solver, ReadStatus(s) PROVE UNCHANGED <<tree, models>>
  BY <1>3 DEF ReadStatus
<1>4. ASSUME NEW s \in Solver, ReadParts(s)
      PROVE  tree \subseteq tree' /\ \A n \in tree : n \in models' <=> n \in models
  BY <1>4, NewParts
<1> QED BY <1>1, <1>2, <1>3, <1>4, WhoLearns

\* TreeShape is kept.
LEMMA ShapeStep ==
  ASSUME SearchInv, [Next]_vars
  PROVE  TreeShape'
<1>1. partitioning \subseteq partitioning'
  <2> USE DEF treeVars
  <2>1. TerminateAll \/ PrintVerdict \/ StartScan \/ ChooseFollowers \/ Tick \/ Overdue \/ Raise
        \/ PlaceSolved \/ PlaceFollowers \/ PlaceIdle \/ Rescue \/ Ask \/ Scan \/ UNCHANGED vars
        => partitioning \subseteq partitioning'
    BY DEF TerminateAll, PrintVerdict, StartScan, ChooseFollowers, Tick, Overdue, Raise, PlaceSolved,
           PlaceFollowers, PlaceIdle, Rescue, Ask, Scan, ScanUnsat, ScanExpired, ScanRunning, vars
  <2>2. \A s \in Solver : PlaceNewcomer(s) \/ Wakeup(s) \/ Client(s)
        => partitioning \subseteq partitioning'
    BY DEF PlaceNewcomer, Wakeup, JoinSolver, CloseSolver, DropReport, ReadStatus, ReadParts, Client,
           TakeCommand, Answers, Restarts, AnswersParts, Dies
  <2> QED BY <2>1, <2>2 DEF Next, Handler, Halted
<1>2. TypeOK /\ TreeShape BY DEF SearchInv
<1>3. CASE UNCHANGED <<tree, status, models>> BY <1>1, <1>2, <1>3 DEF TreeShape, Unknown
<1>4. CASE Raise
  <2>1. cursor # Root => Parent(cursor) \in tree BY <1>2 DEF SearchInv, Whereabouts, TreeShape
  <2>2. \A m \in Node \ tree : status'[m] = status[m]
    BY <1>2, <1>4, <2>1 DEF Raise, TypeOK
  <2> QED BY <1>1, <1>2, <1>4, <2>2 DEF TreeShape, Unknown, Raise
<1>5. ASSUME NEW s \in Solver, ReadStatus(s) PROVE TreeShape'
  <2>1. at[s] \in tree BY <1>5, IncomingTrue DEF ReadStatus, Current
  <2>2. \A m \in Node \ tree : status'[m] = status[m]
    BY <1>2, <1>5, <2>1 DEF ReadStatus, Below, TypeOK
  <2>3. tree' = tree /\ models' = models BY <1>5 DEF ReadStatus
  <2> QED BY <1>1, <1>2, <2>2, <2>3 DEF TreeShape, Unknown
<1>6. ASSUME NEW s \in Solver, ReadParts(s) PROVE TreeShape'
  <2>1. status' = status BY <1>6 DEF ReadParts
  <2> QED BY <1>1, <1>2, <1>6, <2>1, NewParts DEF TreeShape, Unknown
<1> QED BY <1>3, <1>4, <1>5, <1>6, WhoLearns

\* PartsCover is kept: a node gets its parts once.
LEMMA CoverStep ==
  ASSUME SearchInv, [Next]_vars
  PROVE  PartsCover'
<1>1. CASE UNCHANGED <<tree, models>> BY <1>1 DEF SearchInv, PartsCover, Parts
<1>2. CASE Raise BY <1>1, <1>2 DEF Raise
<1>3. ASSUME NEW s \in Solver, ReadStatus(s) PROVE PartsCover' BY <1>1, <1>3 DEF ReadStatus
<1>4. ASSUME NEW s \in Solver, ReadParts(s), ~UNCHANGED <<tree, models>> PROVE PartsCover'
  <2>0. PICK n \in tree : n = at[s] BY <1>4, NewParts
  <2>1. PICK size \in 1..K :
          LET new == {Part(n, i) : i \in 1..size} IN
          /\ new \subseteq Node \ {Root} /\ new \cap tree = {} /\ new # {}
          /\ \A c \in new : Parent(c) = n
          /\ tree' = tree \cup new
          /\ \E yes \in SUBSET new : /\ n \in models <=> yes # {}
                                     /\ models' = models \cup yes
    BY <1>4, <2>0, NewParts
  <2> DEFINE new == {Part(n, i) : i \in 1..size}
  <2>2. PICK yes \in SUBSET new : /\ n \in models <=> yes # {}
                                  /\ models' = models \cup yes
    BY <2>1
  <2>3. /\ new \subseteq Node \ {Root} /\ new \cap tree = {} /\ new # {}
        /\ \A c \in new : Parent(c) = n
        /\ tree' = tree \cup new
    BY <2>1
  <2>4. n \in tree /\ Parts(n) = {} BY <1>4, <2>0, NewParts
  <2>5. PartsCover /\ models \subseteq tree /\ tree \subseteq Node
    BY DEF SearchInv, TreeShape, TypeOK
  <2> HIDE DEF new
  <2>6. Parts(n)' = new BY <2>3, <2>4 DEF Parts
  <2>7. Parts(n)' \cap models' = yes BY <2>2, <2>3, <2>5, <2>6
  <2>8. \A m \in tree \ {n} : Parts(m)' = Parts(m) /\ Parts(m)' \cap models' = Parts(m) \cap models
    BY <2>2, <2>3, <2>5 DEF Parts
  <2>9. \A m \in new : Parts(m)' = {}
    BY <2>3, <2>4 DEF SearchInv, TreeShape, Parts
  <2>10. \A m \in tree : m \in models' <=> m \in models BY <2>2, <2>3
  <2> QED BY <2>2, <2>3, <2>4, <2>5, <2>6, <2>7, <2>8, <2>9, <2>10 DEF PartsCover
<1> QED BY <1>1, <1>2, <1>3, <1>4, WhoLearns

\* StatusSound is kept.  A report is read at the node it is about and is true of
\* it; unsat goes down along paths, and either answer climbs from the parts.
LEMMA SoundStep ==
  ASSUME SearchInv, [Next]_vars
  PROVE  StatusSound'
<1>1. TypeOK /\ TreeShape /\ PartsCover /\ StatusSound BY DEF SearchInv
<1>2. CASE UNCHANGED <<tree, status, models>>
  BY <1>1, <1>2 DEF StatusSound, Unknown, Truth
<1>3. CASE Raise
  <2>1. UNCHANGED <<tree, models>> BY <1>3 DEF Raise
  <2>2. CASE status' = status BY <1>2, <2>1, <2>2
  <2>3. CASE status' # status
    <3> DEFINE p == Parent(cursor)
               v == status[cursor]
    <3>1. cursor # Root /\ Climbs(v, p) /\ status' = [status EXCEPT ![p] = v]
      BY <1>3, <2>3 DEF Raise
    <3>2. cursor \in tree /\ v = Truth(cursor)
      BY <1>1, <1>3 DEF SearchInv, Whereabouts, StatusSound, Raise
    <3>3. p \in tree /\ cursor \in Parts(p) BY <1>1, <3>1, <3>2 DEF TreeShape, Parts
    <3>4. p \in models <=> Parts(p) \cap models # {} BY <1>1, <3>3 DEF PartsCover
    <3>5. cursor \in models => p \in models BY <3>3, <3>4
    <3>6. ASSUME cursor \notin models PROVE p \notin models
      <4>1. v = "unsat" BY <3>2, <3>6 DEF Truth
      <4>2. \A c \in Parts(p) : status[c] = "unsat" BY <3>1, <4>1 DEF Climbs
      <4>3. \A c \in Parts(p) : c \in tree BY DEF Parts
      <4>4. \A c \in Parts(p) : c \notin models
        BY <1>1, <4>2, <4>3 DEF StatusSound, Unknown, Truth
      <4> QED BY <3>4, <4>4
    <3>7. v = Truth(p) BY <3>2, <3>5, <3>6 DEF Truth
    <3> QED BY <1>1, <2>1, <3>1, <3>7 DEF StatusSound, Unknown, Truth, TypeOK
  <2> QED BY <2>2, <2>3
<1>4. ASSUME NEW s \in Solver, ReadStatus(s) PROVE StatusSound'
  <2> DEFINE n == at[s]
             v == Incoming(s).kind
  <2>1. UNCHANGED <<tree, models>> /\ Receives(s) /\ v # "parts" /\ Incoming(s).node = n
    BY <1>4 DEF ReadStatus, Current
  <2>2. n \in tree /\ v = Truth(n) BY <2>1, IncomingTrue
  <2>3. \A m \in Node : status'[m] =
          IF m = n \/ (v = "unsat" /\ m \in Below(n) /\ Unknown(m)) THEN v ELSE status[m]
    BY <1>4 DEF ReadStatus
  <2>4. ASSUME NEW m \in Below(n), v = "unsat" PROVE Truth(m) = "unsat"
    <3>1. m \in tree /\ n \in Path[m] BY DEF Below
    <3>2. n \notin models BY <2>2, <2>4 DEF Truth
    <3>3. m \notin models BY <1>1, <3>1, <3>2, TruthClimbs
    <3> QED BY <3>3 DEF Truth
  <2>5. \A m \in tree : status'[m] = Truth(m) \/ status'[m] = status[m]
    BY <1>1, <2>2, <2>3, <2>4 DEF TypeOK
  <2> QED BY <1>1, <2>1, <2>5 DEF StatusSound, Unknown, Truth
<1>5. ASSUME NEW s \in Solver, ReadParts(s) PROVE StatusSound'
  <2>1. status' = status BY <1>5 DEF ReadParts
  <2>2. tree \subseteq tree' /\ tree' \subseteq Node BY TreeGrows, TypeStep DEF TypeOK
  <2> QED BY <1>1, <2>1, <2>2, TreeGrows DEF StatusSound, TreeShape, Unknown, Truth
<1> QED BY <1>2, <1>3, <1>4, <1>5, WhoLearns

-----------------------------------------------------------------------------
(* Where solvers, commands and requests point.                             *)

\* The elements of a sequence after an Append.
LEMMA AppendElements ==
  ASSUME NEW T, NEW q \in Seq(T), NEW x \in T, NEW i \in 1..Len(Append(q, x))
  PROVE  Append(q, x)[i] = x \/ (i \in 1..Len(q) /\ Append(q, x)[i] = q[i])
<1>1. Len(Append(q, x)) = Len(q) + 1 /\ Len(q) \in Nat BY AppendProperties
<1>2. Append(q, x)[Len(q) + 1] = x BY AppendProperties
<1>3. \A j \in 1..Len(q) : Append(q, x)[j] = q[j] BY AppendProperties
<1> QED BY <1>1, <1>2, <1>3

\* A command that names no node outside the tree may join any channel.
LEMMA AppendInTree ==
  ASSUME SearchInv, NEW s \in Solver, NEW c \in Cmd,
         c.op \in {"SOLVE", "INCREMENTAL"} => c.node \in tree,
         NEW i \in 1..Len(Append(cmds[s], c)),
         Append(cmds[s], c)[i].op \in {"SOLVE", "INCREMENTAL"}
  PROVE  Append(cmds[s], c)[i].node \in tree
<1>1. cmds[s] \in Seq(Cmd) BY DEF SearchInv, TypeOK
<1>2. Append(cmds[s], c)[i] = c \/ (i \in 1..Len(cmds[s]) /\ Append(cmds[s], c)[i] = cmds[s][i])
  BY <1>1, AppendElements
<1> QED BY <1>2 DEF SearchInv, Whereabouts

\* Sending a command about a node of the tree keeps every queue inside it.
LEMMA PostInTree ==
  ASSUME SearchInv, NEW s \in Solver, NEW c \in Cmd, Post(s, c),
         c.op \in {"SOLVE", "INCREMENTAL"} => c.node \in tree
  PROVE  \A r \in Solver : \A i \in 1..Len(cmds'[r]) :
           cmds'[r][i].op \in {"SOLVE", "INCREMENTAL"} => cmds'[r][i].node \in tree
<1>1. cmds \in [Solver -> Seq(Cmd)] BY DEF SearchInv, TypeOK
<1>2. \A i \in 1..Len(Append(cmds[s], c)) :
        Append(cmds[s], c)[i].op \in {"SOLVE", "INCREMENTAL"} => Append(cmds[s], c)[i].node \in tree
  BY AppendInTree
<1> QED BY <1>1, <1>2 DEF Post, SearchInv, Whereabouts

\* A move inside the tree.
LEMMA MoveInTree ==
  ASSUME SearchInv, NEW s \in Solver, NEW n \in tree, Move(s, n)
  PROVE  /\ \A r \in Solver : at'[r] \in tree \cup {None}
         /\ \A r \in Solver : \A i \in 1..Len(cmds'[r]) :
              cmds'[r][i].op \in {"SOLVE", "INCREMENTAL"} => cmds'[r][i].node \in tree
<1>1. Post(s, [op |-> "INCREMENTAL", node |-> n]) BY DEF Move, Assign
<1>2. [op |-> "INCREMENTAL", node |-> n] \in Cmd BY DEF Cmd, SearchInv, TypeOK
<1> QED BY <1>1, <1>2, PostInTree DEF Move, Assign, SearchInv, TypeOK, Whereabouts

\* A distribution round inside the tree.
LEMMA HandOutInTree ==
  ASSUME SearchInv, NEW receivers \in SUBSET Node, NEW places \in [Node -> SUBSET Node],
         \A c \in tree : places[c] \subseteq tree, receivers \subseteq tree,
         HandOut(receivers, places), UNCHANGED <<tree, status, pos>>, phase # "raise"
  PROVE  Whereabouts'
<1> DEFINE turn == IF round = {} THEN receivers ELSE round
<1>1. turn \subseteq tree BY DEF SearchInv, Whereabouts
<1>2. CASE receivers = {}
  BY <1>2 DEF HandOut, ResetLocals, SearchInv, TypeOK, Whereabouts
<1>3. CASE receivers # {}
  <2>1. PICK c \in turn : \E s \in moving, n \in places[c] :
           \/ /\ Move(s, n) /\ round' = turn \ {c}
              /\ UNCHANGED <<phase, cursor, scan, target, rescue, got>>
           \/ MoveRaises(s)
    BY <1>3 DEF HandOut
  <2>2. PICK s \in moving, n \in places[c] :
           \/ /\ Move(s, n) /\ round' = turn \ {c}
              /\ UNCHANGED <<phase, cursor, scan, target, rescue, got>>
           \/ MoveRaises(s)
    BY <2>1
  <2>3. s \in Solver /\ n \in tree BY <1>1 DEF SearchInv, TypeOK
  <2>4. CASE Move(s, n) /\ round' = turn \ {c} /\ UNCHANGED <<phase, cursor, scan, target, rescue, got>>
    BY <1>1, <2>3, <2>4, MoveInTree DEF SearchInv, Whereabouts, Unknown
  <2>5. CASE MoveRaises(s)
    BY <2>5 DEF MoveRaises, EndHandler, ResetLocals, SearchInv, TypeOK, Whereabouts
  <2> QED BY <2>2, <2>4, <2>5
<1> QED BY <1>2, <1>3

\* Whereabouts is kept.
LEMMA WhereStep ==
  ASSUME SearchInv, [Next]_vars
  PROVE  Whereabouts'
<1> USE DEF treeVars, solverVars, jobVars, localVars, clientVars
<1>0. /\ TypeOK /\ TreeShape /\ Whereabouts /\ tree \subseteq Node
      /\ cmds \in [Solver -> Seq(Cmd)] /\ at \in [Solver -> Node \cup {None}]
      /\ pos \in [Solver -> Node \cup {None}] /\ Root \in tree
  BY DEF SearchInv, TypeOK
<1>1. CASE Raise
  <2>1. cursor # Root => Parent(cursor) \in tree BY <1>0 DEF TreeShape, Whereabouts
  <2>2. ~Unknown(cursor) BY <1>0, <1>1 DEF Raise, Whereabouts
  <2> QED BY <1>0, <1>1, <2>1, <2>2 DEF Raise, Whereabouts, Unknown, TypeOK
<1>2. CASE TerminateAll
  <2>1. PICK S : Terminate(S) BY <1>2 DEF TerminateAll
  <2>2. \A s \in Solver : \A i \in 1..Len(cmds'[s]) :
           cmds'[s][i].op \in {"SOLVE", "INCREMENTAL"} => cmds'[s][i].node \in tree
    <3>1. [op |-> "TERMINATE"] \in Cmd BY DEF Cmd
    <3> SUFFICES ASSUME NEW s \in Solver PROVE \A i \in 1..Len(cmds'[s]) :
           cmds'[s][i].op \in {"SOLVE", "INCREMENTAL"} => cmds'[s][i].node \in tree
      OBVIOUS
    <3>2. cmds'[s] = cmds[s] \/ cmds'[s] = Append(cmds[s], [op |-> "TERMINATE"])
      BY <2>1 DEF Terminate
    <3>3. \A i \in 1..Len(Append(cmds[s], [op |-> "TERMINATE"])) :
            Append(cmds[s], [op |-> "TERMINATE"])[i].op \in {"SOLVE", "INCREMENTAL"}
            => Append(cmds[s], [op |-> "TERMINATE"])[i].node \in tree
      BY <3>1, AppendInTree
    <3>4. CASE cmds'[s] = cmds[s] BY <1>0, <3>4 DEF Whereabouts
    <3> QED BY <3>2, <3>3, <3>4
  <2> QED BY <1>0, <1>2, <2>2 DEF TerminateAll, EndHandler, ResetLocals, Whereabouts
<1>3. CASE PrintVerdict
  <2>2. \A s \in Solver : \A i \in 1..Len(cmds'[s]) :
           cmds'[s][i].op \in {"SOLVE", "INCREMENTAL"} => cmds'[s][i].node \in tree
    <3>1. [op |-> "STOP"] \in Cmd BY DEF Cmd
    <3> SUFFICES ASSUME NEW s \in Solver PROVE \A i \in 1..Len(cmds'[s]) :
           cmds'[s][i].op \in {"SOLVE", "INCREMENTAL"} => cmds'[s][i].node \in tree
      OBVIOUS
    <3>2. cmds'[s] = cmds[s] \/ cmds'[s] = Append(cmds[s], [op |-> "STOP"])
      BY <1>0, <1>3 DEF PrintVerdict
    <3>3. \A i \in 1..Len(Append(cmds[s], [op |-> "STOP"])) :
            Append(cmds[s], [op |-> "STOP"])[i].op \in {"SOLVE", "INCREMENTAL"}
            => Append(cmds[s], [op |-> "STOP"])[i].node \in tree
      BY <3>1, AppendInTree
    <3>4. CASE cmds'[s] = cmds[s] BY <1>0, <3>4 DEF Whereabouts
    <3> QED BY <3>2, <3>3, <3>4
  <2>3. \A s \in Solver : at'[s] \in tree \cup {None} BY <1>0, <1>3 DEF PrintVerdict, Whereabouts
  <2> QED BY <1>0, <1>3, <2>2, <2>3 DEF PrintVerdict, EndHandler, ResetLocals, Whereabouts
<1>4. ASSUME NEW s \in Solver, PlaceNewcomer(s) PROVE Whereabouts'
  <2>1. \A r \in Solver : at'[r] \in tree \cup {None} BY <1>0, <1>4 DEF PlaceNewcomer, Whereabouts
  <2>2. \A r \in Solver : \A i \in 1..Len(cmds'[r]) :
           cmds'[r][i].op \in {"SOLVE", "INCREMENTAL"} => cmds'[r][i].node \in tree
    <3>1. [op |-> "SOLVE", node |-> Root] \in Cmd BY RootIsNode DEF Cmd
    <3> QED BY <1>0, <1>4, <3>1, PostInTree DEF PlaceNewcomer, Whereabouts
  <2> QED BY <1>0, <1>4, <2>1, <2>2 DEF PlaceNewcomer, EndHandler, ResetLocals, Whereabouts, Unknown
<1>5. CASE StartScan BY <1>0, <1>5 DEF StartScan, Whereabouts
<1>6. ASSUME NEW n \in Node, ScanUnsat(n) PROVE Whereabouts'
  BY <1>0, <1>6 DEF ScanUnsat, Scanning, Rest, Whereabouts
<1>7. ASSUME NEW n \in Node, Scanning(n), Consider(n)
      PROVE  n \in tree /\ target' \in tree \cup {None} /\ (rescue' => target' # None)
  BY <1>0, <1>7, RootIsNode DEF Scanning, Consider, IsFirst, Left, Whereabouts
<1>8. ASSUME NEW n \in Node, ScanExpired(n) PROVE Whereabouts'
  BY <1>0, <1>7, <1>8 DEF ScanExpired, Scanning, Rest, Whereabouts
<1>9. ASSUME NEW n \in Node, ScanRunning(n) PROVE Whereabouts'
  BY <1>0, <1>7, <1>9 DEF ScanRunning, Scanning, Rest, Whereabouts
<1>10. CASE PlaceSolved
  <2> DEFINE places == [c \in Node |-> LeastLoaded(ActiveBelow(c))]
  <2>1. places \in [Node -> SUBSET Node] /\ \A c \in tree : places[c] \subseteq tree
    BY <1>0 DEF LeastLoaded, ActiveBelow, Below
  <2>2. {c \in UnknownParts(Root) : ActiveBelow(c) # {}} \subseteq tree BY DEF UnknownParts, Parts
  <2> HIDE DEF places
  <2>3. HandOut({c \in UnknownParts(Root) : ActiveBelow(c) # {}}, places)
    BY <1>10 DEF PlaceSolved, places
  <2> QED BY <1>0, <1>10, <2>1, <2>2, <2>3, HandOutInTree DEF PlaceSolved, ScanDone
<1>11. CASE ChooseFollowers BY <1>0, <1>11 DEF ChooseFollowers, Whereabouts
<1>12. CASE PlaceFollowers
  <2> DEFINE places == [c \in Node |-> {c}]
  <2>1. places \in [Node -> SUBSET Node] /\ \A c \in tree : places[c] \subseteq tree BY <1>0
  <2>2. UnknownParts(got) \subseteq tree BY DEF UnknownParts, Parts
  <2> HIDE DEF places
  <2>3. HandOut(UnknownParts(got), places) BY <1>12 DEF PlaceFollowers, places
  <2> QED BY <1>0, <1>12, <2>1, <2>2, <2>3, HandOutInTree DEF PlaceFollowers
<1>13. CASE PlaceIdle
  <2>1. PICK n \in Unattempted :
     \/ /\ \E s \in idle : Move(s, n)
        /\ scan' = Rest(n) /\ UNCHANGED <<phase, moving, round, target, rescue, got, cursor>>
     \/ EndHandler /\ UNCHANGED <<at, cmds>>
     \/ /\ scan' = Rest(n)
        /\ UNCHANGED <<at, cmds, phase, moving, round, target, rescue, got, cursor>>
    BY <1>13 DEF PlaceIdle, MoveRaises
  <2>2. n \in tree /\ Rest(n) \subseteq tree BY <1>0 DEF Unattempted, Rest, Whereabouts
  <2>3. UNCHANGED <<tree, status, pos>> /\ phase # "raise" BY <1>13 DEF PlaceIdle
  <2>4. ASSUME NEW s \in idle, Move(s, n), scan' = Rest(n),
               UNCHANGED <<phase, moving, round, target, rescue, got, cursor>>
        PROVE  Whereabouts'
    <3>1. s \in Solver BY <1>0 DEF TypeOK
    <3> QED BY <1>0, <2>2, <2>3, <2>4, <3>1, MoveInTree DEF Whereabouts
  <2>5. CASE EndHandler /\ UNCHANGED <<at, cmds>>
    BY <1>0, <2>3, <2>5 DEF EndHandler, ResetLocals, Whereabouts
  <2>6. CASE scan' = Rest(n) /\ UNCHANGED <<at, cmds, phase, moving, round, target, rescue, got, cursor>>
    BY <1>0, <2>2, <2>3, <2>6 DEF Whereabouts
  <2> QED BY <2>1, <2>4, <2>5, <2>6
<1>14. CASE Rescue
  <2>1. target \in tree /\ phase # "raise" /\ UNCHANGED <<tree, status, pos>>
    BY <1>0, <1>14 DEF Rescue, Placed, Whereabouts
  <2>2. \/ EndHandler /\ UNCHANGED <<at, cmds>>
        \/ phase' = "ask" /\ UNCHANGED <<at, cmds, localVars>>
        \/ \E s \in idle : Move(s, target) /\ phase' = "ask" /\ UNCHANGED localVars
    BY <1>14 DEF Rescue, MoveRaises
  <2>3. CASE EndHandler /\ UNCHANGED <<at, cmds>>
    BY <1>0, <2>1, <2>3 DEF EndHandler, ResetLocals, Whereabouts
  <2>4. CASE phase' = "ask" /\ UNCHANGED <<at, cmds, localVars>>
    BY <1>0, <2>1, <2>4 DEF Whereabouts
  <2>5. ASSUME NEW s \in idle, Move(s, target), phase' = "ask", UNCHANGED localVars
        PROVE  Whereabouts'
    <3>1. s \in Solver BY <1>0 DEF TypeOK
    <3> QED BY <1>0, <2>1, <2>5, <3>1, MoveInTree DEF Whereabouts
  <2> QED BY <2>2, <2>3, <2>4, <2>5
<1>15. CASE Ask
  <2>1. \A r \in Solver : \A i \in 1..Len(cmds'[r]) :
           cmds'[r][i].op \in {"SOLVE", "INCREMENTAL"} => cmds'[r][i].node \in tree
    <3>1. [op |-> "PARTITION"] \in Cmd BY DEF Cmd
    <3>2. cmds' = cmds \/ \E s \in Solver : Post(s, [op |-> "PARTITION"]) BY <1>15 DEF Ask, At
    <3> QED BY <1>0, <3>1, <3>2, PostInTree DEF Whereabouts
  <2> QED BY <1>0, <1>15, <2>1 DEF Ask, EndHandler, ResetLocals, Whereabouts
<1>16. CASE Tick \/ Overdue BY <1>0, <1>16 DEF Tick, Overdue, Whereabouts, Unknown
<1>17. ASSUME NEW s \in Solver, JoinSolver(s) \/ CloseSolver(s) \/ DropReport(s) PROVE Whereabouts'
  BY <1>0, <1>17 DEF JoinSolver, CloseSolver, DropReport, Whereabouts
<1>18. ASSUME NEW s \in Solver, ReadStatus(s) PROVE Whereabouts'
  <2>1. at[s] \in tree /\ Incoming(s).kind # "unknown"
    <3>1. Receives(s) /\ Incoming(s).node = at[s] BY <1>18 DEF ReadStatus, Current
    <3>2. Incoming(s) \in Answer BY <3>1, IncomingTrue
    <3> QED BY <3>1, <3>2, IncomingTrue DEF Answer
  <2> QED BY <1>0, <1>18, <2>1 DEF ReadStatus, Whereabouts, Unknown
<1>19. ASSUME NEW s \in Solver, ReadParts(s) PROVE Whereabouts'
  BY <1>0, <1>19, TreeGrows DEF ReadParts, Whereabouts
<1>21. ASSUME NEW s \in Solver, TakeCommand(s) PROVE Whereabouts'
  <2>1. Head(cmds[s]).op \in {"SOLVE", "INCREMENTAL"} => Head(cmds[s]).node \in tree
    <3>1. cmds[s] # <<>> /\ cmds[s] \in Seq(Cmd) BY <1>0, <1>21 DEF TakeCommand
    <3>2. 1 \in 1..Len(cmds[s]) /\ Head(cmds[s]) = cmds[s][1] BY <3>1
    <3> QED BY <1>0, <3>2 DEF Whereabouts
  <2>2. \A r \in Solver : pos'[r] \in tree \cup {None}
    BY <1>0, <1>21, <2>1 DEF TakeCommand, Exit, Whereabouts
  <2>3. \A r \in Solver : \A i \in 1..Len(cmds'[r]) :
          cmds'[r][i].op \in {"SOLVE", "INCREMENTAL"} => cmds'[r][i].node \in tree
    <3> SUFFICES ASSUME NEW r \in Solver
                 PROVE  \A i \in 1..Len(cmds'[r]) :
                    cmds'[r][i].op \in {"SOLVE", "INCREMENTAL"} => cmds'[r][i].node \in tree
      OBVIOUS
    <3>1. \/ cmds'[r] = cmds[r] \/ cmds'[r] = <<>>
          \/ cmds[r] # <<>> /\ cmds'[r] = Tail(cmds[r])
      BY <1>0, <1>21 DEF TakeCommand, Exit
    <3>2. CASE cmds'[r] = cmds[r] BY <1>0, <3>2 DEF Whereabouts
    <3>3. CASE cmds'[r] = <<>> BY <3>3
    <3>4. CASE cmds[r] # <<>> /\ cmds'[r] = Tail(cmds[r])
      <4>1. \A i \in 1..Len(Tail(cmds[r])) : i + 1 \in 1..Len(cmds[r])
                                             /\ Tail(cmds[r])[i] = cmds[r][i + 1]
        BY <1>0, <3>4
      <4> QED BY <1>0, <3>4, <4>1 DEF Whereabouts
    <3> QED BY <3>1, <3>2, <3>3, <3>4
  <2> QED BY <1>0, <1>21, <2>2, <2>3 DEF TakeCommand, Whereabouts, Unknown
<1>22. ASSUME NEW s \in Solver, Answers(s) \/ Restarts(s) \/ AnswersParts(s) PROVE Whereabouts'
  BY <1>0, <1>22 DEF Answers, Restarts, AnswersParts, Whereabouts, Unknown
<1>23. ASSUME NEW s \in Solver, Dies(s) PROVE Whereabouts'
  BY <1>0, <1>23 DEF Dies, Exit, Whereabouts, Unknown
<1>20. CASE UNCHANGED vars BY <1>0, <1>20 DEF vars, Whereabouts, Unknown
<1> QED
  BY <1>1, <1>2, <1>3, <1>4, <1>5, <1>6, <1>8, <1>9, <1>10, <1>11, <1>12, <1>13, <1>14, <1>15,
     <1>16, <1>17, <1>18, <1>19, <1>20, <1>21, <1>22, <1>23
  DEF Next, Handler, Scan, Halted, Wakeup, Client


\* Fewer requests, at the nodes they were at.
LEMMA FewerRequests ==
  ASSUME SearchInv, orWaiting' \subseteq orWaiting, \A s \in orWaiting' : at'[s] = at[s],
         UNCHANGED <<tree, partitioning>>, target' # None => target' \notin partitioning
  PROVE  Requests'
BY DEF SearchInv, Requests, Parts

\* A move withdraws the request of the solver that moves.
LEMMA MoveRequests ==
  ASSUME SearchInv, NEW s \in Solver, NEW n, Move(s, n) \/ MoveRaises(s)
  PROVE  orWaiting' \subseteq orWaiting /\ \A r \in orWaiting' : at'[r] = at[r]
BY DEF SearchInv, TypeOK, Move, Assign, MoveRaises

\* A hand-out only moves solvers, and a moved solver owes no parts any more.
LEMMA HandOutRequests ==
  ASSUME SearchInv, NEW receivers, NEW places, HandOut(receivers, places)
  PROVE  /\ orWaiting' \subseteq orWaiting /\ \A r \in orWaiting' : at'[r] = at[r]
         /\ target' \in {target, None}
<1> DEFINE turn == IF round = {} THEN receivers ELSE round
<1>1. CASE receivers = {} BY <1>1 DEF HandOut, ResetLocals
<1>2. CASE receivers # {}
  <2>1. PICK s \in moving : \/ \E n : Move(s, n) /\ UNCHANGED target
                            \/ MoveRaises(s)
    BY <1>2 DEF HandOut
  <2>2. s \in Solver BY DEF SearchInv, TypeOK
  <2> QED BY <2>1, <2>2, MoveRequests DEF MoveRaises, EndHandler, ResetLocals
<1> QED BY <1>1, <1>2

\* Requests is kept: only an unpartitioned target is asked, and nobody else owes
\* its parts.
LEMMA RequestsStep ==
  ASSUME SearchInv, [Next]_vars
  PROVE  Requests'
<1> USE DEF treeVars, solverVars, jobVars, localVars, clientVars
<1>0. TypeOK /\ Requests BY DEF SearchInv
<1>1. CASE Raise \/ StartScan \/ ChooseFollowers \/ Tick \/ Overdue \/ UNCHANGED vars
  BY <1>0, <1>1, FewerRequests
  DEF Raise, StartScan, ChooseFollowers, Tick, Overdue, vars, Requests
<1>2. CASE TerminateAll
  BY <1>0, <1>2, FewerRequests DEF TerminateAll, EndHandler, ResetLocals, Requests
<1>3. CASE PrintVerdict
  <2>1. orWaiting' \subseteq orWaiting /\ \A s \in orWaiting' : at'[s] = at[s]
    BY <1>0, <1>3 DEF PrintVerdict, TypeOK
  <2>2. target' = None BY <1>3 DEF PrintVerdict, EndHandler, ResetLocals
  <2> QED BY <1>3, <2>1, <2>2, FewerRequests DEF PrintVerdict
<1>4. ASSUME NEW s \in Solver, PlaceNewcomer(s) PROVE Requests'
  <2>1. s \notin orWaiting BY <1>0, <1>4 DEF PlaceNewcomer, Unplaced, Requests
  <2>2. orWaiting' = orWaiting /\ \A r \in orWaiting' : at'[r] = at[r]
    BY <1>0, <1>4, <2>1 DEF PlaceNewcomer, TypeOK
  <2>3. target' \in {target, None} BY <1>4 DEF PlaceNewcomer, EndHandler, ResetLocals
  <2> QED BY <1>0, <1>4, <2>2, <2>3, FewerRequests DEF PlaceNewcomer, Requests
<1>5. ASSUME NEW n \in Node, ScanUnsat(n) \/ ScanExpired(n) \/ ScanRunning(n) PROVE Requests'
  <2>1. target' # None => target' \notin partitioning
    BY <1>0, <1>5 DEF ScanUnsat, ScanExpired, ScanRunning, Consider, Requests
  <2> QED BY <1>5, <2>1, FewerRequests DEF ScanUnsat, ScanExpired, ScanRunning
<1>6. CASE PlaceSolved \/ PlaceFollowers
  <2>1. \E receivers, places : HandOut(receivers, places)
    BY <1>6 DEF PlaceSolved, PlaceFollowers
  <2> QED BY <1>0, <1>6, <2>1, HandOutRequests, FewerRequests
          DEF PlaceSolved, PlaceFollowers, Requests
<1>7. CASE PlaceIdle \/ Rescue
  <2>1. \/ UNCHANGED <<at, orWaiting>>
        \/ \E s \in idle, n \in scan \cup {target} : Move(s, n)
        \/ \E s \in idle : MoveRaises(s)
    BY <1>7 DEF PlaceIdle, Rescue, Unattempted
  <2>2. target' \in {target, None}
    BY <1>7 DEF PlaceIdle, Rescue, MoveRaises, EndHandler, ResetLocals
  <2>3. orWaiting' \subseteq orWaiting /\ \A r \in orWaiting' : at'[r] = at[r]
    BY <1>0, <2>1, MoveRequests DEF TypeOK
  <2> QED BY <1>0, <1>7, <2>2, <2>3, FewerRequests DEF PlaceIdle, Rescue, Requests
<1>8. CASE Ask
  <2>1. target' = None /\ tree' = tree /\ at' = at BY <1>8 DEF Ask, EndHandler, ResetLocals
  <2>2. CASE UNCHANGED <<orWaiting, partitioning>> BY <2>1, <2>2, FewerRequests
  <2>3. CASE ~UNCHANGED <<orWaiting, partitioning>>
    <3>1. PICK s \in At(target) : /\ orWaiting' = orWaiting \cup {s}
                                  /\ partitioning' = partitioning \cup {target}
                                  /\ target # None
      BY <1>8, <2>3 DEF Ask
    <3>2. target \notin partitioning /\ at[s] = target BY <1>0, <3>1 DEF Requests, At
    <3>3. \A r \in orWaiting : at[r] # target BY <1>0, <3>2 DEF Requests
    <3>4. Parts(target) = {} BY <3>2 DEF SearchInv, TreeShape, Parts
    <3> QED BY <1>0, <2>1, <3>1, <3>2, <3>3, <3>4 DEF Requests, Parts
  <2> QED BY <2>2, <2>3
<1>9. ASSUME NEW s \in Solver, ReadStatus(s) \/ CloseSolver(s) \/ JoinSolver(s) \/ DropReport(s)
      PROVE  Requests'
  <2>1. orWaiting' \subseteq orWaiting /\ \A r \in orWaiting' : at'[r] = at[r]
    BY <1>0, <1>9 DEF ReadStatus, CloseSolver, JoinSolver, DropReport, TypeOK
  <2> QED BY <1>0, <1>9, <2>1, FewerRequests
          DEF ReadStatus, CloseSolver, JoinSolver, DropReport, Requests
<1>10. ASSUME NEW s \in Solver, ReadParts(s) PROVE Requests'
  <2>1. UNCHANGED <<at, partitioning, target>> /\ orWaiting' \in {orWaiting, orWaiting \ {s}}
    BY <1>10 DEF ReadParts
  <2>2. CASE UNCHANGED <<tree, models>> BY <1>0, <2>1, <2>2, FewerRequests DEF Requests
  <2>3. CASE ~UNCHANGED <<tree, models>>
    <3>1. orWaiting' = orWaiting \ {s} /\ s \in orWaiting
      BY <1>10, <2>3 DEF ReadParts
    <3>2. \A c \in tree' \ tree : Parent(c) = at[s] BY <1>10, <2>3, NewParts
    <3>3. \A r \in orWaiting' : at[r] # at[s] BY <1>0, <3>1 DEF Requests
    <3>4. \A r \in orWaiting' : Parts(at[r])' = {}
      BY <1>0, <2>1, <3>1, <3>2, <3>3 DEF Requests, Parts
    <3> QED BY <1>0, <2>1, <3>1, <3>4 DEF Requests
  <2> QED BY <2>2, <2>3
<1>11. ASSUME NEW s \in Solver, Client(s) PROVE Requests'
  BY <1>0, <1>11, FewerRequests DEF Client, TakeCommand, Answers, Restarts, AnswersParts, Dies, Requests
<1> QED
  BY <1>1, <1>2, <1>3, <1>4, <1>5, <1>6, <1>7, <1>8, <1>9, <1>10, <1>11
  DEF Next, Handler, Scan, Halted, Wakeup

-----------------------------------------------------------------------------
(* What is reported, and what is announced.                                *)

\* A report that is true stays true.
LEMMA TrueReports ==
  ASSUME SearchInv, [Next]_vars, NEW r \in Answer, r.node \in tree,
         IF r.kind = "parts" THEN Part(r.node, r.size) <= MaxNode ELSE r.kind = Truth(r.node)
  PROVE  /\ r.node \in tree'
         /\ IF r.kind = "parts" THEN Part(r.node, r.size) <= MaxNode
                                ELSE r.kind = Truth(r.node)'
BY TreeGrows DEF Truth

\* ReportsTrue is kept: solvers report what is true of the node they work on.
LEMMA ReportsStep ==
  ASSUME SearchInv, [Next]_vars
  PROVE  ReportsTrue'
<1> USE DEF treeVars, solverVars, jobVars, localVars, clientVars
<1> DEFINE True(r) == /\ r.node \in tree
                      /\ IF r.kind = "parts" THEN Part(r.node, r.size) <= MaxNode
                                             ELSE r.kind = Truth(r.node)
<1>0. /\ TypeOK /\ Whereabouts /\ reports \in [Solver -> Seq(Answer)]
      /\ \A s \in Solver : \A i \in 1..Len(reports[s]) : True(reports[s][i])
  BY DEF SearchInv, TypeOK, ReportsTrue
<1> HIDE DEF True
<1>1. \/ reports' = reports
      \/ \E s \in Solver : Receives(s)
      \/ \E s \in Solver, r \in Answer : Report(s, r) /\ True(r)
  <2>1. Raise \/ TerminateAll \/ PrintVerdict \/ StartScan \/ ChooseFollowers \/ Tick \/ Overdue
        \/ PlaceSolved \/ PlaceFollowers \/ PlaceIdle \/ Rescue \/ Ask \/ Scan \/ UNCHANGED vars
        => reports' = reports
    BY DEF Raise, TerminateAll, PrintVerdict, StartScan, ChooseFollowers, Tick, Overdue, PlaceSolved,
           PlaceFollowers, PlaceIdle, Rescue, Ask, Scan, ScanUnsat, ScanExpired, ScanRunning, vars
  <2>2. \A s \in Solver : PlaceNewcomer(s) \/ JoinSolver(s) \/ CloseSolver(s) \/ TakeCommand(s)
                          \/ Restarts(s) \/ Dies(s) => reports' = reports
    BY DEF PlaceNewcomer, JoinSolver, CloseSolver, TakeCommand, Restarts, Dies
  <2>3. \A s \in Solver : DropReport(s) \/ ReadStatus(s) \/ ReadParts(s) => Receives(s)
    BY DEF DropReport, ReadStatus, ReadParts
  <2>4. ASSUME NEW s \in Solver, Answers(s) PROVE \E r \in Answer : Report(s, r) /\ True(r)
    <3> DEFINE r == [kind |-> Truth(pos[s]), node |-> pos[s]]
    <3>1. pos[s] \in tree /\ pos[s] \in Node BY <1>0, <2>4 DEF Answers, Whereabouts, TypeOK
    <3>2. r \in Answer BY <3>1 DEF Answer, Truth
    <3>3. True(r) BY <3>1 DEF True, Truth
    <3>4. Report(s, r) BY <2>4 DEF Answers
    <3> QED BY <3>2, <3>3, <3>4
  <2>5. ASSUME NEW s \in Solver, AnswersParts(s) PROVE \E r \in Answer : Report(s, r) /\ True(r)
    <3>1. pos[s] \in tree /\ pos[s] \in Node BY <1>0, <2>5 DEF AnswersParts, Whereabouts, TypeOK
    <3>2. CASE \E m \in 0..K : Report(s, [kind |-> "parts", node |-> pos[s], size |-> m])
      <4>1. PICK m \in 0..K : Report(s, [kind |-> "parts", node |-> pos[s], size |-> m]) BY <3>2
      <4> DEFINE r == [kind |-> "parts", node |-> pos[s], size |-> m]
      <4>2. r \in Answer BY <3>1 DEF Answer
      <4>3. Part(pos[s], m) <= MaxNode
        <5>1. Part(pos[s], K) <= MaxNode BY <2>5 DEF AnswersParts
        <5>2. K * pos[s] \in Int /\ m <= K /\ m \in Int /\ K \in Int
          BY <3>1, SchedulerAssumption DEF Node
        <5> QED BY <5>1, <5>2, SchedulerAssumption DEF Part
      <4>4. True(r) BY <3>1, <4>3 DEF True
      <4> QED BY <4>1, <4>2, <4>4
    <3>3. CASE pos[s] \in models /\ Report(s, [kind |-> "sat", node |-> pos[s]])
      <4> DEFINE r == [kind |-> "sat", node |-> pos[s]]
      <4>1. r \in Answer /\ True(r) BY <3>1, <3>3 DEF Answer, True, Truth
      <4> QED BY <3>3, <4>1
    <3> QED BY <2>5, <3>2, <3>3 DEF AnswersParts
  <2> QED BY <2>1, <2>2, <2>3, <2>4, <2>5 DEF Next, Handler, Halted, Wakeup, Client
<1>2. ASSUME NEW r \in Answer, True(r) PROVE True(r)' BY <1>2, TrueReports DEF True
<1>3. SUFFICES ASSUME NEW s \in Solver, NEW i \in 1..Len(reports'[s])
               PROVE  \E r \in Answer : r = reports'[s][i] /\ True(r)'
  BY DEF ReportsTrue, True
<1>4. \E r \in Answer : r = reports'[s][i] /\ True(r)
  <2>1. CASE reports'[s] = reports[s] BY <1>0, <2>1
  <2>2. CASE Receives(s)
    <3>1. reports[s] # <<>> /\ reports'[s] = Tail(reports[s]) BY <1>0, <2>2 DEF Receives
    <3>2. i + 1 \in 1..Len(reports[s]) /\ reports'[s][i] = reports[s][i + 1] BY <1>0, <3>1
    <3> QED BY <1>0, <3>2
  <2>3. ASSUME NEW r \in Answer, Report(s, r), True(r)
        PROVE  \E x \in Answer : x = reports'[s][i] /\ True(x)
    <3>1. reports'[s] = Append(reports[s], r) BY <1>0, <2>3 DEF Report
    <3>2. reports'[s][i] = r \/ (i \in 1..Len(reports[s]) /\ reports'[s][i] = reports[s][i])
      BY <1>0, <3>1, AppendElements
    <3> QED BY <1>0, <2>3, <3>2
  <2>4. ASSUME NEW q \in Solver, Receives(q) \/ \E r \in Answer : Report(q, r), q # s
        PROVE  reports'[s] = reports[s]
    BY <1>0, <2>4 DEF Receives, Report
  <2> QED BY <1>1, <2>1, <2>2, <2>3, <2>4
<1> QED BY <1>2, <1>4

\* What is learned is true of a node that was open, and never taken back.
LEMMA Learned ==
  ASSUME SearchInv, [Next]_vars, NEW n \in Node, status'[n] # status[n]
  PROVE  n \in tree /\ Unknown(n) /\ status'[n] = Truth(n)
<1>1. TypeOK /\ StatusSound BY DEF SearchInv
<1>2. n \in tree /\ status'[n] # "unknown"
  <2>1. CASE Raise
    <3>1. cursor \in tree /\ ~Unknown(cursor) BY <2>1 DEF SearchInv, Whereabouts, Raise
    <3>2. cursor # Root /\ n = Parent(cursor) /\ status'[n] = status[cursor]
      BY <1>1, <2>1 DEF Raise, TypeOK
    <3> QED BY <3>1, <3>2 DEF SearchInv, TreeShape, Unknown
  <2>2. ASSUME NEW s \in Solver, ReadStatus(s) PROVE n \in tree /\ status'[n] # "unknown"
    <3>1. Receives(s) /\ Incoming(s).node = at[s] /\ Incoming(s).kind # "parts"
      BY <2>2 DEF ReadStatus, Current
    <3>2. at[s] \in tree /\ Incoming(s).kind # "unknown" BY <3>1, IncomingTrue DEF Truth
    <3>3. /\ n = at[s] \/ n \in Below(at[s])
          /\ status'[n] = Incoming(s).kind
      BY <2>2 DEF ReadStatus
    <3> QED BY <3>2, <3>3 DEF Below
  <2>3. ASSUME NEW s \in Solver, ReadParts(s) PROVE FALSE BY <2>3 DEF ReadParts
  <2> QED BY <2>1, <2>2, <2>3, WhoLearns
<1>3. n \in tree' /\ Truth(n)' = Truth(n) BY <1>2, TreeGrows DEF Truth
<1>4. status'[n] = Truth(n) BY <1>2, <1>3, SoundStep DEF StatusSound, Unknown
<1> QED BY <1>1, <1>2, <1>4 DEF StatusSound

\* VerdictKept: a verdict is the status of the root, which is never revised.
LEMMA VerdictStep ==
  ASSUME SearchInv, [Next]_vars
  PROVE  VerdictKept'
<1> USE DEF treeVars, solverVars, jobVars, localVars, clientVars
<1>1. verdict' = verdict \/ PrintVerdict
  <2>1. Raise \/ TerminateAll \/ StartScan \/ ChooseFollowers \/ Tick \/ Overdue
        \/ PlaceSolved \/ PlaceFollowers \/ PlaceIdle \/ Rescue \/ Ask \/ Scan \/ UNCHANGED vars
        => verdict' = verdict
    BY DEF Raise, TerminateAll, StartScan, ChooseFollowers, Tick, Overdue, PlaceSolved,
           PlaceFollowers, PlaceIdle, Rescue, Ask, Scan, ScanUnsat, ScanExpired, ScanRunning, vars
  <2>2. \A s \in Solver : PlaceNewcomer(s) \/ Wakeup(s) \/ Client(s) => verdict' = verdict
    BY DEF PlaceNewcomer, Wakeup, JoinSolver, CloseSolver, DropReport, ReadStatus, ReadParts, Client,
           TakeCommand, Answers, Restarts, AnswersParts, Dies
  <2> QED BY <2>1, <2>2 DEF Next, Handler, Halted
<1>2. CASE PrintVerdict BY <1>2 DEF PrintVerdict, VerdictKept
<1>3. ~Unknown(Root) => status'[Root] = status[Root] BY RootIsNode, Learned
<1> QED BY <1>1, <1>2, <1>3 DEF VerdictKept, SearchInv, Unknown

-----------------------------------------------------------------------------
(* The theorems.                                                           *)

\* The instance as entrust starts it satisfies the invariant.
LEMMA SearchInit ==
  ASSUME Init
  PROVE  SearchInv
<1>1. [op |-> "SOLVE", node |-> Root] \in Cmd BY RootIsNode DEF Cmd
<1>2. Cardinality(Early) \in Nat /\ Early \in SUBSET Solver
  BY SchedulerAssumption, SolversCount
<1>3. TypeOK
  <2>1. cmds \in [Solver -> Seq(Cmd)] BY <1>1 DEF Init
  <2>2. tree \in SUBSET Node /\ models \in SUBSET Node /\ started \in SUBSET Node
    BY RootIsNode DEF Init
  <2>3. at \in [Solver -> Node \cup {None}] /\ status \in [Node -> Status]
    BY RootIsNode DEF Init, Status
  <2>4. nodeTimeout \in BOOLEAN BY Zenon DEF Init
  <2>5. cursor \in Node /\ target \in Node \cup {None} /\ got \in Node \cup {None}
    BY RootIsNode DEF Init
  <2>6. /\ pos \in [Solver -> Node \cup {None}] /\ reports \in [Solver -> Seq(Answer)]
        /\ conn \in [Solver -> {"away", "up", "dead", "closed"}]
    BY DEF Init
  <2>7. overdue \in BOOLEAN /\ terminate \in BOOLEAN /\ jammed \in BOOLEAN /\ rescue \in BOOLEAN
    BY DEF Init
  <2> QED BY <1>2, <2>1, <2>2, <2>3, <2>4, <2>5, <2>6, <2>7 DEF Init, TypeOK, Phase
<1>4. TreeShape /\ StatusSound BY RootIsNode DEF Init, TreeShape, StatusSound, Unknown
<1>5. \A n \in tree : Parts(n) = {} BY DEF Init, Parts
<1>6. Whereabouts
  <2>1. \A s \in Solver : \A i \in 1..Len(cmds[s]) : cmds[s][i] = [op |-> "SOLVE", node |-> Root]
    BY DEF Init
  <2> QED BY <2>1, RootIsNode DEF Init, Whereabouts
<1>7. PartsCover /\ Requests /\ ReportsTrue /\ VerdictKept
  BY <1>5 DEF Init, PartsCover, Requests, ReportsTrue, VerdictKept
<1> QED BY <1>3, <1>4, <1>6, <1>7 DEF SearchInv

\* SearchInv is an invariant of the scheduler.
THEOREM SearchInvariant == Spec => []SearchInv
<1>1. Init => SearchInv BY SearchInit
<1>2. SearchInv /\ [Next]_vars => SearchInv'
  BY TypeStep, ShapeStep, CoverStep, SoundStep, WhereStep, RequestsStep, ReportsStep, VerdictStep
  DEF SearchInv
<1> QED BY <1>1, <1>2, PTL DEF Spec

\* Every variable keeps its type, in every reachable state.
THEOREM TypeCorrect == Spec => []TypeOK
<1>1. SearchInv => TypeOK BY DEF SearchInv
<1> QED BY <1>1, SearchInvariant, PTL

\* However solvers are moved, whatever reports are under way and whoever dies:
\* a status the server records is the truth about its node.
THEOREM Soundness == Spec => []StatusSound
<1>1. SearchInv => StatusSound BY DEF SearchInv
<1> QED BY <1>1, SearchInvariant, PTL

\* The initial state of the scheduler is one of the abstract search.
LEMMA PromiseInit ==
  ASSUME Init
  PROVE  Promise!Init
BY DEF Init, Promise!Init, Promise!Node, Promise!Root, Node, Root

\* Parts that arrive split an open node.
LEMMA PromiseSplit ==
  ASSUME SearchInv, NEW s \in Solver, ReadParts(s)
  PROVE  (\E n \in Node : Promise!Split(n)) \/ UNCHANGED Promise!vars
<1>1. UNCHANGED <<status, overdue, verdict>> BY DEF ReadParts
<1>2. CASE UNCHANGED <<tree, models>> BY <1>1, <1>2 DEF Promise!vars
<1>3. CASE ~UNCHANGED <<tree, models>>
  <2>1. at[s] \in tree /\ Unknown(at[s]) /\ at[s] \in Node
    BY <1>3, NewParts DEF SearchInv, TypeOK
  <2>2. PICK size \in 1..K :
          LET new == {Part(at[s], i) : i \in 1..size} IN
          /\ new \subseteq Node \ {Root} /\ new \cap tree = {}
          /\ tree' = tree \cup new
          /\ \E yes \in SUBSET new : /\ at[s] \in models <=> yes # {}
                                     /\ models' = models \cup yes
    BY <1>3, NewParts
  <2>3. Promise!Split(at[s])
    BY <1>1, <2>1, <2>2 DEF Promise!Split, Promise!Node, Node, Part, Unknown
  <2> QED BY <2>1, <2>3
<1> QED BY <1>2, <1>3

\* Every step of the scheduler is a step of the abstract search, or none.
LEMMA PromiseStep ==
  ASSUME SearchInv, [Next]_vars
  PROVE  Promise!Next \/ UNCHANGED Promise!vars
<1> USE DEF treeVars, solverVars, jobVars, localVars, clientVars
<1>1. CASE Raise \/ \E s \in Solver : ReadStatus(s)
  <2>1. UNCHANGED <<tree, models, overdue, verdict>> BY <1>1 DEF Raise, ReadStatus
  <2>2. status' \in [Node -> Status] BY TypeStep DEF TypeOK
  <2>3. Promise!Learn
    BY <2>1, <2>2, Learned DEF Promise!Learn, Promise!Node, Node, Status, Unknown, Truth
  <2> QED BY <2>3 DEF Promise!Next
<1>2. ASSUME NEW s \in Solver, ReadParts(s) PROVE Promise!Next \/ UNCHANGED Promise!vars
  BY <1>2, PromiseSplit DEF Promise!Next, Promise!Node, Node
<1>3. CASE PrintVerdict
  <2>1. UNCHANGED <<tree, models, status, overdue>> /\ verdict' = status[Root] /\ Settled
    BY <1>3 DEF PrintVerdict
  <2>2. CASE verdict \in {"none", "unknown"}
    BY <2>1, <2>2 DEF Promise!Next, Promise!Announce, Promise!Root, Root, Settled, Unknown
  <2>3. CASE verdict \notin {"none", "unknown"}
    BY <2>1, <2>3 DEF SearchInv, VerdictKept, Promise!vars
  <2> QED BY <2>2, <2>3
<1>4. CASE Overdue
  BY <1>4 DEF Overdue, Promise!Next, Promise!Expire
<1>5. CASE UNCHANGED Promise!vars BY <1>5
<1>6. \/ Raise \/ PrintVerdict \/ Overdue
      \/ \E s \in Solver : ReadStatus(s) \/ ReadParts(s)
      \/ UNCHANGED Promise!vars
  <2>1. TerminateAll \/ StartScan \/ ChooseFollowers \/ Tick \/ PlaceSolved \/ PlaceFollowers
        \/ PlaceIdle \/ Rescue \/ Ask \/ Scan \/ UNCHANGED vars => UNCHANGED Promise!vars
    BY DEF TerminateAll, StartScan, ChooseFollowers, Tick, PlaceSolved, PlaceFollowers, PlaceIdle,
           Rescue, Ask, Scan, ScanUnsat, ScanExpired, ScanRunning, vars, Promise!vars
  <2>2. \A s \in Solver : PlaceNewcomer(s) \/ JoinSolver(s) \/ CloseSolver(s) \/ DropReport(s)
                          \/ Client(s) => UNCHANGED Promise!vars
    BY DEF PlaceNewcomer, JoinSolver, CloseSolver, DropReport, Client, TakeCommand, Answers, Restarts,
           AnswersParts, Dies, Promise!vars
  <2> QED BY <2>1, <2>2 DEF Next, Handler, Halted, Wakeup
<1> QED BY <1>1, <1>2, <1>3, <1>4, <1>5, <1>6

\* The scheduler implements the abstract search: it splits open nodes into parts
\* that cover them, learns true facts only, takes none back, and announces what
\* it knows of the root, "unknown" only when it is late.
THEOREM Implements == Spec => SearchPromise
<1>1. Init => Promise!Init BY PromiseInit
<1>2. SearchInv /\ [Next]_vars => [Promise!Next]_(Promise!vars) BY PromiseStep
<1> QED BY <1>1, <1>2, SearchInvariant, PTL DEF Spec, SearchPromise, Promise!Spec

-----------------------------------------------------------------------------
(* The assertion of entrust.                                               *)

\* A set of nodes has a least element.
LEMMA LeastNode ==
  ASSUME NEW T \in SUBSET Nat, T # {}
  PROVE  \E x \in T : \A y \in T : x <= y
<1>1. \E x \in T : \A y \in T : <<y, x>> \notin OpToRel(<, Nat)
  BY NatLessThanWellFounded, WFMin
<1>2. \A x, y \in Nat : y < x => <<y, x>> \in OpToRel(<, Nat) BY DEF OpToRel
<1>3. \A x, y \in Nat : ~(y < x) => x <= y OBVIOUS
<1> QED BY <1>1, <1>2, <1>3

\* Where the phase of a handler can come from.
LEMMA PhaseFrom ==
  ASSUME [Next]_vars
  PROVE  /\ phase' \in {"scan", "received", "ask"}
            => Unknown(Root) \/ phase \in {"scan", "received", "ask"}
         /\ \/ UNCHANGED <<tree, status, phase, cursor>>
            \/ phase' # "raise" /\ phase # "raise"
            \/ Raise
            \/ \E s \in Solver : ReadStatus(s)
<1> USE DEF treeVars, solverVars, jobVars, localVars, clientVars
<1>1. TerminateAll \/ PrintVerdict \/ StartScan \/ ChooseFollowers \/ Tick \/ Ask \/ Scan
      => /\ phase' \in {"scan", "received", "ask"}
            => Unknown(Root) \/ phase \in {"scan", "received", "ask"}
         /\ phase' # "raise" /\ phase # "raise"
  BY DEF TerminateAll, PrintVerdict, StartScan, Settled, ChooseFollowers, ScanDone, Tick, Ask, Placed,
         EndHandler, Scan, ScanUnsat, ScanExpired, ScanRunning, Scanning
<1>2. PlaceIdle \/ Rescue
      => /\ phase \in {"scan", "received", "ask"}
         /\ phase' # "raise" /\ phase # "raise"
  BY DEF PlaceIdle, Rescue, Placed, MoveRaises, EndHandler
<1>3. ASSUME PlaceSolved \/ PlaceFollowers
      PROVE  /\ phase \in {"scan", "received", "ask"}
             /\ phase' # "raise" /\ phase # "raise"
  <2>1. phase \in {"scan", "received"} BY <1>3 DEF PlaceSolved, PlaceFollowers, ScanDone
  <2>2. \E receivers, places : HandOut(receivers, places)
    BY <1>3 DEF PlaceSolved, PlaceFollowers
  <2>3. phase' \in {"hung", "select", phase} BY <2>2 DEF HandOut, MoveRaises, EndHandler
  <2> QED BY <2>1, <2>3
<1>4. Raise => phase' \notin {"scan", "received", "ask"} BY DEF Raise
<1>5. Overdue \/ UNCHANGED vars => UNCHANGED <<tree, status, phase, cursor>>
  BY DEF Overdue, vars
<1>6. \A s \in Solver : ReadStatus(s) => phase' \notin {"scan", "received", "ask"}
  BY DEF ReadStatus
<1>7. \A s \in Solver : PlaceNewcomer(s) \/ JoinSolver(s) \/ CloseSolver(s) \/ DropReport(s)
                        \/ ReadParts(s)
      => /\ phase' \notin {"scan", "received", "ask"}
         /\ phase' # "raise" /\ phase # "raise"
  BY DEF PlaceNewcomer, EndHandler, JoinSolver, CloseSolver, DropReport, ReadParts, Receives
<1>8. \A s \in Solver : Client(s) => UNCHANGED <<tree, status, phase, cursor>>
  BY DEF Client, TakeCommand, Answers, Restarts, AnswersParts, Dies
<1> QED
  BY <1>1, <1>2, <1>3, <1>4, <1>5, <1>6, <1>7, <1>8, Zenon DEF Next, Handler, Halted, Wakeup

\* sat is recorded at a node only together with its way up.
LEMMA ClimbStep ==
  ASSUME SearchInv, ClimbInv, [Next]_vars
  PROVE  ClimbInv'
<1>0. TypeOK /\ TreeShape /\ SatClimbed BY DEF SearchInv, ClimbInv
<1>1. OpenScan'
  <2> SUFFICES ASSUME phase' \in {"scan", "received", "ask"} PROVE Unknown(Root)'
    BY DEF OpenScan
  <2>1. Unknown(Root) BY PhaseFrom DEF ClimbInv, OpenScan
  <2>2. UNCHANGED status
    <3>1. ~Raise BY DEF Raise
    <3>2. \A s \in Solver : ~ReadStatus(s) BY DEF ReadStatus
    <3>3. \A s \in Solver : ReadParts(s) => status' = status BY DEF ReadParts
    <3> QED BY <3>1, <3>2, <3>3, WhoLearns
  <2> QED BY <2>1, <2>2 DEF Unknown
<1>2. \A n \in tree : status'[n] # status[n] => Unknown(n) BY <1>0, Learned DEF TypeOK
<1>3. SatClimbed'
  <2> SUFFICES ASSUME NEW n \in tree' \ {Root}, status'[n] = "sat",
                      ~(phase' = "raise" /\ cursor' = n)
               PROVE  status'[Parent(n)] = "sat"
    BY DEF SatClimbed
  <2>1. CASE Raise
    <3>1. n \in tree /\ cursor \in tree BY <2>1 DEF Raise, SearchInv, Whereabouts
    <3>2. CASE cursor # Root /\ Climbs(status[cursor], Parent(cursor))
      <4>1. /\ status' = [status EXCEPT ![Parent(cursor)] = status[cursor]]
            /\ phase' = "raise" /\ cursor' = Parent(cursor)
        BY <2>1, <3>2 DEF Raise
      <4>2. n # Parent(cursor) /\ status[n] = "sat" /\ Parent(n) \in tree
        BY <1>0, <3>1, <4>1 DEF TypeOK, TreeShape
      <4>3. CASE n = cursor BY <1>0, <3>1, <4>1, <4>2, <4>3 DEF TypeOK
      <4>4. CASE n # cursor
        <5>1. status[Parent(n)] = "sat" BY <1>0, <3>1, <4>2, <4>4 DEF SatClimbed
        <5> QED BY <1>2, <4>2, <5>1 DEF Unknown
      <4> QED BY <4>3, <4>4
    <3>3. CASE ~(cursor # Root /\ Climbs(status[cursor], Parent(cursor)))
      <4>1. status' = status /\ n # cursor BY <2>1, <3>3 DEF Raise, Climbs
      <4> QED BY <1>0, <3>1, <4>1 DEF SatClimbed
    <3> QED BY <3>2, <3>3
  <2>2. ASSUME NEW s \in Solver, ReadStatus(s) PROVE status'[Parent(n)] = "sat"
    <3>1. n \in tree /\ phase # "raise" /\ Parent(n) \in tree
      BY <1>0, <2>2 DEF ReadStatus, Receives, TreeShape
    <3>2. n # at[s] /\ n \in Node BY <1>0, <2>2, <3>1 DEF ReadStatus, TypeOK
    <3>3. status[n] = "sat" BY <2>2, <3>2 DEF ReadStatus
    <3>4. status[Parent(n)] = "sat" BY <1>0, <3>1, <3>3 DEF SatClimbed
    <3> QED BY <1>2, <3>1, <3>4 DEF Unknown
  <2>3. ASSUME UNCHANGED <<tree, status>>,
               \/ UNCHANGED <<phase, cursor>>
               \/ phase' # "raise" /\ phase # "raise"
        PROVE  status'[Parent(n)] = "sat"
    BY <1>0, <2>3 DEF SatClimbed
  <2>4. ASSUME NEW s \in Solver, ReadParts(s) PROVE status'[Parent(n)] = "sat"
    <3>1. status' = status /\ phase # "raise" BY <2>4 DEF ReadParts, Receives
    <3>2. n \in tree BY <1>0, <3>1, TypeStep DEF TreeShape, Unknown, TypeOK
    <3> QED BY <1>0, <3>1, <3>2 DEF SatClimbed
  <2> QED BY <2>1, <2>2, <2>3, <2>4, WhoLearns, PhaseFrom
<1> QED BY <1>1, <1>3 DEF ClimbInv

\* Below an open root nothing is sat, except what a handler is carrying up: a sat
\* node would have a least one above it, other than the root, whose parent is sat.
LEMMA NoSatOpen ==
  ASSUME SearchInv, ClimbInv, Unknown(Root), phase # "raise", NEW n \in tree
  PROVE  status[n] # "sat"
<1> SUFFICES ASSUME status[n] = "sat" PROVE FALSE OBVIOUS
<1> DEFINE T == {m \in tree : status[m] = "sat"}
<1>0. tree \subseteq Node /\ Node \subseteq Nat BY DEF SearchInv, TypeOK, Node
<1>1. T \in SUBSET Nat /\ T # {} BY <1>0
<1> HIDE DEF T
<1>2. PICK x \in T : \A y \in T : x <= y BY <1>1, LeastNode
<1>3. x # Root /\ x \in Node BY DEF T, Unknown, SearchInv, TypeOK
<1>4. Parent(x) \in T
  <2>1. x \in tree \ {Root} /\ status[x] = "sat" BY <1>3 DEF T
  <2>2. status[Parent(x)] = "sat" BY <2>1 DEF ClimbInv, SatClimbed
  <2> QED BY <2>1, <2>2 DEF T, SearchInv, TreeShape
<1>5. Parent(x) < x /\ Parent(x) \in Nat /\ x \in Nat BY <1>3, ParentBelow DEF Node
<1> QED BY <1>2, <1>4, <1>5

\* ClimbInv is an invariant of the scheduler, too.
THEOREM ClimbInvariant == Spec => []ClimbInv
<1>1. Init => ClimbInv BY RootIsNode DEF Init, ClimbInv, SatClimbed, OpenScan, Unknown
<1>2. SearchInv /\ ClimbInv /\ [Next]_vars => ClimbInv' BY ClimbStep
<1> QED BY <1>1, <1>2, SearchInvariant, PTL DEF Spec

\* "assert node.status != framework.SolveStatus.sat" never fails: the root is open
\* in a scan, so no node below it is sat.
THEOREM AssertionHolds == Spec => []NoSatInScan
<1>1. SearchInv /\ ClimbInv => NoSatInScan
  BY NoSatOpen DEF NoSatInScan, ClimbInv, OpenScan
<1> QED BY <1>1, SearchInvariant, ClimbInvariant, PTL

=============================================================================
