------------------------ MODULE SchedulerViewProofs ------------------------
(***************************************************************************)
(* Proofs about the two sides of Scheduler.tla: what the server does to a  *)
(* solver process is what Client.tla allows, and where the server believes *)
(* a process to be is where it is going.                                   *)
(***************************************************************************)
EXTENDS SchedulerProofs

-----------------------------------------------------------------------------
(* ClientsKept: what the scheduler assumes of a solver process.            *)

\* The process was just started.
LEMMA ClientsInit ==
  ASSUME Init
  PROVE  \A s \in Solver : ClientView(s)!Init
<1> SUFFICES ASSUME NEW s \in Solver PROVE ClientView(s)!Init OBVIOUS
<1>1. models \subseteq 0..MaxNode BY RootIsNode DEF Init, Node
<1> QED BY <1>1 DEF Init, ClientView!Init, ClientView!Node, Root

\* Nothing that the server writes or reads of solver s changed; nor did the process.
Kept(s) ==
  /\ conn'[s] = conn[s] /\ cmds'[s] = cmds[s] /\ reports'[s] = reports[s]
  /\ pos'[s] = pos[s] /\ (s \in fork' <=> s \in fork) /\ (s \in done' <=> s \in done)

\* One command was written to solver s at most, and the server counts a live
\* solver at the node of that command, where it counted it before, or nowhere.
IsMove(c) == c.op \in {"SOLVE", "INCREMENTAL"}
Told(s) ==
  \/ cmds'[s] = cmds[s] /\ (conn[s] = "up" => at'[s] \in {at[s], None})
  \/ \E c \in Cmd :
       /\ conn[s] = "up" /\ cmds'[s] = Append(cmds[s], c)
       /\ at'[s] \in {IF IsMove(c) THEN c.node ELSE at[s], None}

\* Writing to one solver.
LEMMA PostTells ==
  ASSUME TypeOK, NEW r \in Solver, NEW c \in Cmd, Post(r, c), NEW s \in Solver,
         \/ IsMove(c) /\ at' = [at EXCEPT ![r] = c.node]
         \/ ~IsMove(c) /\ at' = at
  PROVE  Told(s)
<1>1. cmds \in [Solver -> Seq(Cmd)] /\ at \in [Solver -> Node \cup {None}] BY DEF TypeOK
<1> QED BY <1>1 DEF Post, Told

\* Writing a move, or failing to.
LEMMA MoveTells ==
  ASSUME TypeOK, NEW r \in Solver, NEW n \in Node, Move(r, n) \/ MoveRaises(r), NEW s \in Solver
  PROVE  Told(s)
<1>1. CASE Move(r, n)
  <2> DEFINE c == [op |-> "INCREMENTAL", node |-> n]
  <2>1. c \in Cmd /\ IsMove(c) /\ c.node = n BY DEF Cmd, IsMove
  <2>2. Post(r, c) /\ at' = [at EXCEPT ![r] = n] BY <1>1 DEF Move, Assign
  <2> HIDE DEF c
  <2> QED BY <2>1, <2>2, PostTells
<1>2. CASE MoveRaises(r) BY <1>2 DEF MoveRaises, Told
<1> QED BY <1>1, <1>2

\* So does one turn of a distribution.
LEMMA HandOutTells ==
  ASSUME TypeOK, NEW receivers \in SUBSET Node, NEW places \in [Node -> SUBSET Node],
         HandOut(receivers, places), NEW s \in Solver
  PROVE  Told(s)
<1> DEFINE turn == IF round = {} THEN receivers ELSE round
<1>1. turn \in SUBSET Node /\ moving \in SUBSET Solver BY DEF TypeOK
<1>2. CASE receivers = {} BY <1>2 DEF HandOut, Told
<1>3. CASE receivers # {}
  <2>1. PICK c \in turn : \E r \in moving, n \in places[c] : Move(r, n) \/ MoveRaises(r)
    BY <1>3 DEF HandOut
  <2>2. PICK r \in moving, n \in places[c] : Move(r, n) \/ MoveRaises(r) BY <2>1
  <2>3. r \in Solver /\ n \in Node BY <1>1
  <2> QED BY <2>2, <2>3, MoveTells
<1> QED BY <1>2, <1>3

\* A step of the server, other than the reading of a report, tells each solver one
\* thing at most.
LEMMA ServerTells ==
  ASSUME SearchInv, Handler \/ Tick \/ Overdue, NEW s \in Solver
  PROVE  /\ Told(s)
         /\ UNCHANGED <<models, conn, reports, pos, fork, done>>
<1> USE DEF treeVars, solverVars, jobVars, localVars, clientVars
<1>0. TypeOK BY DEF SearchInv
<1>1. UNCHANGED <<models, conn, reports, pos, fork, done>>
  BY DEF Handler, Raise, TerminateAll, PrintVerdict, PlaceNewcomer, StartScan, Scan, ScanUnsat,
         ScanExpired, ScanRunning, PlaceSolved, ChooseFollowers, PlaceFollowers, PlaceIdle, Rescue,
         Ask, Tick, Overdue
<1>2. ASSUME UNCHANGED <<cmds, at>> PROVE Told(s) BY <1>2 DEF Told
<1>3. ASSUME TerminateAll PROVE Told(s)
  <2>1. PICK S : Terminate(S) BY <1>3 DEF TerminateAll
  <2>2. [op |-> "TERMINATE"] \in Cmd BY DEF Cmd
  <2>3. at' = at BY <1>3 DEF TerminateAll
  <2> QED BY <2>1, <2>2, <2>3 DEF Terminate, Told, IsMove
<1>4. ASSUME PrintVerdict PROVE Told(s)
  <2>1. [op |-> "STOP"] \in Cmd BY DEF Cmd
  <2>2. /\ \/ cmds'[s] = cmds[s]
           \/ conn[s] = "up" /\ cmds'[s] = Append(cmds[s], [op |-> "STOP"])
        /\ at'[s] \in {at[s], None}
    BY <1>0, <1>4 DEF PrintVerdict, TypeOK
  <2> QED BY <2>1, <2>2 DEF Told, IsMove
<1>5. ASSUME NEW r \in Solver, PlaceNewcomer(r) PROVE Told(s)
  <2> DEFINE c == [op |-> "SOLVE", node |-> Root]
  <2>1. c \in Cmd /\ IsMove(c) /\ c.node = Root BY RootIsNode DEF Cmd, IsMove
  <2>2. at' = [at EXCEPT ![r] = Root] BY <1>5 DEF PlaceNewcomer
  <2>3. (conn[r] = "dead" /\ cmds' = cmds) \/ Post(r, c) BY <1>5 DEF PlaceNewcomer
  <2> HIDE DEF c
  <2>4. ASSUME conn[r] = "dead", cmds' = cmds PROVE Told(s)
    BY <1>0, <2>2, <2>4 DEF Told, TypeOK
  <2> QED BY <1>0, <2>1, <2>2, <2>3, <2>4, PostTells
<1>6. ASSUME PlaceSolved PROVE Told(s)
  <2>1. [c \in Node |-> LeastLoaded(ActiveBelow(c))] \in [Node -> SUBSET Node]
    BY <1>0 DEF TypeOK, LeastLoaded, ActiveBelow, Below
  <2>2. {c \in UnknownParts(Root) : ActiveBelow(c) # {}} \in SUBSET Node
    BY <1>0 DEF TypeOK, UnknownParts, Parts
  <2> QED BY <1>0, <1>6, <2>1, <2>2, HandOutTells DEF PlaceSolved
<1>7. ASSUME PlaceFollowers PROVE Told(s)
  <2>1. [c \in Node |-> {c}] \in [Node -> SUBSET Node] OBVIOUS
  <2>2. UnknownParts(got) \in SUBSET Node BY <1>0 DEF TypeOK, UnknownParts, Parts
  <2> QED BY <1>0, <1>7, <2>1, <2>2, HandOutTells DEF PlaceFollowers
<1>8. ASSUME PlaceIdle PROVE Told(s)
  <2>1. UNCHANGED <<cmds, at>> \/ \E n \in Unattempted : \E r \in idle : Move(r, n) \/ MoveRaises(r)
    BY <1>8 DEF PlaceIdle
  <2>2. Unattempted \subseteq Node /\ idle \subseteq Solver BY <1>0 DEF TypeOK, Unattempted
  <2> QED BY <1>0, <1>2, <2>1, <2>2, MoveTells
<1>9. ASSUME Rescue PROVE Told(s)
  <2>1. target \in Node BY <1>0, <1>9 DEF TypeOK, Rescue, SearchInv, Whereabouts
  <2>2. UNCHANGED <<cmds, at>> \/ \E r \in idle : Move(r, target) \/ MoveRaises(r) BY <1>9 DEF Rescue
  <2>3. idle \subseteq Solver BY <1>0 DEF TypeOK
  <2> QED BY <1>0, <1>2, <2>1, <2>2, <2>3, MoveTells
<1>10. ASSUME Ask PROVE Told(s)
  <2>1. [op |-> "PARTITION"] \in Cmd /\ ~IsMove([op |-> "PARTITION"]) BY DEF Cmd, IsMove
  <2>2. at' = at /\ (cmds' = cmds \/ \E r \in Solver : Post(r, [op |-> "PARTITION"]))
    BY <1>10 DEF Ask, At
  <2> QED BY <1>0, <1>2, <2>1, <2>2, PostTells
<1>11. Raise \/ StartScan \/ Scan \/ ChooseFollowers \/ Tick \/ Overdue => UNCHANGED <<cmds, at>>
  BY DEF Raise, StartScan, Scan, ScanUnsat, ScanExpired, ScanRunning, ChooseFollowers, Tick, Overdue
<1> QED BY <1>1, <1>2, <1>3, <1>4, <1>5, <1>6, <1>7, <1>8, <1>9, <1>10, <1>11 DEF Handler

\* What a step of the server is to a solver process.
LEMMA ServerView ==
  ASSUME SearchInv, Handler \/ Tick \/ Overdue, NEW s \in Solver
  PROVE  ClientView(s)!Send \/ UNCHANGED ClientView(s)!vars
<1>1. UNCHANGED <<models, conn, reports, pos, fork, done>> /\ Told(s) BY ServerTells
<1>2. CASE cmds'[s] = cmds[s] BY <1>1, <1>2 DEF ClientView!vars
<1>3. CASE \E c \in Cmd : conn[s] = "up" /\ cmds'[s] = Append(cmds[s], c)
  <2>1. Cmd = ClientView(s)!Cmd BY DEF Cmd, ClientView!Cmd, Node, ClientView!Node
  <2> QED BY <1>1, <1>3, <2>1 DEF ClientView!Send, ClientView!Up
<1> QED BY <1>1, <1>2, <1>3 DEF Told

\* The reading of a report of any solver.
LEMMA ReadView ==
  ASSUME SearchInv, NEW r \in Solver, DropReport(r) \/ ReadStatus(r) \/ ReadParts(r),
         NEW s \in Solver
  PROVE  ClientView(s)!Receive
<1>1. UNCHANGED <<conn, cmds, pos, fork, done>>
  BY DEF DropReport, ReadStatus, ReadParts, solverVars, jobVars
<1>2. models \subseteq models'
  <2>1. DropReport(r) \/ ReadStatus(r) => models' = models
    BY DEF DropReport, ReadStatus, treeVars
  <2>2. ReadParts(r) => models \subseteq models' BY NewParts
  <2> QED BY <2>1, <2>2
<1>3. Receives(r) BY DEF DropReport, ReadStatus, ReadParts
<1>4. reports \in [Solver -> Seq(Answer)] BY DEF SearchInv, TypeOK
<1>5. CASE s = r
  <2>1. reports[s] # <<>> /\ reports'[s] = Tail(reports[s]) BY <1>3, <1>4, <1>5 DEF Receives
  <2> QED BY <1>1, <1>2, <2>1 DEF ClientView!Receive
<1>6. CASE s # r
  <2>1. reports'[s] = reports[s] BY <1>3, <1>4, <1>6 DEF Receives
  <2> QED BY <1>1, <1>2, <2>1 DEF ClientView!Receive
<1> QED BY <1>5, <1>6

\* A solver registers, or its socket is closed.
LEMMA SocketView ==
  ASSUME SearchInv, NEW r \in Solver, JoinSolver(r) \/ CloseSolver(r), NEW s \in Solver
  PROVE  ClientView(s)!Connect \/ UNCHANGED ClientView(s)!vars
<1>1. UNCHANGED <<models, cmds, reports, pos, fork, done>>
  BY DEF JoinSolver, CloseSolver, treeVars, localVars, clientVars
<1>2. conn \in [Solver -> {"away", "up", "dead", "closed"}] BY DEF SearchInv, TypeOK
<1>3. CASE JoinSolver(r)
  <2>1. conn[r] = "away" /\ conn' = [conn EXCEPT ![r] = "up"] BY <1>3 DEF JoinSolver
  <2>2. CASE s = r BY <1>1, <1>2, <2>1, <2>2 DEF ClientView!Connect
  <2>3. CASE s # r
    <3>1. conn'[s] = conn[s] BY <1>2, <2>1, <2>3
    <3> QED BY <1>1, <3>1 DEF ClientView!vars
  <2> QED BY <2>2, <2>3
<1>4. CASE CloseSolver(r)
  <2>1. conn[r] = "dead" /\ conn' = [conn EXCEPT ![r] = "closed"] BY <1>4 DEF CloseSolver
  <2>2. (IF conn'[s] = "closed" THEN "dead" ELSE conn'[s])
          = (IF conn[s] = "closed" THEN "dead" ELSE conn[s])
    BY <1>2, <2>1
  <2> QED BY <1>1, <2>2 DEF ClientView!vars
<1> QED BY <1>3, <1>4

\* What one process does, no other one notices.
LEMMA OthersKept ==
  ASSUME SearchInv, NEW r \in Solver, Client(r), NEW s \in Solver \ {r}
  PROVE  UNCHANGED ClientView(s)!vars
<1>0. TypeOK BY DEF SearchInv
<1>1. models' = models
  BY DEF Client, TakeCommand, Answers, Restarts, AnswersParts, Dies, treeVars
<1>2. Kept(s)
  <2>1. CASE TakeCommand(r) BY <1>0, <2>1 DEF TakeCommand, Exit, Kept, TypeOK
  <2>2. CASE Answers(r) BY <1>0, <2>2 DEF Answers, Report, Kept, TypeOK, solverVars
  <2>3. CASE Restarts(r) BY <1>0, <2>3 DEF Restarts, Kept, TypeOK, solverVars
  <2>4. CASE AnswersParts(r) BY <1>0, <2>4 DEF AnswersParts, Report, Kept, TypeOK, solverVars
  <2>5. CASE Dies(r) BY <1>0, <2>5 DEF Dies, Exit, Kept, TypeOK
  <2> QED BY <2>1, <2>2, <2>3, <2>4, <2>5 DEF Client
<1>3. (s \in fork') = (s \in fork) /\ (s \in done') = (s \in done) BY <1>2 DEF Kept
<1> QED BY <1>1, <1>2, <1>3 DEF Kept, ClientView!vars

\* What the model of a process does is what a process may do.
LEMMA ProcessView ==
  ASSUME SearchInv, NEW s \in Solver, Client(s)
  PROVE  ClientView(s)!Next
<1>0. TypeOK BY DEF SearchInv
<1>1. models' = models /\ conn[s] = "up"
  BY DEF Client, TakeCommand, Answers, Restarts, AnswersParts, Dies, treeVars, Alive
<1>2. ASSUME Exit(s), reports' = reports,
             s \in Mortal \/ \E i \in 1..Len(cmds[s]) : cmds[s][i].op \in {"STOP", "TERMINATE"}
      PROVE  ClientView(s)!Exit
  <2>1. /\ conn'[s] = "dead" /\ cmds'[s] = <<>> /\ pos'[s] = None
        /\ s \notin fork' /\ s \notin done'
    BY <1>0, <1>2 DEF Exit, TypeOK
  <2> QED BY <1>1, <1>2, <2>1 DEF ClientView!Exit, ClientView!Up
<1>3. CASE TakeCommand(s)
  <2>1. /\ cmds[s] # <<>> /\ reports' = reports
        /\ \/ /\ Head(cmds[s]).op \in {"SOLVE", "INCREMENTAL"}
              /\ pos' = [pos EXCEPT ![s] = Head(cmds[s]).node]
              /\ fork' = fork \ {s} /\ done' = done \ {s}
              /\ cmds' = [cmds EXCEPT ![s] = Tail(@)] /\ UNCHANGED conn
           \/ /\ Head(cmds[s]).op = "PARTITION"
              /\ fork' = IF s \in done THEN fork ELSE fork \cup {s}
              /\ done' = done \ {s}
              /\ cmds' = [cmds EXCEPT ![s] = Tail(@)] /\ UNCHANGED <<conn, pos>>
           \/ /\ \E i \in 1..Len(cmds[s]) : cmds[s][i].op \in {"STOP", "TERMINATE"}
              /\ Exit(s)
    BY <1>3 DEF TakeCommand
  <2>2. CASE /\ Head(cmds[s]).op \in {"SOLVE", "INCREMENTAL"}
             /\ pos' = [pos EXCEPT ![s] = Head(cmds[s]).node]
             /\ fork' = fork \ {s} /\ done' = done \ {s}
             /\ cmds' = [cmds EXCEPT ![s] = Tail(@)] /\ UNCHANGED conn
    <3>1. /\ pos'[s] = Head(cmds[s]).node /\ cmds'[s] = Tail(cmds[s])
          /\ s \notin fork' /\ s \notin done' /\ conn' = conn
      BY <1>0, <2>2 DEF TypeOK
    <3>2. ClientView(s)!Move BY <1>1, <2>1, <2>2, <3>1 DEF ClientView!Move, ClientView!Up
    <3> QED BY <3>2 DEF ClientView!Next
  <2>3. CASE /\ Head(cmds[s]).op = "PARTITION"
             /\ fork' = IF s \in done THEN fork ELSE fork \cup {s}
             /\ done' = done \ {s}
             /\ cmds' = [cmds EXCEPT ![s] = Tail(@)] /\ UNCHANGED <<conn, pos>>
    <3>1. /\ cmds'[s] = Tail(cmds[s]) /\ s \notin done' /\ UNCHANGED <<conn, pos>>
          /\ (s \in fork' <=> (s \in fork \/ s \notin done))
      BY <1>0, <2>3 DEF TypeOK
    <3>2. ClientView(s)!Partition BY <1>1, <2>1, <2>3, <3>1 DEF ClientView!Partition, ClientView!Up
    <3> QED BY <3>2 DEF ClientView!Next
  <2> QED BY <1>2, <2>1, <2>2, <2>3 DEF ClientView!Next
<1>4. CASE Answers(s)
  <2>1. /\ pos[s] # None /\ s \notin done
        /\ reports'[s] = Append(reports[s], [kind |-> Truth(pos[s]), node |-> pos[s]])
        /\ s \in done' /\ UNCHANGED <<conn, cmds, pos, fork>>
    BY <1>0, <1>4 DEF Answers, Report, TypeOK, solverVars
  <2>2. ClientView(s)!Answer
    BY <1>1, <2>1 DEF ClientView!Answer, ClientView!Up, ClientView!Report, Truth
  <2> QED BY <2>2 DEF ClientView!Next
<1>5. CASE Restarts(s)
  <2>1. s \notin done' /\ UNCHANGED <<conn, cmds, reports, pos, fork>>
    BY <1>5 DEF Restarts, solverVars
  <2>2. ClientView(s)!Restart BY <1>1, <2>1 DEF ClientView!Restart, ClientView!Up
  <2> QED BY <2>2 DEF ClientView!Next
<1>6. CASE AnswersParts(s)
  <2>1. /\ s \in fork /\ s \notin fork' /\ UNCHANGED <<conn, cmds, pos, done>>
        /\ \/ \E m \in 0..K : /\ m = 0 => pos[s] \notin models
                 /\ reports'[s] = Append(reports[s], [kind |-> "parts", node |-> pos[s], size |-> m])
           \/ /\ pos[s] \in models
              /\ reports'[s] = Append(reports[s], [kind |-> "sat", node |-> pos[s]])
    BY <1>0, <1>6 DEF AnswersParts, Report, TypeOK, solverVars
  <2>2. ClientView(s)!AnswerParts
    BY <1>1, <2>1 DEF ClientView!AnswerParts, ClientView!Up, ClientView!Report
  <2> QED BY <2>2 DEF ClientView!Next
<1>7. CASE Dies(s)
  <2>1. ClientView(s)!Exit BY <1>2, <1>7 DEF Dies
  <2> QED BY <2>1 DEF ClientView!Next
<1> QED BY <1>3, <1>4, <1>5, <1>6, <1>7 DEF Client

\* Every step of the program is a step of each process, or of the server beside it,
\* or neither.
LEMMA ClientsStep ==
  ASSUME SearchInv, [Next]_vars
  PROVE  \A s \in Solver : [ClientView(s)!Next]_(ClientView(s)!vars)
<1> SUFFICES ASSUME NEW s \in Solver
             PROVE  ClientView(s)!Next \/ UNCHANGED ClientView(s)!vars
  OBVIOUS
<1>1. CASE Handler \/ Tick \/ Overdue BY <1>1, ServerView DEF ClientView!Next
<1>2. ASSUME NEW r \in Solver, Wakeup(r) PROVE ClientView(s)!Next \/ UNCHANGED ClientView(s)!vars
  BY <1>2, ReadView, SocketView DEF Wakeup, ClientView!Next
<1>3. ASSUME NEW r \in Solver, Client(r) PROVE ClientView(s)!Next \/ UNCHANGED ClientView(s)!vars
  BY <1>3, OthersKept, ProcessView
<1>4. CASE UNCHANGED vars BY <1>4 DEF vars, treeVars, solverVars, clientVars, ClientView!vars
<1> QED BY <1>1, <1>2, <1>3, <1>4 DEF Next, Halted

\* The scheduler only relies on what Client.tla promises of each solver process: it
\* writes to the live ones, reads what they report in order, and the process it
\* imagines does nothing else than obey, answer and die.
THEOREM ProcessesAsPromised == Spec => ClientsKept
<1>1. Init => \A s \in Solver : ClientView(s)!Init BY ClientsInit
<1>2. SearchInv /\ [Next]_vars => \A s \in Solver : [ClientView(s)!Next]_(ClientView(s)!vars)
  BY ClientsStep
<1> QED BY <1>1, <1>2, SearchInvariant, PTL DEF Spec, ClientsKept

-----------------------------------------------------------------------------
(* ViewsAgree: where the server believes a solver works.                   *)

\* Heading, of a queue of commands and the node the process works on.
MovesIn(q) == {i \in 1..Len(q) : IsMove(q[i])}
HeadingOf(q, p) ==
  IF MovesIn(q) = {} THEN p
  ELSE q[CHOOSE i \in MovesIn(q) : \A j \in MovesIn(q) : j <= i].node

\* It is the node of the last move of the queue.
LEMMA HeadingIs ==
  ASSUME NEW q \in Seq(Cmd), NEW p, NEW i \in MovesIn(q), \A j \in MovesIn(q) : j <= i
  PROVE  HeadingOf(q, p) = q[i].node
<1> DEFINE l == CHOOSE k \in MovesIn(q) : \A j \in MovesIn(q) : j <= k
<1>1. l \in MovesIn(q) /\ \A j \in MovesIn(q) : j <= l OBVIOUS
<1>2. l <= i /\ i <= l BY <1>1
<1>3. l \in Nat /\ i \in Nat BY <1>1 DEF MovesIn
<1>4. l = i BY <1>2, <1>3
<1> QED BY <1>1, <1>4 DEF HeadingOf

\* A queue with moves has a last one.
LEMMA LastMove ==
  ASSUME NEW q \in Seq(Cmd), MovesIn(q) # {}
  PROVE  \E i \in MovesIn(q) : \A j \in MovesIn(q) : j <= i
<1>0. Len(q) \in Nat OBVIOUS
<1> DEFINE T == {Len(q) - i : i \in MovesIn(q)}
<1>1. T \in SUBSET Nat /\ T # {} BY <1>0 DEF MovesIn
<1>2. PICK x \in T : \A y \in T : x <= y BY <1>1, LeastNode
<1>3. PICK i \in MovesIn(q) : x = Len(q) - i BY <1>2
<1>4. \A j \in MovesIn(q) : Len(q) - i <= Len(q) - j BY <1>2, <1>3
<1>5. \A j \in MovesIn(q) : j \in Nat BY DEF MovesIn
<1> HIDE DEF T
<1>6. ASSUME NEW j \in MovesIn(q) PROVE j <= i
  <2>1. Len(q) - i <= Len(q) - j /\ i \in Nat /\ j \in Nat BY <1>4, <1>5
  <2> QED BY ONLY <2>1, <1>0
<1> QED BY <1>6

\* A new command changes where the process is going only when it is a move.
LEMMA HeadingAppend ==
  ASSUME NEW q \in Seq(Cmd), NEW c \in Cmd, NEW p
  PROVE  HeadingOf(Append(q, c), p) = IF IsMove(c) THEN c.node ELSE HeadingOf(q, p)
<1> DEFINE a == Append(q, c)
<1>1. a \in Seq(Cmd) /\ Len(q) \in Nat /\ Len(a) = Len(q) + 1 /\ a[Len(q) + 1] = c
      /\ \A i \in 1..Len(q) : a[i] = q[i]
  BY AppendProperties
<1> HIDE DEF a
<1>2. CASE IsMove(c)
  <2>1. Len(q) + 1 \in MovesIn(a) /\ \A j \in MovesIn(a) : j <= Len(q) + 1
    BY <1>1, <1>2 DEF MovesIn
  <2>2. HeadingOf(a, p) = a[Len(q) + 1].node BY <1>1, <2>1, HeadingIs
  <2> QED BY <1>1, <1>2, <2>2 DEF a
<1>3. CASE ~IsMove(c)
  <2>1. MovesIn(a) = MovesIn(q) BY <1>1, <1>3 DEF MovesIn
  <2>2. CASE MovesIn(q) = {} BY <1>3, <2>1, <2>2 DEF HeadingOf, a
  <2>3. CASE MovesIn(q) # {}
    <3>1. PICK i \in MovesIn(q) : \A j \in MovesIn(q) : j <= i BY <2>3, LastMove
    <3>2. HeadingOf(q, p) = q[i].node BY <3>1, HeadingIs
    <3>3. HeadingOf(a, p) = a[i].node BY <1>1, <2>1, <3>1, HeadingIs
    <3>4. a[i] = q[i] BY <1>1, <3>1 DEF MovesIn
    <3> QED BY <1>3, <3>2, <3>3, <3>4 DEF a
  <2> QED BY <2>2, <2>3
<1> QED BY <1>2, <1>3

\* Executing the first command does not change where the process is going.
LEMMA HeadingTail ==
  ASSUME NEW q \in Seq(Cmd), q # <<>>, NEW p, NEW r,
         \/ IsMove(Head(q)) /\ r = Head(q).node
         \/ ~IsMove(Head(q)) /\ r = p
  PROVE  HeadingOf(Tail(q), r) = HeadingOf(q, p)
<1> DEFINE t == Tail(q)
<1>1. /\ t \in Seq(Cmd) /\ Len(q) \in Nat /\ Len(q) >= 1 /\ Len(t) = Len(q) - 1 /\ Head(q) = q[1]
      /\ \A i \in 1..Len(t) : t[i] = q[i + 1]
  BY HeadTailProperties
<1> HIDE DEF t
<1>2. \A i \in MovesIn(t) : i + 1 \in MovesIn(q) BY <1>1 DEF MovesIn
<1>3. \A i \in MovesIn(q) \ {1} : i - 1 \in MovesIn(t)
  <2> SUFFICES ASSUME NEW i \in MovesIn(q) \ {1} PROVE i - 1 \in MovesIn(t) OBVIOUS
  <2>1. i \in 2..Len(q) BY <1>1 DEF MovesIn
  <2>2. i - 1 \in 1..Len(t) /\ (i - 1) + 1 = i BY <1>1, <2>1
  <2>3. t[i - 1] = q[i] BY <1>1, <2>2
  <2> QED BY <2>2, <2>3 DEF MovesIn
<1>4. CASE MovesIn(t) # {}
  <2>1. PICK i \in MovesIn(t) : \A j \in MovesIn(t) : j <= i BY <1>1, <1>4, LastMove
  <2>2. i \in Nat /\ i \in 1..Len(t) BY <1>1 DEF MovesIn
  <2>3. \A j \in MovesIn(q) : j <= i + 1
    <3> SUFFICES ASSUME NEW j \in MovesIn(q) \ {1} PROVE j <= i + 1 BY <2>2
    <3>1. j - 1 <= i /\ j \in Nat BY <1>1, <1>3, <2>1 DEF MovesIn
    <3> QED BY <2>2, <3>1
  <2>4. HeadingOf(q, p) = q[i + 1].node BY <1>2, <2>3, HeadingIs
  <2>5. HeadingOf(t, r) = t[i].node BY <1>1, <2>1, HeadingIs
  <2> QED BY <1>1, <2>2, <2>4, <2>5 DEF t
<1>5. CASE MovesIn(t) = {}
  <2>1. MovesIn(q) \subseteq {1} BY <1>3, <1>5
  <2>2. HeadingOf(t, r) = r BY <1>5 DEF HeadingOf
  <2>3. CASE IsMove(Head(q))
    <3>1. 1 \in MovesIn(q) /\ \A j \in MovesIn(q) : j <= 1 BY <1>1, <2>1, <2>3 DEF MovesIn
    <3>2. HeadingOf(q, p) = q[1].node BY <3>1, HeadingIs
    <3> QED BY <1>1, <2>2, <2>3, <3>2 DEF t
  <2>4. CASE ~IsMove(Head(q))
    <3>1. MovesIn(q) = {} BY <1>1, <2>1, <2>4 DEF MovesIn
    <3> QED BY <2>2, <2>4, <3>1 DEF HeadingOf, t
  <2> QED BY <2>3, <2>4
<1> QED BY <1>4, <1>5

\* A process that has not registered yet is nowhere in the books of the server.
AwayNowhere == \A s \in Solver : conn[s] = "away" => at[s] = None /\ s \notin idle \cup moving

\* The solvers a distribution sends to nodes come from moving_solvers.
LEMMA HandOutMoves ==
  ASSUME TypeOK, NEW receivers, NEW places, HandOut(receivers, places), NEW s \in Solver \ moving
  PROVE  at'[s] = at[s] /\ s \notin moving'
<1>1. CASE receivers = {} BY <1>1 DEF HandOut, ResetLocals
<1>2. ASSUME NEW r \in moving, NEW n, Move(r, n), moving' = moving \ {r}
      PROVE  at'[s] = at[s] /\ s \notin moving'
  BY <1>2 DEF Move, Assign, TypeOK
<1>3. ASSUME NEW r \in moving, MoveRaises(r) PROVE at'[s] = at[s] /\ s \notin moving'
  BY <1>3 DEF MoveRaises, EndHandler, ResetLocals
<1>4. CASE receivers # {}
  <2>1. \E r \in moving : \E n : \/ Move(r, n) /\ moving' = moving \ {r}
                                 \/ MoveRaises(r)
    BY <1>4, Zenon DEF HandOut
  <2> QED BY <2>1, <1>2, <1>3
<1> QED BY <1>1, <1>4

\* A step that leaves idle_solvers, movable_solvers and the assigned nodes alone, or
\* empties them.
LEMMA AwayStep ==
  ASSUME SearchInv, AwayNowhere, [Next]_vars
  PROVE  AwayNowhere'
<1> USE DEF treeVars, solverVars, jobVars, localVars, clientVars
<1>0. TypeOK BY DEF SearchInv
<1>1. \A s \in Solver : conn'[s] = "away" => conn[s] = "away"
  <2>1. Handler \/ Tick \/ Overdue => conn' = conn
    BY DEF Handler, Raise, TerminateAll, PrintVerdict, PlaceNewcomer, StartScan, Scan, ScanUnsat,
         ScanExpired, ScanRunning, PlaceSolved, ChooseFollowers, PlaceFollowers, PlaceIdle, Rescue,
         Ask, Tick, Overdue
  <2>2. \A r \in Solver : DropReport(r) \/ ReadStatus(r) \/ ReadParts(r) \/ Answers(r) \/ Restarts(r)
                          \/ AnswersParts(r) => conn' = conn
    BY DEF DropReport, ReadStatus, ReadParts, Answers, Restarts, AnswersParts
  <2>3. \A r \in Solver : JoinSolver(r) \/ CloseSolver(r) \/ TakeCommand(r) \/ Dies(r)
                          => \A s \in Solver : conn'[s] = "away" => conn[s] = "away"
    BY <1>0 DEF JoinSolver, CloseSolver, TakeCommand, Dies, Exit, TypeOK
  <2>4. UNCHANGED vars => conn' = conn BY DEF vars
  <2> QED BY <2>1, <2>2, <2>3, <2>4 DEF Next, Halted, Wakeup, Client
<1> SUFFICES ASSUME NEW s \in Solver, conn[s] = "away"
             PROVE  at'[s] = None /\ s \notin idle' /\ s \notin moving'
  BY <1>1 DEF AwayNowhere
<1>2. at[s] = None /\ s \notin idle /\ s \notin moving BY DEF AwayNowhere
<1>3. CASE UNCHANGED <<at, idle, moving>> BY <1>2, <1>3
<1>4. \A n \in Node : s \notin At(n) BY <1>2, RootIsNode DEF At
<1>5. ASSUME NEW n \in Node, ScanUnsat(n) PROVE at'[s] = None /\ s \notin idle' /\ s \notin moving'
  <2>1. Closed(n) \subseteq Node BY ParentBelow DEF Closed
  <2>2. s \notin Freed(n) BY <1>4, <2>1 DEF Freed
  <2>3. at' = at /\ idle' = idle \ Freed(n) /\ moving' = moving \cup Freed(n)
    BY <1>5 DEF ScanUnsat, LeaveIdle
  <2> QED BY <1>2, <2>2, <2>3
<1>6. ASSUME NEW n \in Node, ScanExpired(n) PROVE at'[s] = None /\ s \notin idle' /\ s \notin moving'
  <2>1. at' = at /\ moving' = moving /\ idle' \subseteq idle \cup At(n) BY <1>6 DEF ScanExpired
  <2> QED BY <1>2, <1>4, <2>1
<1>7. CASE ChooseFollowers
  <2>1. at' = at /\ idle' = idle BY <1>7 DEF ChooseFollowers
  <2>2. moving' = moving \/ \E M : MayFollow(got, M) /\ got # None /\ moving' = M
    BY <1>7, Zenon DEF ChooseFollowers
  <2>3. ASSUME NEW M, MayFollow(got, M), got # None PROVE s \notin M
    <3>1. got \in Node BY <1>0, <2>3 DEF TypeOK
    <3>2. Path[got] \subseteq Node BY <3>1 DEF Path
    <3>3. s \in M => at[s] # None BY <2>3, <3>2, RootIsNode DEF MayFollow
    <3> QED BY <1>2, <3>3
  <2> QED BY <1>2, <2>1, <2>2, <2>3
<1>8. ASSUME NEW receivers, NEW places, HandOut(receivers, places), idle' = idle
      PROVE  at'[s] = None /\ s \notin idle' /\ s \notin moving'
  BY <1>0, <1>2, <1>8, HandOutMoves
<1>9. CASE PlaceSolved \/ PlaceFollowers BY <1>8, <1>9, Zenon DEF PlaceSolved, PlaceFollowers
<1>10. ASSUME NEW r \in idle, NEW n, Move(r, n) \/ MoveRaises(r) PROVE at'[s] = None
  BY <1>0, <1>2, <1>10 DEF Move, Assign, MoveRaises, TypeOK
<1>11. CASE PlaceIdle
  <2>1. at' = at \/ \E r \in idle : \E n : Move(r, n) \/ MoveRaises(r) BY <1>11 DEF PlaceIdle
  <2>2. idle' \subseteq idle BY <1>11 DEF PlaceIdle, LeaveIdle
  <2>3. moving' \subseteq moving BY <1>11 DEF PlaceIdle, MoveRaises, EndHandler, ResetLocals
  <2> QED BY <1>2, <1>10, <2>1, <2>2, <2>3
<1>12. CASE Rescue
  <2>1. at' = at \/ \E r \in idle : \E n : Move(r, n) \/ MoveRaises(r) BY <1>12 DEF Rescue
  <2>2. idle' \subseteq idle BY <1>12 DEF Rescue, LeaveIdle
  <2>3. moving' \subseteq moving BY <1>12 DEF Rescue, MoveRaises, EndHandler, ResetLocals
  <2> QED BY <1>2, <1>10, <2>1, <2>2, <2>3
<1>13. ASSUME NEW r \in Solver, PlaceNewcomer(r)
       PROVE  at'[s] = None /\ s \notin idle' /\ s \notin moving'
  <2>1. s # r BY <1>13 DEF PlaceNewcomer, Unplaced, InRlist
  <2>2. at'[s] = at[s] /\ idle' = idle BY <1>0, <1>13, <2>1 DEF PlaceNewcomer, TypeOK
  <2>3. moving' \subseteq moving BY <1>13 DEF PlaceNewcomer, EndHandler, ResetLocals
  <2> QED BY <1>2, <2>2, <2>3
<1>14. CASE PrintVerdict
  <2>1. at'[s] \in {at[s], None} BY <1>0, <1>14 DEF PrintVerdict, TypeOK
  <2>2. idle' \subseteq idle BY <1>14 DEF PrintVerdict
  <2>3. moving' = {} BY <1>14 DEF PrintVerdict, EndHandler, ResetLocals
  <2> QED BY <1>2, <2>1, <2>2, <2>3
<1>15. CASE TerminateAll \/ Ask
  <2>1. at' = at /\ idle' = idle BY <1>15 DEF TerminateAll, Ask
  <2>2. moving' = {} BY <1>15 DEF TerminateAll, Ask, EndHandler, ResetLocals
  <2> QED BY <1>2, <2>1, <2>2
<1>16. ASSUME NEW r \in Solver, CloseSolver(r)
       PROVE  at'[s] = None /\ s \notin idle' /\ s \notin moving'
  BY <1>0, <1>2, <1>16 DEF CloseSolver, TypeOK
<1>17. Raise \/ StartScan \/ Tick \/ Overdue \/ UNCHANGED vars => UNCHANGED <<at, idle, moving>>
  BY DEF Raise, StartScan, Tick, Overdue, vars
<1>18. \A n \in Node : ScanRunning(n) => UNCHANGED <<at, idle, moving>> BY DEF ScanRunning
<1>19. \A r \in Solver : JoinSolver(r) \/ DropReport(r) \/ ReadStatus(r) \/ ReadParts(r) \/ Client(r)
                        => UNCHANGED <<at, idle, moving>>
  BY DEF JoinSolver, DropReport, ReadStatus, ReadParts, Client, TakeCommand, Answers, Restarts,
         AnswersParts, Dies
<1> QED
  BY <1>3, <1>5, <1>6, <1>7, <1>9, <1>11, <1>12, <1>13, <1>14, <1>15, <1>16, <1>17, <1>18, <1>19
  DEF Next, Handler, Halted, Scan, Wakeup

\* A process with the same commands on the same node goes to the same place.
LEMMA HeadingKept ==
  ASSUME NEW s \in Solver, UNCHANGED <<cmds[s], pos[s]>>
  PROVE  Heading(s)' = Heading(s)
<1>1. HeadingOf(cmds'[s], pos'[s]) = HeadingOf(cmds[s], pos[s]) OBVIOUS
<1> QED BY <1>1 DEF Heading, HeadingOf, MovesIn, IsMove

\* What a process does leaves the books of the server alone, and does not change
\* where the process is going.
LEMMA ProcessHeading ==
  ASSUME SearchInv, NEW r \in Solver, Client(r), NEW s \in Solver, conn'[s] = "up"
  PROVE  at' = at /\ conn[s] = "up" /\ Heading(s)' = Heading(s)
<1> USE DEF treeVars, solverVars, jobVars, localVars, clientVars
<1>0. TypeOK BY DEF SearchInv
<1>1. at' = at BY DEF Client, TakeCommand, Answers, Restarts, AnswersParts, Dies
<1>2. CASE Answers(r) \/ Restarts(r) \/ AnswersParts(r)
  <2>1. UNCHANGED <<conn, cmds, pos>> BY <1>2 DEF Answers, Restarts, AnswersParts
  <2> QED BY <1>1, <2>1, HeadingKept
<1>3. CASE Exit(r)
  <2>1. s # r BY <1>0, <1>3 DEF Exit, TypeOK
  <2>2. UNCHANGED <<conn[s], cmds[s], pos[s]>> BY <1>0, <1>3, <2>1 DEF Exit, TypeOK
  <2> QED BY <1>1, <2>2, HeadingKept
<1>4. CASE TakeCommand(r) /\ ~Exit(r)
  <2>1. /\ cmds[r] # <<>> /\ conn' = conn /\ cmds' = [cmds EXCEPT ![r] = Tail(@)]
        /\ \/ IsMove(Head(cmds[r])) /\ pos' = [pos EXCEPT ![r] = Head(cmds[r]).node]
           \/ ~IsMove(Head(cmds[r])) /\ pos' = pos
    BY <1>4 DEF TakeCommand, IsMove
  <2>2. CASE s # r
    <3>1. UNCHANGED <<conn[s], cmds[s], pos[s]>> BY <1>0, <2>1, <2>2 DEF TypeOK
    <3> QED BY <1>1, <3>1, HeadingKept
  <2>3. CASE s = r
    <3>1. /\ cmds[s] \in Seq(Cmd) /\ cmds[s] # <<>> /\ cmds'[s] = Tail(cmds[s])
          /\ \/ IsMove(Head(cmds[s])) /\ pos'[s] = Head(cmds[s]).node
             \/ ~IsMove(Head(cmds[s])) /\ pos'[s] = pos[s]
      BY <1>0, <2>1, <2>3 DEF TypeOK
    <3>2. HeadingOf(cmds'[s], pos'[s]) = HeadingOf(cmds[s], pos[s]) BY <3>1, HeadingTail
    <3> QED BY <1>1, <2>1, <3>2 DEF Heading, HeadingOf, MovesIn, IsMove
  <2> QED BY <2>2, <2>3
<1>5. Dies(r) => Exit(r) BY DEF Dies
<1> QED BY <1>2, <1>3, <1>4, <1>5 DEF Client

\* The views stay in agreement.
LEMMA ViewsStep ==
  ASSUME SearchInv, ViewsAgree, AwayNowhere, [Next]_vars
  PROVE  ViewsAgree'
<1> USE DEF treeVars, solverVars, jobVars, localVars, clientVars
<1>0. TypeOK BY DEF SearchInv
<1> SUFFICES ASSUME NEW s \in Solver, conn'[s] = "up", at'[s] # None
             PROVE  Heading(s)' = at'[s]
  BY DEF ViewsAgree
<1>1. CASE UNCHANGED <<conn[s], cmds[s], pos[s], at[s]>> BY <1>1, HeadingKept DEF ViewsAgree
<1>2. CASE Handler \/ Tick \/ Overdue
  <2>1. Told(s) /\ UNCHANGED <<conn, pos>> BY <1>2, ServerTells
  <2>2. CASE cmds'[s] = cmds[s] /\ (conn[s] = "up" => at'[s] \in {at[s], None})
    BY <1>1, <2>1, <2>2
  <2>3. ASSUME NEW c \in Cmd, conn[s] = "up", cmds'[s] = Append(cmds[s], c),
               at'[s] = IF IsMove(c) THEN c.node ELSE at[s]
        PROVE  Heading(s)' = at'[s]
    <3>1. cmds[s] \in Seq(Cmd) BY <1>0 DEF TypeOK
    <3>2. HeadingOf(cmds'[s], pos[s]) = IF IsMove(c) THEN c.node ELSE HeadingOf(cmds[s], pos[s])
      BY <2>3, <3>1, HeadingAppend
    <3>3. ~IsMove(c) => HeadingOf(cmds[s], pos[s]) = at[s]
      BY <2>3 DEF ViewsAgree, Heading, HeadingOf, MovesIn, IsMove
    <3>4. HeadingOf(cmds'[s], pos'[s]) = at'[s] BY <2>1, <2>3, <3>2, <3>3
    <3> QED BY <3>4 DEF Heading, HeadingOf, MovesIn, IsMove
  <2> QED BY <2>1, <2>2, <2>3 DEF Told
<1>3. ASSUME NEW r \in Solver, Client(r) PROVE Heading(s)' = at'[s]
  BY <1>3, ProcessHeading DEF ViewsAgree
<1>4. ASSUME NEW r \in Solver, DropReport(r) \/ ReadStatus(r) \/ ReadParts(r)
      PROVE  Heading(s)' = at'[s]
  BY <1>1, <1>4 DEF DropReport, ReadStatus, ReadParts
<1>5. ASSUME NEW r \in Solver, JoinSolver(r) \/ CloseSolver(r) PROVE Heading(s)' = at'[s]
  <2>1. s # r BY <1>0, <1>5 DEF JoinSolver, CloseSolver, AwayNowhere, TypeOK
  <2>2. UNCHANGED <<conn[s], cmds[s], pos[s], at[s]>>
    BY <1>0, <1>5, <2>1 DEF JoinSolver, CloseSolver, TypeOK
  <2> QED BY <1>1, <2>2
<1>6. CASE UNCHANGED vars BY <1>1, <1>6 DEF vars
<1> QED BY <1>2, <1>3, <1>4, <1>5, <1>6 DEF Next, Halted, Wakeup

\* Moves overtake reports and reports overtake moves, but the node at which the
\* server counts a live solver is the one the process reaches once it has executed
\* what it was sent, in every interleaving and after any exception of a handler.
THEOREM ViewsCoincide == Spec => []ViewsAgree
<1>1. Init => ViewsAgree /\ AwayNowhere
  <2> SUFFICES ASSUME Init PROVE ViewsAgree /\ AwayNowhere OBVIOUS
  <2>1. ASSUME NEW s \in Early PROVE Heading(s) = Root
    <3> DEFINE c == [op |-> "SOLVE", node |-> Root]
    <3>1. c \in Cmd /\ IsMove(c) /\ c.node = Root BY RootIsNode DEF Cmd, IsMove
    <3>2. cmds[s] = <<c>> /\ s \in Solver BY SchedulerAssumption DEF Init
    <3> HIDE DEF c
    <3>3. cmds[s] \in Seq(Cmd) /\ MovesIn(cmds[s]) = {1} /\ cmds[s][1] = c
      BY <3>1, <3>2 DEF MovesIn
    <3>4. 1 \in MovesIn(cmds[s]) /\ \A j \in MovesIn(cmds[s]) : j <= 1 BY <3>3
    <3>5. HeadingOf(cmds[s], pos[s]) = cmds[s][1].node
      <4> DEFINE q == cmds[s]
      <4>1. q \in Seq(Cmd) /\ 1 \in MovesIn(q) /\ \A j \in MovesIn(q) : j <= 1
        BY <3>3, <3>4
      <4> HIDE DEF q
      <4>2. HeadingOf(q, pos[s]) = q[1].node BY <4>1, HeadingIs
      <4> QED BY <4>2 DEF q
    <3>6. HeadingOf(cmds[s], pos[s]) = Root BY <3>1, <3>3, <3>5
    <3> QED BY <3>6 DEF Heading, HeadingOf, MovesIn, IsMove
  <2> QED BY <2>1 DEF Init, ViewsAgree, AwayNowhere
<1>2. SearchInv /\ ViewsAgree /\ AwayNowhere /\ [Next]_vars => (ViewsAgree /\ AwayNowhere)'
  BY ViewsStep, AwayStep
<1> QED BY <1>1, <1>2, SearchInvariant, PTL DEF Spec

=============================================================================
