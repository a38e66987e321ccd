----------------------------- MODULE Scheduler -----------------------------
(***************************************************************************)
(* The partitioning scheduler of the SMTS server (ParallelizationServer,   *)
(* server/schedular.py) on one SMT instance, together with the solver      *)
(* processes it drives.                                                    *)
(*                                                                         *)
(* The server is one thread: it waits in select, reads one message, and    *)
(* runs the handler of that message (Solver.read, then entrust) to its     *)
(* end.  The handler is modelled as a chain of steps, one per decision of  *)
(* the code, and "phase" is its program counter; "select" is the point     *)
(* between two handlers.  A handler reads nothing that a solver process    *)
(* writes, so the solver processes only move while phase = "select".       *)
(*                                                                         *)
(* AND nodes of the search tree are numbered breadth first, as in a K-ary  *)
(* heap: the i-th part of node n is K*n+i, and the order in which entrust  *)
(* sorts the nodes (length of the path, then preorder) is the order of the *)
(* numbers.  A node has at most one OR node (partition_policy[0] = 1), so  *)
(* an OR node is represented by the membership of its parent in            *)
(* "partitioning".                                                         *)
(*                                                                         *)
(* The operators named Mut_... are not part of the model: each is the      *)
(* definition after it with one plausible programming fault, and shows     *)
(* that a property would notice that fault.                                *)
(***************************************************************************)
EXTENDS Integers, Sequences, FiniteSets

CONSTANTS
  Solver,        \* the connections a solver process may open
  Early,         \* the ones already registered when the instance starts
  Mortal,        \* the ones whose process may die at any time
  None,          \* Python's None, where a node is expected
  K,             \* partition_policy[1], parts asked per partition
  PortfolioMin,  \* config.portfolio_min
  MaxNode,       \* bound: nodes above it are never created
  AllowEmpty,    \* may a partition answer contain no part at all
  Deadline,      \* can the instance be cut short: solving_timeout, error reports
  Sharing,       \* config.lemma_sharing
  NodeTimeout    \* config.node_timeout: "auto" (None), "set", or "long", that
                 \* is, set beyond the life of any instance

ASSUME SchedulerAssumption ==
  /\ K \in Nat \ {0}
  /\ PortfolioMin \in Nat
  /\ MaxNode \in Nat
  /\ AllowEmpty \in BOOLEAN /\ Deadline \in BOOLEAN /\ Sharing \in BOOLEAN
  /\ NodeTimeout \in {"auto", "set", "long"}
  /\ Early \subseteq Solver
  /\ Mortal \subseteq Solver
  /\ IsFiniteSet(Solver)
  /\ None \notin 0..MaxNode

Node == 0..MaxNode
Root == 0
Parent(n) == (n - 1) \div K
Part(n, i) == K * n + i

Status == {"unknown", "sat", "unsat"}
Phase == {"select", "raise", "settle", "scan", "received", "ask", "hung", "over"}

Cmd == [op : {"SOLVE", "INCREMENTAL"}, node : Node]
         \cup [op : {"PARTITION", "STOP", "TERMINATE"}]
Answer == [kind : {"sat", "unsat"}, node : Node]
            \cup [kind : {"parts"}, node : Node, size : 0..K]

VARIABLES
  \* the search tree
  tree,          \* the AND nodes that exist
  status,        \* status of each node
  models,        \* ghost: the nodes that are satisfiable
  started,       \* nodes some solver was sent to: _started
  partitioning,  \* nodes asked for parts, that is, with an OR node
  timedOut,      \* flag assumed_timout
  processed,     \* flag processed
  \* what the server keeps of each solver connection
  conn,          \* "away" before it registers, "dead" once its process exited
  at,            \* solver.node, as the server believes
  orWaiting,     \* solvers with or_waiting set, which owe parts
  \* what it keeps of the instance
  idle,          \* idle_solvers
  total,         \* total_solvers
  count,         \* partition_count
  nodeTimeout,   \* is node_timeout set
  overdue,       \* did solving_timeout pass
  terminate,     \* self.terminate: the stuck root was reported
  jammed,        \* the instance is no longer listed, but still current
  verdict,       \* the last verdict printed
  \* where the handler is
  phase, cursor,
  scan,          \* nodes the loop of entrust has still to visit
  moving,        \* solved_solvers, then movable_solvers
  round,         \* receivers left in the round of a distribution
  target,        \* selected_node
  rescue,        \* need_idle_solver
  got,           \* node whose parts arrived and await followers
  \* the solver processes
  cmds,          \* commands sent to each and not yet executed
  reports,       \* reports each sent and the server did not yet read
  pos,           \* the node each works on
  fork,          \* those with a running partitioner
  done           \* those that answered for their node

treeVars == <<tree, status, models, started, partitioning, timedOut, processed>>
solverVars == <<conn, at, orWaiting>>
jobVars == <<idle, total, count, nodeTimeout, overdue, terminate, jammed, verdict>>
localVars == <<cursor, scan, moving, round, target, rescue, got>>
clientVars == <<cmds, reports, pos, fork, done>>
vars == <<treeVars, solverVars, jobVars, phase, localVars, clientVars>>

-----------------------------------------------------------------------------
(* The search tree (server/framework.py).                                  *)

Parts(n) == {c \in tree \ {Root} : Parent(c) = n}
Unknown(n) == status[n] = "unknown"
UnknownParts(n) == {c \in Parts(n) : Unknown(c)}        \* AndNode.childeren
Mut_Truth(n) == IF n \in models THEN "sat" ELSE "unknown"
Truth(n) == IF n \in models THEN "sat" ELSE "unsat"
IsFirst(n, S) == n \in S /\ \A m \in S : n <= m

\* The AND nodes on the path from the root to each node, that node included:
\* the least set that holds the node and the parents of its members.
Path == [n \in Node |->
          {a \in Node : \A S \in SUBSET Node :
                 n \in S /\ (\A m \in S \ {Root} : Parent(m) \in S) => a \in S}]
IsAncestor(a, n) == a \in Path[n]
Below(n) == {d \in tree : n \in Path[d]}                \* Node.all

\* Solvers by the node the server believes they work on.
At(n) == {s \in Solver : at[s] = n}                     \* self.solvers(n)
InRlist(s) == conn[s] \in {"up", "dead"}
Busy(n) == At(n) \ idle

-----------------------------------------------------------------------------
(* Writing to a solver.  A write to a process that died may be accepted by *)
(* the kernel or raise; an exception unwinds the whole handler and is      *)
(* swallowed by run_until_timeout.                                         *)

Mut_Post(s, c) == cmds' = IF conn[s] = "up" THEN [cmds EXCEPT ![s] = <<c>>] ELSE cmds
Post(s, c) == cmds' = IF conn[s] = "up" THEN [cmds EXCEPT ![s] = Append(@, c)] ELSE cmds

ResetLocals ==
  /\ scan' = {} /\ moving' = {} /\ round' = {}
  /\ target' = None /\ rescue' = FALSE /\ got' = None /\ cursor' = Root
EndHandler == phase' = "select" /\ ResetLocals

\* Solver.solve and Solver.incremental: after the write the server counts the
\* solver at node n, whatever the process is doing.
Assign(s, n, op) ==
  /\ Post(s, [op |-> op, node |-> n])
  /\ at' = [at EXCEPT ![s] = n]
  /\ orWaiting' = orWaiting \ {s}
  /\ started' = started \cup {n}
Move(s, n) == Assign(s, n, "INCREMENTAL")
MoveRaises(s) ==
  /\ conn[s] = "dead"
  /\ EndHandler
  /\ UNCHANGED <<at, orWaiting, started, cmds>>

-----------------------------------------------------------------------------
(* Initially the instance was just made current: entrust sent SOLVE to     *)
(* every registered solver (lines 466-489).                                *)

Init ==
  /\ tree = {Root}
  /\ status = [n \in Node |-> "unknown"]
  /\ models \in {{}, {Root}}
  /\ started = IF Early = {} THEN {} ELSE {Root}
  /\ partitioning = {} /\ timedOut = {} /\ processed = {}
  /\ conn = [s \in Solver |-> IF s \in Early THEN "up" ELSE "away"]
  /\ at = [s \in Solver |-> IF s \in Early THEN Root ELSE None]
  /\ orWaiting = {}
  /\ idle = {} /\ total = Cardinality(Early) /\ count = 0
  /\ nodeTimeout = (NodeTimeout # "auto")
  /\ overdue = FALSE /\ terminate = FALSE /\ jammed = FALSE /\ verdict = "none"
  /\ phase = "select" /\ cursor = Root
  /\ scan = {} /\ moving = {} /\ round = {}
  /\ target = None /\ rescue = FALSE /\ got = None
  /\ cmds = [s \in Solver |-> IF s \in Early THEN <<[op |-> "SOLVE", node |-> Root]>> ELSE <<>>]
  /\ reports = [s \in Solver |-> <<>>]
  /\ pos = [s \in Solver |-> None]
  /\ fork = {} /\ done = {}

-----------------------------------------------------------------------------
(* What wakes the server up.                                               *)

\* Server.run_until_timeout: select timed out, or a report came that changes
\* nothing but still ends in entrust ("info:start" and the like).
Tick ==
  /\ phase = "select"
  /\ phase' = "settle"
  /\ UNCHANGED <<treeVars, solverVars, jobVars, localVars, clientVars>>

\* A process registers as a solver (handle_message, SOLVER).
JoinSolver(s) ==
  /\ phase = "select"
  /\ conn[s] = "away"
  /\ conn' = [conn EXCEPT ![s] = "up"]
  /\ phase' = "settle"
  /\ UNCHANGED <<treeVars, at, orWaiting, jobVars, localVars, clientVars>>

\* End of file on the socket of a dead process, after its last report.
CloseSolver(s) ==
  /\ phase = "select"
  /\ conn[s] = "dead" /\ reports[s] = <<>>
  /\ conn' = [conn EXCEPT ![s] = "closed"]
  /\ at' = [at EXCEPT ![s] = None]
  /\ orWaiting' = orWaiting \ {s}
  /\ UNCHANGED <<treeVars, jobVars, phase, localVars, clientVars>>

\* The solving timeout elapses; an error report has the same effect, since it
\* sets the timeout to 0 and its exit(1) is swallowed by a bare except.
Overdue ==
  /\ phase = "select"
  /\ Deadline /\ Root \in started /\ ~overdue
  /\ overdue' = TRUE
  /\ UNCHANGED <<treeVars, solverVars, idle, total, count, nodeTimeout, terminate,
                 jammed, verdict, phase, localVars, clientVars>>

(* Solver.read: the next report of solver s.                               *)
Incoming(s) == Head(reports[s])
Receives(s) ==
  /\ phase = "select" /\ InRlist(s) /\ reports[s] # <<>>
  /\ reports' = [reports EXCEPT ![s] = Tail(@)]

\* The report is about the node the solver is assigned to.
Mut_Current(s) == at[s] # None
Current(s) == at[s] = Incoming(s).node

\* A report about a node the solver was moved away from is dropped: its header
\* is emptied and does not even reach entrust.  Without a node it is not read.
DropReport(s) ==
  /\ Receives(s) /\ ~Current(s)
  /\ phase' = (IF at[s] = None THEN "settle" ELSE "select")
  /\ UNCHANGED <<treeVars, solverVars, jobVars, localVars, cmds, pos, fork, done>>

\* sat or unsat for the node of the solver; unsat also closes every open node
\* below.  The status then climbs in the steps of Raise.
ReadStatus(s) ==
  /\ Receives(s) /\ Current(s)
  /\ Incoming(s).kind # "parts"
  /\ LET n == at[s]  v == Incoming(s).kind IN
       /\ status' = [m \in Node |->
             IF m = n \/ (v = "unsat" /\ m \in Below(n) /\ Unknown(m)) THEN v ELSE status[m]]
       /\ cursor' = n
  /\ orWaiting' = orWaiting \ {s}
  /\ phase' = "raise"
  /\ UNCHANGED <<tree, models, started, partitioning, timedOut, processed, conn, at, jobVars,
                 scan, moving, round, target, rescue, got, cmds, pos, fork, done>>

\* The parts of the node of the solver: new AND nodes, dropped at once when
\* the node was decided meanwhile.  Some part is satisfiable exactly when the
\* node is: that is what the (external) splitter promises.
ReadParts(s) ==
  /\ Receives(s) /\ Current(s)
  /\ Incoming(s).kind = "parts"
  /\ IF s \notin orWaiting
     THEN UNCHANGED <<tree, models, orWaiting, count, got>>
     ELSE LET n == at[s]
              size == IF Unknown(n) THEN Incoming(s).size ELSE 0
              new == {Part(n, i) : i \in 1..size} IN
          /\ orWaiting' = orWaiting \ {s}
          /\ tree' = tree \cup new
          /\ \E yes \in SUBSET new :
               /\ new # {} => (n \in models <=> yes # {})
               /\ models' = models \cup yes
          /\ count' = count - K + size
          /\ got' = n
  /\ phase' = "settle"
  /\ UNCHANGED <<status, started, partitioning, timedOut, processed, conn, at, idle, total,
                 nodeTimeout, overdue, terminate, jammed, verdict, cursor, scan, moving, round,
                 target, rescue, cmds, pos, fork, done>>

\* AndNode._set_status, OrNode._set_status: one level of the recursion.  sat
\* climbs from any part, unsat from the last one.
Mut_ClimbsEarly(v, p) == v = "sat" \/ \E c \in Parts(p) : status[c] = v
Mut_ClimbsAlike(v, p) == \A c \in Parts(p) : status[c] = v
Mut_ClimbsSat(v, p) == v = "sat"
Climbs(v, p) == v = "sat" \/ \A c \in Parts(p) : status[c] = v

Raise ==
  /\ phase = "raise"
  /\ LET v == status[cursor]  p == Parent(cursor) IN
     IF cursor # Root /\ Climbs(v, p)
     THEN /\ status' = [status EXCEPT ![p] = v]
          /\ cursor' = p
          /\ phase' = phase
     ELSE /\ phase' = "settle"
          /\ cursor' = Root
          /\ UNCHANGED status
  /\ UNCHANGED <<tree, models, started, partitioning, timedOut, processed, solverVars, jobVars,
                 scan, moving, round, target, rescue, got, clientVars>>

-----------------------------------------------------------------------------
(* entrust, first part: is the instance over?                              *)

Settled == ~Unknown(Root) \/ overdue
Mut_Stuck == Unknown(Root) /\ Root \in partitioning /\ UnknownParts(Root) = {}
Stuck == /\ Unknown(Root) /\ Root \in partitioning /\ UnknownParts(Root) = {}
         /\ ~terminate
Unplaced == {s \in Solver : InRlist(s) /\ at[s] = None}   \* newly_joint_solver

\* Timeout while the root waits for its parts: every solver is told to
\* terminate and entrust returns once more without a verdict.  terminate()
\* raises for a solver without a node, and before the flag is set.  (A process
\* exits on its first TERMINATE, so a second one is not queued.)
Terminated(s) == cmds[s] # <<>> /\ cmds[s][Len(cmds[s])].op = "TERMINATE"
Terminate(S) ==
  cmds' = [s \in Solver |-> IF s \in S /\ conn[s] = "up" /\ ~Terminated(s)
                            THEN Append(cmds[s], [op |-> "TERMINATE"]) ELSE cmds[s]]
TerminateAll ==
  /\ phase = "settle" /\ Settled /\ Stuck
  /\ \/ /\ Unplaced = {}
        /\ terminate' = TRUE
        /\ Terminate(Solver)
     \/ /\ Unplaced # {} \/ (\E s \in Solver : conn[s] = "dead")
        /\ terminate' = FALSE
        /\ \E S \in SUBSET {s \in Solver : at[s] # None} : Terminate(S)
  /\ EndHandler
  /\ UNCHANGED <<treeVars, solverVars, idle, total, count, nodeTimeout, overdue, jammed, verdict,
                 reports, pos, fork, done>>

\* The verdict is printed and the instance removed; then every solver is
\* stopped.  A solver that has no node yet, or a write that raises, leaves
\* the removed instance current: every later entrust prints again and fails
\* on the second removal.
PrintVerdict ==
  /\ phase = "settle" /\ Settled /\ ~Stuck
  /\ verdict' = status[Root]
  /\ \/ /\ ~jammed /\ Unplaced = {}
        /\ cmds' = [s \in Solver |-> IF conn[s] = "up" THEN Append(cmds[s], [op |-> "STOP"])
                                                       ELSE cmds[s]]
        /\ at' = [s \in Solver |-> None]
        /\ orWaiting' = {} /\ idle' = {}
        /\ phase' = "over" /\ ResetLocals
        /\ UNCHANGED jammed
     \/ /\ ~jammed
        /\ jammed' = TRUE
        /\ \E S \in SUBSET {s \in Solver : InRlist(s) /\ at[s] # None} :
             /\ IF Unplaced # {} THEN S = {} ELSE \E s \in S : conn[s] = "dead"
             /\ cmds' = [s \in Solver |-> IF s \in S /\ conn[s] = "up"
                                          THEN Append(cmds[s], [op |-> "STOP"]) ELSE cmds[s]]
             /\ at' = [s \in Solver |-> IF s \in S THEN None ELSE at[s]]
             /\ orWaiting' = orWaiting \ S
        /\ EndHandler
        /\ UNCHANGED idle
     \/ /\ jammed
        /\ EndHandler
        /\ UNCHANGED <<at, orWaiting, idle, cmds, jammed>>
  /\ UNCHANGED <<treeVars, conn, total, count, nodeTimeout, overdue, terminate,
                 reports, pos, fork, done>>

\* A newly joined solver starts on the root.  solve() takes the node over
\* before it writes.
PlaceNewcomer(s) ==
  /\ phase = "settle" /\ ~Settled /\ s \in Unplaced
  /\ total' = total + 1
  /\ at' = [at EXCEPT ![s] = Root]
  /\ \/ /\ Post(s, [op |-> "SOLVE", node |-> Root])
        /\ started' = started \cup {Root}
        /\ UNCHANGED <<phase, localVars>>
     \/ conn[s] = "dead" /\ EndHandler /\ UNCHANGED <<cmds, started>>
  /\ UNCHANGED <<tree, status, models, partitioning, timedOut, processed, conn, orWaiting, idle,
                 count, nodeTimeout, overdue, terminate, jammed, verdict, reports, pos, fork, done>>

StartScan ==
  /\ phase = "settle" /\ ~Settled /\ Unplaced = {}
  /\ phase' = "scan" /\ scan' = tree
  /\ UNCHANGED <<treeVars, solverVars, jobVars, cursor, moving, round, target, rescue, got,
                 clientVars>>

-----------------------------------------------------------------------------
(* entrust, second part: the nodes in order.  A node found sat would break *)
(* an assertion of the code; no step is given for it.                      *)

Left == scan \ processed
Scanning(n) == phase = "scan" /\ IsFirst(n, Left)
Rest(n) == {m \in scan : m > n}

\* Lines 584-588: the first open node that was never partitioned.
Mut_Consider(n) ==
  IF target = None
  THEN target' = n /\ rescue' = (At(n) = {} /\ n \in timedOut')
  ELSE UNCHANGED <<target, rescue>>
Consider(n) ==
  IF target = None /\ n \notin partitioning
  THEN target' = n /\ rescue' = (At(n) = {} /\ n \in timedOut')
  ELSE UNCHANGED <<target, rescue>>

\* A node found unsat frees its own solvers and those of its parent, and both
\* nodes are done with.
Closed(n) == {n} \cup (IF n # Root /\ Unknown(Parent(n)) THEN {Parent(n)} ELSE {})
Mut_Freed(n) == UNION {At(m) : m \in Closed(n) \ {n}}
Freed(n) == UNION {At(m) : m \in Closed(n)}

\* The solvers of S get work again.
Mut_LeaveIdle(S) == idle' = idle
LeaveIdle(S) == idle' = idle \ S

ScanUnsat(n) ==
  /\ Scanning(n) /\ status[n] = "unsat"
  /\ count' = count - Cardinality(Freed(n) \ idle)
  /\ LeaveIdle(Freed(n))
  /\ moving' = moving \cup Freed(n)
  /\ processed' = processed \cup Closed(n)
  /\ scan' = Rest(n)
  /\ UNCHANGED <<tree, status, models, started, partitioning, timedOut, solverVars, total,
                 nodeTimeout, overdue, terminate, jammed, verdict, phase, cursor, round, target,
                 rescue, got, clientVars>>

\* The node timeout passed: the solvers there become idle, once; when the node
\* has parts it is done with.
Mut_HasParts(n) == n \in partitioning
HasParts(n) == n \in partitioning /\ Parts(n) # {}

ScanExpired(n) ==
  /\ Scanning(n) /\ Unknown(n)
  /\ nodeTimeout /\ NodeTimeout # "long" /\ n \in started
  /\ IF HasParts(n)
     THEN processed' = processed \cup {n} /\ timedOut' = timedOut
     ELSE timedOut' = timedOut \cup {n} /\ processed' = processed
  /\ idle' = IF HasParts(n) \/ n \notin timedOut THEN idle \cup At(n) ELSE idle
  /\ count' = IF n \notin timedOut THEN count - Cardinality(Busy(n)) ELSE count
  /\ IF n \in processed' THEN UNCHANGED <<target, rescue>> ELSE Consider(n)
  /\ scan' = Rest(n)
  /\ UNCHANGED <<tree, status, models, started, partitioning, solverVars, total, nodeTimeout,
                 overdue, terminate, jammed, verdict, phase, cursor, moving, round, got, clientVars>>

\* The node timeout did not pass.  Without a configured one, the first
\* unpartitioned node with a single solver sets it.
ScanRunning(n) ==
  /\ Scanning(n) /\ Unknown(n)
  /\ nodeTimeout' = (nodeTimeout \/ (n \notin partitioning /\ Cardinality(At(n)) = 1))
  /\ timedOut' = timedOut
  /\ Consider(n)
  /\ scan' = Rest(n)
  /\ UNCHANGED <<tree, status, models, started, partitioning, processed, solverVars, idle, total,
                 count, overdue, terminate, jammed, verdict, phase, cursor, moving, round, got,
                 clientVars>>

ScanDone == phase = "scan" /\ Left = {}

-----------------------------------------------------------------------------
(* entrust, third part: who goes where.                                    *)

Active(n) == Unknown(n) /\ n \notin processed           \* all_active_nodes
ActiveBelow(c) == {n \in Below(c) : Active(n)}
LeastLoaded(S) == {n \in S : \A m \in S : Cardinality(At(n)) <= Cardinality(At(m))}

\* "while 0 != len(...)": one solver to the next of the receivers, round after
\* round; without receivers the loop never ends.
HandOut(receivers, places) ==
  LET turn == IF round = {} THEN receivers ELSE round IN
  IF receivers = {}
  THEN phase' = "hung" /\ ResetLocals /\ UNCHANGED <<at, orWaiting, started, cmds>>
  ELSE \E c \in turn : \E s \in moving, n \in places[c] :
         /\ IsFirst(c, turn)
         /\ \/ /\ Move(s, n)
               /\ moving' = moving \ {s} /\ round' = turn \ {c}
               /\ UNCHANGED <<phase, cursor, scan, target, rescue, got>>
            \/ MoveRaises(s)

\* Lines 590-603.
PlaceSolved ==
  /\ ScanDone /\ moving # {}
  /\ HandOut({c \in UnknownParts(Root) : ActiveBelow(c) # {}},
             [c \in Node |-> LeastLoaded(ActiveBelow(c))])
  /\ UNCHANGED <<tree, status, models, partitioning, timedOut, processed, conn, jobVars,
                 reports, pos, fork, done>>

Smaller(a, b) == IF a < b THEN a ELSE b
Spare(n) == IF Cardinality(At(n)) > PortfolioMin
            THEN Smaller(Cardinality(Busy(n)), Cardinality(At(n)) - PortfolioMin) ELSE 0

\* The solvers that follow the new parts of node n, lines 604-616.
MayFollow(n, M) ==
  IF PortfolioMin = 0 THEN M = {s \in Solver : at[s] # None}
  ELSE /\ \A s \in M : s \notin idle /\ \E a \in Path[n] : at[s] = a
       /\ \A a \in Path[n] : Cardinality(M \cap At(a)) = Spare(a)

ChooseFollowers ==
  /\ ScanDone /\ moving = {}
  /\ phase' = "received" /\ round' = {} /\ scan' = tree
  /\ IF got = None THEN UNCHANGED moving
     ELSE \E M \in SUBSET Solver : MayFollow(got, M) /\ moving' = M
  /\ UNCHANGED <<treeVars, solverVars, jobVars, cursor, target, rescue, got, clientVars>>

\* Lines 618-628.
PlaceFollowers ==
  /\ phase = "received" /\ moving # {}
  /\ HandOut(UnknownParts(got), [c \in Node |-> {c}])
  /\ UNCHANGED <<tree, status, models, partitioning, timedOut, processed, conn, jobVars,
                 reports, pos, fork, done>>

\* un_attempted_active_leaves
Unattempted == {n \in scan : Active(n) /\ n \notin started /\ n \notin partitioning}
Fits(s, n) == /\ at[s] # None
              /\ \/ IsAncestor(at[s], n)
                 \/ /\ at[s] \notin partitioning /\ at[s] \in timedOut
                    /\ At(n) = {} /\ at[s] # n

\* One leaf nobody tried gets an idle solver.  A solver that closed stays in
\* idle_solvers, and its node None raises when the search meets it.
PlaceIdle ==
  /\ phase = "received" /\ moving = {} /\ idle # {} /\ Unattempted # {}
  /\ \E n \in Unattempted :
     /\ IsFirst(n, Unattempted)
     /\ \/ \E s \in idle :
             /\ Fits(s, n)
             /\ LeaveIdle({s})
             /\ \/ Move(s, n) /\ scan' = Rest(n)
                   /\ UNCHANGED <<phase, moving, round, target, rescue, got, cursor>>
                \/ MoveRaises(s)
        \/ /\ \E s \in idle : at[s] = None
           /\ EndHandler /\ UNCHANGED <<idle, at, orWaiting, started, cmds>>
        \/ /\ \A s \in idle : at[s] # None /\ ~Fits(s, n)
           /\ scan' = Rest(n)
           /\ UNCHANGED <<idle, at, orWaiting, started, cmds, phase, moving, round, target,
                          rescue, got, cursor>>
  /\ UNCHANGED <<tree, status, models, partitioning, timedOut, processed, conn, total, count,
                 nodeTimeout, overdue, terminate, jammed, verdict, reports, pos, fork, done>>

Placed == phase = "received" /\ moving = {} /\ (idle = {} \/ Unattempted = {})

\* Lines 651-658: an idle solver is sent to a timed out node that lost all its
\* solvers, one from the path of that node if there is any.
Rescue ==
  /\ Placed /\ rescue /\ idle # {}
  /\ \/ /\ \E s \in idle : at[s] = None
        /\ EndHandler /\ UNCHANGED <<idle, at, orWaiting, started, cmds>>
     \/ /\ \A s \in idle : at[s] # None
        /\ LET near == {s \in idle : IsAncestor(at[s], target)} IN
           \E s \in (IF near # {} THEN near ELSE idle) :
             \/ /\ s \in orWaiting
                /\ phase' = "ask"
                /\ UNCHANGED <<idle, at, orWaiting, started, cmds, localVars>>
             \/ /\ s \notin orWaiting
                /\ \/ Move(s, target) /\ LeaveIdle({s}) /\ phase' = "ask"
                      /\ UNCHANGED localVars
                   \/ MoveRaises(s) /\ UNCHANGED idle
  /\ UNCHANGED <<tree, status, models, partitioning, timedOut, processed, conn, total, count,
                 nodeTimeout, overdue, terminate, jammed, verdict, reports, pos, fork, done>>

\* Lines 660-665 and partition(): some solver of the target that has worked
\* for partition_timeout is asked for parts.  The count grows before the write.
Ask ==
  /\ phase = "ask" \/ (Placed /\ ~(rescue /\ idle # {}))
  /\ EndHandler
  /\ \/ UNCHANGED <<count, orWaiting, partitioning, cmds>>
     \/ /\ target # None /\ total > count
        /\ \E s \in At(target) :
             /\ count' = count + K
             /\ \/ /\ Post(s, [op |-> "PARTITION"])
                   /\ orWaiting' = orWaiting \cup {s}
                   /\ partitioning' = partitioning \cup {target}
                \/ conn[s] = "dead" /\ UNCHANGED <<cmds, orWaiting, partitioning>>
  /\ UNCHANGED <<tree, status, models, started, timedOut, processed, conn, at, idle, total,
                 nodeTimeout, overdue, terminate, jammed, verdict, reports, pos, fork, done>>

-----------------------------------------------------------------------------
(* The solver process (client/Schedular.cc, OpenSMT2/SolverProcess.cpp).   *)

Alive(s) == phase = "select" /\ conn[s] = "up"
Exit(s) == /\ conn' = [conn EXCEPT ![s] = "dead"]
           /\ cmds' = [cmds EXCEPT ![s] = <<>>]
           /\ pos' = [pos EXCEPT ![s] = None]
           /\ fork' = fork \ {s} /\ done' = done \ {s}
Report(s, r) == reports' = [reports EXCEPT ![s] = Append(@, r)]

\* execute_event: the next command of the queue.  STOP and TERMINATE are obeyed
\* as soon as they are read, before what is still queued.
TakeCommand(s) ==
  /\ Alive(s) /\ cmds[s] # <<>>
  /\ LET c == Head(cmds[s])
         popped == [cmds EXCEPT ![s] = Tail(@)] IN
     \/ /\ c.op \in {"SOLVE", "INCREMENTAL"}           \* kills the partitioner
        /\ pos' = [pos EXCEPT ![s] = c.node]
        /\ fork' = fork \ {s} /\ done' = done \ {s}
        /\ cmds' = popped /\ UNCHANGED conn
     \/ /\ c.op = "PARTITION"                          \* forks unless solved
        /\ fork' = IF s \in done THEN fork ELSE fork \cup {s}
        /\ done' = done \ {s}                          \* and solves again
        /\ cmds' = popped /\ UNCHANGED <<conn, pos>>
     \/ /\ \E i \in 1..Len(cmds[s]) : cmds[s][i].op \in {"STOP", "TERMINATE"}
        /\ Exit(s)
  /\ UNCHANGED <<treeVars, at, orWaiting, jobVars, phase, localVars, reports>>

\* The solver answers for the node it works on.
Answers(s) ==
  /\ Alive(s) /\ pos[s] # None /\ s \notin done
  /\ Report(s, [kind |-> Truth(pos[s]), node |-> pos[s]])
  /\ done' = done \cup {s}
  /\ UNCHANGED <<treeVars, solverVars, jobVars, phase, localVars, cmds, pos, fork>>

\* Clauses pulled from the lemma server are injected: the search starts again.
\* Bound: not before the server has read what was reported.
Restarts(s) ==
  /\ Sharing /\ Alive(s) /\ s \in done /\ reports[s] = <<>>
  /\ done' = done \ {s}
  /\ UNCHANGED <<treeVars, solverVars, jobVars, phase, localVars, cmds, reports, pos, fork>>

\* The forked partitioner answers: parts, or sat when it meets a model.
\* Bound: it never answers for a node whose parts would exceed MaxNode.
AnswersParts(s) ==
  /\ Alive(s) /\ s \in fork /\ pos[s] # None
  /\ Part(pos[s], K) <= MaxNode
  /\ \/ \E m \in 0..K : /\ m = 0 => AllowEmpty /\ pos[s] \notin models
                        /\ Report(s, [kind |-> "parts", node |-> pos[s], size |-> m])
     \/ pos[s] \in models /\ Report(s, [kind |-> "sat", node |-> pos[s]])
  /\ fork' = fork \ {s}
  /\ UNCHANGED <<treeVars, solverVars, jobVars, phase, localVars, cmds, pos, done>>

Dies(s) ==
  /\ Alive(s) /\ s \in Mortal
  /\ Exit(s)
  /\ UNCHANGED <<treeVars, at, orWaiting, jobVars, phase, localVars, reports>>

-----------------------------------------------------------------------------
Scan == \E n \in Node : ScanUnsat(n) \/ ScanExpired(n) \/ ScanRunning(n)

\* The chain of steps of one handler.
Handler ==
  \/ Raise \/ TerminateAll \/ PrintVerdict
  \/ (\E s \in Solver : PlaceNewcomer(s)) \/ StartScan \/ Scan
  \/ PlaceSolved \/ ChooseFollowers \/ PlaceFollowers
  \/ PlaceIdle \/ Rescue \/ Ask

Wakeup(s) == JoinSolver(s) \/ CloseSolver(s) \/ DropReport(s) \/ ReadStatus(s) \/ ReadParts(s)
Client(s) == TakeCommand(s) \/ Answers(s) \/ Restarts(s) \/ AnswersParts(s) \/ Dies(s)

\* Nothing follows: the instance is over, or the handler loops for ever.
Halted == phase \in {"over", "hung"} /\ UNCHANGED vars

Next == Handler \/ Tick \/ Overdue \/ Halted \/ \E s \in Solver : Wakeup(s) \/ Client(s)

Spec == Init /\ [][Next]_vars
=============================================================================
