--------------------------- MODULE SchedulerProps ---------------------------
(***************************************************************************)
(* What the scheduler of Scheduler.tla is expected to keep.                *)
(***************************************************************************)
EXTENDS Scheduler

\* Every variable has the type the code gives it.
TypeOK ==
  /\ tree \in SUBSET Node /\ Root \in tree
  /\ status \in [Node -> Status]
  /\ models \in SUBSET Node
  /\ started \in SUBSET Node /\ partitioning \in SUBSET Node
  /\ timedOut \in SUBSET Node /\ processed \in SUBSET Node
  /\ conn \in [Solver -> {"away", "up", "dead", "closed"}]
  /\ at \in [Solver -> Node \cup {None}]
  /\ orWaiting \in SUBSET Solver
  /\ idle \in SUBSET Solver /\ total \in Nat /\ count \in Int
  /\ nodeTimeout \in BOOLEAN /\ overdue \in BOOLEAN
  /\ terminate \in BOOLEAN /\ jammed \in BOOLEAN
  /\ verdict \in {"none"} \cup Status
  /\ phase \in Phase /\ cursor \in Node
  /\ scan \in SUBSET Node /\ moving \in SUBSET Solver /\ round \in SUBSET Node
  /\ target \in Node \cup {None} /\ rescue \in BOOLEAN /\ got \in Node \cup {None}
  /\ cmds \in [Solver -> Seq(Cmd)] /\ reports \in [Solver -> Seq(Answer)]
  /\ pos \in [Solver -> Node \cup {None}]
  /\ fork \in SUBSET Solver /\ done \in SUBSET Solver

-----------------------------------------------------------------------------
(* Soundness.                                                              *)

\* A recorded status is the truth about the node, although solvers are moved
\* while their reports are under way, unsat closes whole subtrees and both
\* answers climb the tree (Solver.read, _set_status).
StatusSound == \A n \in tree : ~Unknown(n) => status[n] = Truth(n)

\* The server only learns true facts, keeps them and announces them.
Promise == INSTANCE Search WITH late <- overdue
SearchPromise == Promise!Spec

\* The assertion of entrust (line 540): the scan never meets a sat node, since
\* sat climbs to the root and ends the instance first.
NoSatInScan == phase = "scan" => \A n \in tree : status[n] # "sat"

-----------------------------------------------------------------------------
(* Why a recorded status is true: the inductive strengthening of           *)
(* StatusSound, in parts.                                                  *)

\* The tree is closed under parents, a node with parts was once partitioned,
\* and nothing holds of a node that does not exist yet.
TreeShape ==
  /\ \A n \in tree \ {Root} : Parent(n) \in tree /\ Parent(n) \in partitioning
  /\ \A n \in Node \ tree : Unknown(n)
  /\ models \subseteq tree

\* The parts of a node cover it.
PartsCover ==
  \A n \in tree : Parts(n) # {} => (n \in models <=> Parts(n) \cap models # {})

\* Everything the server and the clients refer to is a node of the tree.
Whereabouts ==
  /\ \A s \in Solver : at[s] \in tree \cup {None} /\ pos[s] \in tree \cup {None}
  /\ \A s \in Solver : \A i \in 1..Len(cmds[s]) :
        cmds[s][i].op \in {"SOLVE", "INCREMENTAL"} => cmds[s][i].node \in tree
  /\ target \in tree \cup {None} /\ (rescue => target # None)
  /\ cursor \in tree /\ scan \subseteq tree /\ round \subseteq tree
  /\ phase = "raise" => ~Unknown(cursor)

\* Parts are owed by at most one solver per node, which has none so far.
Requests ==
  /\ \A s \in orWaiting : /\ at[s] # None /\ at[s] \in partitioning
                          /\ Parts(at[s]) = {}
                          /\ \A r \in orWaiting : at[r] = at[s] => r = s
  /\ target # None => target \notin partitioning

\* What the clients report is true of the node the report names.
ReportsTrue ==
  \A s \in Solver : \A i \in 1..Len(reports[s]) :
    LET r == reports[s][i] IN
    /\ r.node \in tree
    /\ IF r.kind = "parts" THEN Part(r.node, r.size) <= MaxNode
                           ELSE r.kind = Truth(r.node)

VerdictKept == verdict \notin {"none", "unknown"} => verdict = status[Root]

SearchInv == /\ TypeOK /\ TreeShape /\ PartsCover /\ StatusSound /\ Whereabouts
             /\ Requests /\ ReportsTrue /\ VerdictKept

\* Why the scan meets no sat node: sat is never stuck below an open parent,
\* except where a handler is still carrying it up, and no handler scans while the
\* root is decided.
SatClimbed ==
  \A n \in tree \ {Root} :
    status[n] = "sat" => \/ status[Parent(n)] = "sat"
                         \/ phase = "raise" /\ cursor = n
OpenScan == phase \in {"scan", "received", "ask"} => Unknown(Root)
ClimbInv == SatClimbed /\ OpenScan

-----------------------------------------------------------------------------
(* Progress of the search, between two handlers.                           *)

Between == phase = "select"
Running == Between /\ Unknown(Root) /\ ~overdue

\* The two unbounded distribution loops of entrust (lines 592 and 618) end.
LoopsEnd == phase # "hung"

\* While the instance is open there is an open node to work on that has no
\* parts: flagging nodes processed never closes the search.
WorkRemains ==
  Running => \E n \in tree : Active(n) /\ Parts(n) = {}

\* A node flagged as partitioning that is still open and has no parts has one
\* solver, and one only, that owes them; nobody owes parts elsewhere.
PartitionOwned ==
  Running =>
    /\ \A n \in tree : (n \in partitioning /\ Unknown(n) /\ Parts(n) = {}) =>
          \E s \in orWaiting : at[s] = n
    /\ \A s, r \in orWaiting : at[s] \in partitioning /\ (s # r => at[s] # at[r])

\* A solver that is not listed idle works on a node that is still open.
BusyIsUseful ==
  Running =>
     \A s \in Solver \ idle : at[s] # None => Unknown(at[s])

\* A connected solver is listed idle only while it sits on a timed out or
\* finished node.
IdleIsTimedOut ==
  Running => \A s \in idle : at[s] # None => at[s] \in timedOut \cup processed

-----------------------------------------------------------------------------
(* Why the search goes on: the inductive strengthening of the four         *)
(* properties above, in parts.                                             *)

\* An open node with parts has one that is not closed, except while a handler is
\* carrying the status of the last one up.
UnsatClimbed ==
  \A n \in tree : Unknown(n) /\ Parts(n) # {} =>
     \/ \E c \in Parts(n) : status[c] # "unsat"
     \/ phase = "raise" /\ cursor \in Parts(n)

\* An open node is done with only when it has parts.
ProcessedSplit == \A n \in processed : Unknown(n) => Parts(n) # {}

\* What a handler finds in its local variables, and what its loops are given.
HandlerShape ==
  /\ phase \in {"select", "raise", "settle"} => moving = {} /\ target = None
  /\ phase \in {"select", "raise"} => got = None
  /\ phase \in {"scan", "received", "ask"} => ~Settled
  /\ phase = "scan" /\ moving # {} => Parts(Root) # {}
  /\ phase = "received" /\ moving # {} => got # None /\ round \subseteq UnknownParts(got)
  /\ phase = "ask" => moving = {}

WorkInv == UnsatClimbed /\ ProcessedSplit /\ HandlerShape

\* The rest speaks of an instance that is open, where no process dies on its own
\* and every report of parts has some.

\* Nobody stops or is told to.
Peace ==
  \A s \in Solver :
    /\ conn[s] \in {"away", "up"}
    /\ \A i \in 1..Len(cmds[s]) : cmds[s][i].op \notin {"STOP", "TERMINATE"}

\* The node to partition is open and not done with.
TargetOpen == target # None => Unknown(target) /\ target \notin processed

\* A node that is done with holds idle solvers only, but for those about to be moved
\* and newcomers on the root.
ProcessedIdle ==
  \A s \in Solver : at[s] \in processed => s \in idle \cup moving \/ at[s] = Root

\* Solvers on a closed node are there until the next scan finds them.
ClosedSeen ==
  \A s \in Solver :
    at[s] # None /\ ~Unknown(at[s]) /\ at[s] \notin processed =>
      phase \in {"raise", "settle"} \/ (phase = "scan" /\ at[s] \in scan)

\* The parts that arrived are open and have none themselves.
PartsFresh ==
  got # None => UnknownParts(got) # {} /\ \A c \in Parts(got) : Parts(c) = {}

\* No parts are owed for a node that is done with.
OwedFresh == \A s \in orWaiting : at[s] \notin processed \/ s \in moving

\* A report of parts has some.
SizedReports ==
  \A s \in Solver : \A i \in 1..Len(reports[s]) :
    reports[s][i].kind = "parts" => reports[s][i].size > 0

CalmInv ==
  /\ SizedReports
  /\ ~Settled => /\ Peace /\ TargetOpen /\ ProcessedIdle /\ ClosedSeen
                 /\ PartsFresh /\ OwedFresh

\* With config.portfolio_min set, solvers that owe parts stay where they are.
Owed ==
  \A n \in partitioning : Unknown(n) /\ Parts(n) = {} => \E s \in orWaiting : at[s] = n

\* The solvers about to be moved work, on nodes that have parts or are closed.
MovingFree ==
  \A s \in moving :
    /\ at[s] # None /\ s \notin idle
    /\ ~Unknown(at[s]) \/ Parts(at[s]) # {}
    /\ phase = "scan" => at[s] \in processed

\* Idle solvers are on such nodes because these timed out or are done with.
IdleSeen == \A s \in idle : at[s] \in timedOut \cup processed

OwnInv == ~Settled => Owed /\ MovingFree /\ IdleSeen

ProgressInv == WorkInv /\ CalmInv /\ OwnInv

-----------------------------------------------------------------------------
(* The two sides.                                                          *)

\* Where a solver process will be when it has read its commands.
Heading(s) ==
  LET moves == {i \in 1..Len(cmds[s]) : cmds[s][i].op \in {"SOLVE", "INCREMENTAL"}} IN
  IF moves = {} THEN pos[s]
  ELSE cmds[s][CHOOSE i \in moves : \A j \in moves : j <= i].node

\* The server's idea of where a solver works is where the process is going.
ViewsAgree ==
  \A s \in Solver : (conn[s] = "up" /\ at[s] # None) => Heading(s) = at[s]

\* Each process does what the server counts on, as long as the server sees it:
\* the assumption that SolverClient.tla discharges.
ClientView(s) == INSTANCE Client WITH
  conn <- IF conn[s] = "closed" THEN "dead" ELSE conn[s],
  cmds <- cmds[s], reports <- reports[s], pos <- pos[s],
  fork <- s \in fork, done <- s \in done, Mortal <- s \in Mortal
ClientsKept ==
  /\ \A s \in Solver : ClientView(s)!Init
  /\ [][\A s \in Solver : [ClientView(s)!Next]_(ClientView(s)!vars)]_vars

-----------------------------------------------------------------------------
(* Liveness.  The server is fair to itself: handlers run to their end, and  *)
(* select times out again.  What else a property needs is its hypothesis:  *)
(* time that passes, or solvers that answer and select, which serves every *)
(* ready socket before it times out again.                                 *)

ServerSpec == Spec /\ WF_vars(Handler) /\ WF_vars(Tick)
TimePasses == SF_vars(Overdue)
FairSpec == ServerSpec /\ TimePasses
Answering ==
  \A s \in Solver : /\ SF_vars(DropReport(s) \/ ReadStatus(s) \/ ReadParts(s))
                    /\ SF_vars(TakeCommand(s)) /\ SF_vars(Answers(s))

\* config.solving_timeout: every instance gets a verdict in the end.
Announces == <>(verdict # "none")

\* Every instance is left in the end, so that the next one starts or the server
\* may quit (config.idle_quit).
Settles == <>(phase = "over")

\* With solving_timeout (schedular.py:416) an instance gets a verdict, whatever the
\* solvers do or do not.
AnnouncesInTime == TimePasses => Announces

\* As long as solving_timeout does not strike, the answers of the solvers end the
\* instance, and the server leaves it (schedular.py:456-461).
SettlesByAnswers == Answering /\ []~overdue => Settles
=============================================================================
