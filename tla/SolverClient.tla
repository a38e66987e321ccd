---------------------------- MODULE SolverClient ----------------------------
(***************************************************************************)
(* The threads of one solver process (client/SolverServer.cpp, Schedular,  *)
(* OpenSMT2/SolverProcess.cpp) and the channel they share.                 *)
(*                                                                         *)
(* The listener reads the socket of the server and queues events.  The     *)
(* communicator takes one event at a time: it asks the search to stop,     *)
(* waits for its result, reports it when it is an answer, executes the     *)
(* event and starts the search again.  The search runs in a task of the    *)
(* thread pool; the pull workers fetch clauses from the lemma server and   *)
(* queue their injection; a forked partitioner writes to the same socket.  *)
(*                                                                         *)
(* A step is what a thread does between two points where it waits or gives *)
(* up the mutex of the channel.  The channel and the thread pool are       *)
(* PTPLib's, the search is OpenSMT's: both are modelled from the way this  *)
(* code uses them.  The search raises shallStop when it ends with an       *)
(* answer, and only then (the assertion at Schedular.cc:128 relies on it); *)
(* it may spare itself the flag when it was asked to stop.                 *)
(*                                                                         *)
(* Nodes are numbered as in Scheduler.tla.  Operators named Mut_... are    *)
(* faulty variants of the definition after them, used to test properties.  *)
(***************************************************************************)
EXTENDS Integers, Sequences

CONSTANTS
  K, MaxNode,
  None,          \* no node
  Models,        \* the nodes that are satisfiable
  Puller,        \* bound: the pull workers that may be started
  MaxSends,      \* bound: commands the server sends
  MaxPulls,      \* bound: pulls that bring clauses
  Mortal         \* may memory run out

ASSUME ClientAssumption ==
  /\ K \in Nat \ {0} /\ MaxNode \in Nat /\ MaxSends \in Nat /\ MaxPulls \in Nat
  /\ None \notin 0..MaxNode
  /\ Models \subseteq 0..MaxNode
  /\ Mortal \in BOOLEAN

Node == 0..MaxNode
Root == 0
Path[n \in Node] == {n} \cup (IF n = Root THEN {} ELSE Path[(n - 1) \div K])
Truth(n) == IF n \in Models THEN "sat" ELSE "unsat"
Verdict == {"sat", "unsat"}

Event == [op : {"RESUME", "INCREMENTAL", "PARTITION", "INJECT"}, node : Node]
Order == [op : {"SOLVE", "INCREMENTAL", "PARTITION"}, node : Node]
         \cup [op : {"LEMMAS", "STOP", "TERMINATE"}]
Answer == [kind : Verdict, node : Node] \cup [kind : {"parts"}, node : Node, size : 0..K]

VARIABLES
  \* the server and its socket
  sent,          \* commands sent so far
  heading,       \* the node the server last sent the process to
  asked,         \* nodes it asked the process to partition
  wire,          \* commands on their way
  reports,       \* reports on their way back
  \* the process
  conn,          \* "up", or "dead" once it exited
  seed,          \* lemma_stat.seed is set: a SOLVE was read
  socket,        \* lemmaServer_socket is connected
  \* the channel
  events,        \* its queue of events
  header,        \* current header: the node
  shallStop,     \* the search has an answer
  shouldStop,    \* the search is asked to stop
  pulled,        \* clauses to inject: label, and the nodes they come from
  \* the communicator
  comm,          \* "off", "wait", "get", "stop", "join", "execute"
  event,         \* the event it handles
  future,        \* "none", "running", or the result of the search
  \* the solver
  pos,           \* node of the assertion stack
  decided,       \* the status of the main solver is not undefined
  injected,      \* nodes of the clauses injected at pos
  answered,      \* ghost: reported an answer since the search last started
  \* the partitioner
  partitioner,   \* "none", "running", or "exited" and not yet waited for
  splits,        \* node of the event it was forked for
  \* the pull workers
  workers,       \* the pull workers started
  pull,          \* the nodes they pull clauses for, None while they sleep
  pulls          \* pulls that brought clauses

serverVars == <<sent, heading, asked, wire>>
processVars == <<conn, seed, socket>>
flagVars == <<shallStop, shouldStop>>
commVars == <<comm, event>>
solverVars == <<pos, decided, injected, answered>>
partVars == <<partitioner, splits>>
pullVars == <<workers, pull, pulls>>
vars == <<serverVars, reports, processVars, events, header, flagVars, pulled, commVars,
          future, solverVars, partVars, pullVars>>

Up == conn = "up"
Report(r) == reports' = Append(reports, r)

Init ==
  /\ sent = 0 /\ heading = None /\ asked = {} /\ wire = <<>> /\ reports = <<>>
  /\ conn = "up" /\ seed = FALSE /\ socket = FALSE
  /\ events = <<>> /\ header = None /\ shallStop = FALSE /\ shouldStop = FALSE /\ pulled = {}
  /\ comm = "off" /\ event = None /\ future = "none"
  /\ pos = None /\ decided = FALSE /\ injected = {} /\ answered = FALSE
  /\ partitioner = "none" /\ splits = None
  /\ workers = {} /\ pull = [p \in Puller |-> None] /\ pulls = 0

-----------------------------------------------------------------------------
(* The server (schedular.py): it sends SOLVE first, asks for the parts of a *)
(* node at most once, and announces a lemma server at any time.            *)

Send(c) ==
  /\ Up /\ sent < MaxSends
  /\ sent' = sent + 1
  /\ wire' = Append(wire, c)
  /\ UNCHANGED <<reports, processVars, events, header, flagVars, pulled, commVars, future,
                 solverVars, partVars, pullVars>>

SendMove(n) ==
  /\ heading # n /\ (heading = None => n = Root)
  /\ heading' = n
  /\ Send([op |-> IF heading = None THEN "SOLVE" ELSE "INCREMENTAL", node |-> n])
  /\ UNCHANGED asked

SendPartition ==
  /\ heading \notin asked \cup {None}
  /\ asked' = asked \cup {heading}
  /\ Send([op |-> "PARTITION", node |-> heading])
  /\ UNCHANGED heading

SendOther ==
  /\ \E o \in {"LEMMAS", "STOP", "TERMINATE"} : Send([op |-> o])
  /\ UNCHANGED <<heading, asked>>

ServerReads ==
  /\ reports # <<>> /\ reports' = Tail(reports)
  /\ UNCHANGED <<serverVars, processVars, events, header, flagVars, pulled, commVars, future,
                 solverVars, partVars, pullVars>>

-----------------------------------------------------------------------------
(* The listener: SolverServer::handle_event.                               *)

Reads(o) == Up /\ wire # <<>> /\ Head(wire).op \in o /\ wire' = Tail(wire)

\* One more pull worker, next to a push and a learn worker that only concern
\* the clauses of this process.
StartWorkers ==
  \/ \E p \in Puller \ workers : workers' = workers \cup {p}
  \/ workers = Puller /\ UNCHANGED workers

\* preProcess_instance parses the instance and sets the header; the workers
\* and the communicator start; the event is queued as RESUME.
ListenSolve ==
  /\ Reads({"SOLVE"})
  /\ pos' = Head(wire).node /\ header' = pos'
  /\ comm' = "wait" /\ seed' = TRUE
  /\ IF socket THEN StartWorkers ELSE UNCHANGED workers
  /\ events' = Append(events, [op |-> "RESUME", node |-> pos'])
  /\ UNCHANGED <<sent, heading, asked, reports, conn, socket, flagVars, pulled, event, future,
                 decided, injected, answered, partVars, pull, pulls>>

\* A second announcement does not reconnect, but starts the workers again.
ListenLemmas ==
  /\ Reads({"LEMMAS"})
  /\ socket' = TRUE
  /\ IF seed THEN StartWorkers ELSE UNCHANGED workers
  /\ UNCHANGED <<sent, heading, asked, reports, conn, seed, events, header, flagVars, pulled,
                 commVars, future, solverVars, partVars, pull, pulls>>

ListenEvent ==
  /\ Reads({"INCREMENTAL", "PARTITION"})
  /\ events' = Append(events, Head(wire))
  /\ UNCHANGED <<sent, heading, asked, reports, processVars, header, flagVars, pulled, commVars,
                 future, solverVars, partVars, pullVars>>

Exit ==
  /\ conn' = "dead"
  /\ wire' = <<>> /\ events' = <<>> /\ comm' = "off" /\ event' = None /\ future' = "none"
  /\ pos' = None /\ decided' = FALSE /\ injected' = {} /\ answered' = FALSE
  /\ partitioner' = "none" /\ splits' = None
  /\ workers' = {} /\ pull' = [p \in Puller |-> None]
  /\ UNCHANGED <<sent, heading, asked, reports, seed, socket, header, flagVars, pulled, pulls>>

ListenStop == Up /\ wire # <<>> /\ Head(wire).op \in {"STOP", "TERMINATE"} /\ Exit

\* memory_checker
MemoryOut == Up /\ Mortal /\ comm # "off" /\ Exit

-----------------------------------------------------------------------------
(* The communicator: Schedular::communicate_worker.                        *)

Waits == Up /\ comm = "wait"
Ready == future \notin {"none", "running"}
Took == Up /\ Ready /\ future' = "none"

\* The flag says that the search has an answer.
ClearShallStop == shallStop' = FALSE

TakeFlag ==
  /\ Waits /\ shallStop
  /\ ClearShallStop
  /\ comm' = IF future = "none" THEN comm ELSE "get"
  /\ UNCHANGED <<serverVars, reports, processVars, events, header, shouldStop, pulled, event,
                 future, solverVars, partVars, pullVars>>

\* future.get() blocks; the answer goes out under the current header.
Get ==
  /\ comm = "get" /\ Took
  /\ Report([kind |-> future, node |-> header])
  /\ answered' = TRUE
  /\ comm' = "wait"
  /\ UNCHANGED <<serverVars, processVars, events, header, flagVars, pulled, event, pos, decided,
                 injected, partVars, pullVars>>

\* The front event is taken, the mutex given up, and the search asked to stop.
TakeEvent ==
  /\ Waits /\ ~shallStop /\ events # <<>>
  /\ event' = Head(events) /\ events' = Tail(events)
  /\ comm' = "stop"
  /\ UNCHANGED <<serverVars, reports, processVars, header, flagVars, pulled, future, solverVars,
                 partVars, pullVars>>

AskStop ==
  /\ Up /\ comm = "stop"
  /\ shouldStop' = TRUE
  /\ comm' = IF future = "none" THEN "execute" ELSE "join"
  /\ UNCHANGED <<serverVars, reports, processVars, events, header, shallStop, pulled, event,
                 future, solverVars, partVars, pullVars>>

\* A search that was stopped in time has no answer.
Mut_Conclusive == TRUE
Conclusive == future # "unknown"

Join ==
  /\ comm = "join" /\ Took
  /\ IF Conclusive
     THEN Report([kind |-> future, node |-> header]) /\ answered' = TRUE
     ELSE UNCHANGED <<reports, answered>>
  /\ comm' = "execute"
  /\ UNCHANGED <<serverVars, processVars, events, header, flagVars, pulled, event, pos, decided,
                 injected, partVars, pullVars>>

(* execute_event, and the start of the next search.                        *)
Executes(o) == Up /\ comm = "execute" /\ event.op = o

Mut_ClearShouldStop == UNCHANGED shouldStop
ClearShouldStop == shouldStop' = FALSE

Submit ==
  /\ ClearShouldStop
  /\ future' = "running" /\ decided' = FALSE /\ answered' = FALSE
  /\ comm' = "wait" /\ event' = None
  /\ UNCHANGED <<serverVars, reports, processVars, events, shallStop, pullVars>>

ExecuteResume ==
  /\ Executes("RESUME") /\ Submit
  /\ UNCHANGED <<header, pulled, pos, injected, partVars>>

\* The partitioner of the node that is left is killed and waited for.
Mut_KillPartitioner == UNCHANGED partVars
KillPartitioner == partitioner' = "none" /\ splits' = None

ExecuteMove ==
  /\ Executes("INCREMENTAL") /\ Submit
  /\ header' = event.node
  /\ pos' = event.node /\ injected' = {}
  /\ KillPartitioner
  /\ UNCHANGED pulled

\* SolverProcess::partition: nothing is forked when the solver has an answer.
ExecutePartition ==
  /\ Executes("PARTITION") /\ Submit
  /\ IF decided THEN UNCHANGED partVars
                ELSE partitioner' = "running" /\ splits' = event.node
  /\ UNCHANGED <<header, pulled, pos, injected>>

\* isPrefix(label, branch) asks whether the branch is on the path to the label.
Covers(label, branch) == branch \in Path[label]

\* add_constraint
ExecuteInject ==
  /\ Executes("INJECT") /\ Submit
  /\ injected' = injected \cup
       UNION {c.from : c \in {c \in pulled : Covers(c.label, event.node)}}
  /\ pulled' = {}
  /\ UNCHANGED <<header, pos, partVars>>

Execute == ExecuteResume \/ ExecuteMove \/ ExecutePartition \/ ExecuteInject

-----------------------------------------------------------------------------
(* The search task: SolverProcess::solve.                                  *)

SearchEnds(result) ==
  /\ Up /\ future = "running"
  /\ future' = result
  /\ decided' = (result \in Verdict)
  /\ UNCHANGED <<serverVars, reports, processVars, events, header, shouldStop, pulled, commVars,
                 pos, injected, answered, partVars, pullVars>>

SearchAnswers ==
  /\ SearchEnds(Truth(pos))
  /\ \/ shallStop' = TRUE
     \/ shouldStop /\ UNCHANGED shallStop
SearchStops == shouldStop /\ SearchEnds("unknown") /\ UNCHANGED shallStop

-----------------------------------------------------------------------------
(* The partitioner: its reports name the node of the event it came from.   *)

Splits ==
  /\ Up /\ partitioner = "running"
  /\ \/ \E m \in 0..K : /\ m = 0 => splits \notin Models
                        /\ Report([kind |-> "parts", node |-> splits, size |-> m])
     \/ splits \in Models /\ Report([kind |-> "sat", node |-> splits])
  /\ partitioner' = "exited"
  /\ UNCHANGED <<serverVars, processVars, events, header, flagVars, pulled, commVars, future,
                 solverVars, splits, pullVars>>

-----------------------------------------------------------------------------
(* A pull worker: pull_clause_worker.                                      *)

\* The header is read under the lock, the lemma server asked without it.
StartPull(p) ==
  /\ Up /\ p \in workers /\ pull[p] = None /\ header # None /\ socket
  /\ pull' = [pull EXCEPT ![p] = header]
  /\ UNCHANGED <<serverVars, reports, processVars, events, header, flagVars, pulled, commVars,
                 future, solverVars, partVars, workers, pulls>>

\* The answer holds clauses of nodes on the path of the node asked for.  They
\* are labelled with the current header (insert_pulled_clause), the event
\* carries the header that was read before.
EndPull(p) ==
  /\ Up /\ pull[p] # None
  /\ pull' = [pull EXCEPT ![p] = None]
  /\ \/ UNCHANGED <<pulls, events, pulled>>
     \/ /\ pulls < MaxPulls /\ pulls' = pulls + 1
        /\ \E from \in (SUBSET Path[pull[p]]) \ {{}} :
             pulled' = pulled \cup {[label |-> header, from |-> from]}
        /\ events' = Append(events, [op |-> "INJECT", node |-> pull[p]])
  /\ UNCHANGED <<serverVars, reports, processVars, header, flagVars, commVars, future, solverVars,
                 partVars, workers>>

-----------------------------------------------------------------------------
Server == (\E n \in Node : SendMove(n)) \/ SendPartition \/ SendOther \/ ServerReads
Listener == ListenSolve \/ ListenLemmas \/ ListenEvent \/ ListenStop \/ MemoryOut
Communicator == TakeFlag \/ Get \/ TakeEvent \/ AskStop \/ Join \/ Execute
Search == SearchAnswers \/ SearchStops

Next == \/ Server \/ Listener \/ Communicator \/ Search \/ Splits
        \/ \E p \in Puller : StartPull(p) \/ EndPull(p)

Spec == Init /\ [][Next]_vars
=============================================================================
