# A formal model of SMTS

SMTS solves one hard SMT instance with many solver processes.  A server keeps a
tree of partitions of the instance and decides which solver works on which node,
when a node is split further, and what the answers of the solvers say about the
whole.  This directory holds TLA+ models of that system, the TLC configurations
that check them on small instances, and TLAPS proofs about them for every size.
Paths are relative to the root of the repository; line numbers are those of the
code modelled.  `PROJECT.json` maps every definition to its lines.

Contents: 1 inventory, 2 modules, 3 the scheduler, 4 the solver process and the
lemma server, 5 the life of the server, 6 moves and the visual tree, 7 runs and
bounds, 8 fairness, 9 disagreements and observations, 10 proofs, 11 what is not
modelled, 12 plan.

## 1. Inventory

| Component | State | Operations | What makes it correct |
|---|---|---|---|
| Scheduler: `ParallelizationServer`, `Solver` (`server/schedular.py`), tree (`server/framework.py`) | search tree with status and flags per node; per solver its node and the parts it owes; idle list, partition count, timeouts; the current instance | `Solver.read`, `entrust` after every message and every timeout of select, `partition`, registration, end of file | recorded statuses are true; the verdict is the recorded one; no solver is lost; there is always a node to work on; the distribution loops end; every instance is left |
| Solver process: `SolverServer`, `Schedular`, `SolverProcess` (`src/client`) | queue of events, stop flags, current header, result of the search, assertion stack, forked partitioner, pulled clauses | listener, communicator, search task, pull/push/learn workers, memory check, partitioner | reports name the right node, commands are obeyed in order, a request is executed, only clauses that hold are injected |
| Event loop and framing (`server/net.py`, `src/lib/net`) | read list, sockets | select, accept, read, write, close | a handler runs to its end or is abandoned by an exception; messages are read as they were written |
| Texts as JSON (`server/utils.py`) | | `smt2json`, `json2smt` | the JSON of a text has its items, and leads back to it |
| Server life cycle (`schedular.py`, `smts.py`, `client.py`) | queue of instances (`trees`), `current`, registered solvers and lemma server, `_rlist` | a file, eval or terminate arrives; a solver or the lemma server registers, reports an error, leaves; an instance starts and ends; `idle_quit` | every file gets one verdict, its own; newcomers are placed and told of the lemma server |
| Scripts of a move (`SMT.to_string`, `Solver.incremental`) | the node the server believes a solver to be at; the assertion stack of the process | solve, incremental, ask_partitions, stop | the assertion stack is the branch of the node |
| Fixedpoint instances (`framework.Fixedpoint`) | the program and its query | parse, partition | the query can be derived if and only if that of a part can |
| Visual tree (`collectData_vTree`, `render_vTree`) | `node_dict`, `node_alias`, `rank` | a report is collected; the picture is drawn and cleared at the end | it can be drawn, and shows the tree and the node that decided it |
| Lemma server (`src/lemma_server`) | tree of lemmas per instance, what each solver already got | push, pull, garbage collection, close | a solver gets clauses of its path only, none twice |
| Z3/SALLY clients, MCMT | | | described as unsupported; not built by default |
| GUI, plotting, launch scripts, vendored graphviz | | | presentation |

**How they interact.**  Server and solver processes exchange framed messages over
one TCP connection per process: commands one way (SOLVE, INCREMENTAL, PARTITION,
LEMMAS, STOP, TERMINATE), reports the other (sat/unsat, partitions, info, error).
Within the server there is one thread.  Within a solver process listener,
communicator, search and workers share a channel under one mutex, and the forked
partitioner shares the socket.  Solver processes talk to the lemma server on a
second connection.

**What is hard.**  The server acts on a view of the solvers that is always old: a
report may name a node the solver was moved away from, parts may arrive for a node
decided meanwhile, a process may be dead while the server still writes to it, and
an exception abandons the handler half way and is swallowed.  `entrust` keeps
three flags per node and an idle list by hand in several places, and has two
loops that end only if those agree.  Files, solvers, lemma servers and clients come
and go in any order, and three places must tell the right solvers of the lemma
server, two place newcomers.  A script is relative to where the server believes the
process to be, so one wrong move spoils all that follow.  In the solver process the communicator gives
up the mutex between taking an event and stopping the search.  The `hazards` of
`PROJECT.json` list these at their lines, each with the properties that watch it.

## 2. Modules

| Module | Contents |
|---|---|
| `Search` | abstract: what the server promises about one instance |
| `Client` | abstract: what the server counts on from one solver process |
| `Scheduler` | the scheduler, its connections, and the processes at its other end |
| `SchedulerProps` | its type invariant, invariants, refinements and liveness |
| `SchedulerProofs` | theorems about it: soundness, the refinement of `Search` |
| `SchedulerViewProofs` | theorems about the server's view of the processes, and its use of them |
| `SchedulerWorkProofs` | theorems about progress: work is left, loops end, parts are owed |
| `SolverClient` | the threads inside one solver process |
| `SolverClientProps` | their properties |
| `SolverClientProofs` | theorems about them: the flags, the implementation of `Client` |
| `LemmaServer` | the lemma server and the push and pull workers at its connections |
| `LemmaServerProofs` | theorems about it |
| `Lifecycle` | event loop, registration, queue of instances, verdicts, `idle_quit`, and the peers |
| `LifecycleProofs` | theorems about it |
| `Wire` | frames: `Socket.write`, `Socket.read`, in Python and C++ |
| `Text` | `smt2json` and `json2smt` |
| `Script` | `SMT.to_string` and what a script does to an assertion stack |
| `Fixedpoint` | the partition of a fixedpoint program, and what a program derives |
| `Moves` | what the server sends to move, ask and stop a solver, and what the process has asserted then |
| `MovesProofs` | theorems about it |
| `Display` | `Moves` with the reports of the processes and the visual tree drawn of them |
| `DisplayProofs` | theorems about `Display`: those of `Moves`, and the picture |
| `MCScheduler`, `MCSolverClient`, `MCLemmaServer`, `MCLifecycle`, `MCMoves` | what TLC needs: symmetry, casts, programs |

The two halves meet in `Client`.  `Scheduler` contains a small model of the
processes; `ClientsKept` says that each of them, with its queues, is a `Client`.
`SolverClient` models the threads, and `ClientPromise` says that they implement
the same `Client`.  Both are checked and both are proved (section 10).  So what the scheduler assumes of a process is what the threads
provide (with one reservation, `client_lemma` in section 9).  `Moves` refines two things
`Scheduler` takes as one step, the message of a move and its execution, to scripts and
stacks; `Lifecycle` is what surrounds `entrust` for one instance.

Operators named `Mut_...` belong to no specification: each is the definition after
it with one plausible programming fault, used to see that a property notices it.

## 3. The scheduler

**Tree.**  AND nodes are numbered like a K-ary heap; the number order is the order
in which `entrust` sorts nodes.  `partition_policy[0]` is 1, so an OR node is the
membership of its parent in `partitioning`.  `status`, `started`, `timedOut`,
`processed` are the fields `_status`, `_started`, `assumed_timout`, `processed`.
Truth is the ghost `models`: the set of satisfiable nodes, chosen initially for
the root and for parts when they are created, such that they cover their parent.

**Handlers.**  `Tick`, `JoinSolver`, `CloseSolver`, `DropReport`, `ReadStatus`,
`ReadParts` start a handler.  All but two lead into `entrust`, whose decisions are
steps chained by `phase`: `Raise` (the recursion of `_set_status`, one level per
step), `TerminateAll` / `PrintVerdict` / `PlaceNewcomer` / `StartScan` (phase
`settle`), `ScanUnsat` / `ScanExpired` / `ScanRunning` (the loop over nodes),
`PlaceSolved` (lines 590-603), `ChooseFollowers`, `PlaceFollowers` (604-628),
`PlaceIdle`, `Rescue`, `Ask` (`partition`).  A loop that cannot end goes to phase
`hung`.  Solver processes move only in phase `select`: a handler reads nothing
they write, and a process that dies during a handler behaves as one that died
before it, since a write to a dead process may either be accepted or raise
(`MoveRaises` and the disjuncts with `conn = "dead"`).

**Choices left open.**  Time: whether a node timeout passed, whether
`partition_timeout` passed, and when `solving_timeout` passes are choices.  The
iteration order of Python sets is a choice.  An error report sets the timeout to 0
and is the same as `Overdue`.

**Properties** (`SchedulerProps`).
- `StatusSound`: a recorded status is true.  `SearchPromise`: refinement of `Search`.
- `SearchInv`: the inductive strengthening (section 10).  `ClimbInv`, `NoSatInScan`: the
  assertion at line 540.
- `LoopsEnd`: no handler loops for ever.  `WorkRemains`: while the instance is open,
  some open node without parts is not flagged processed.
- `PartitionOwned`: an open partitioned node without parts has exactly one solver that
  owes them.  `BusyIsUseful`, `IdleIsTimedOut`: the idle list and the nodes of the
  solvers agree with the tree.  `ViewsAgree`: the server's view of a solver is where
  its queue of commands leads it.
- `ClientsKept`: the processes keep to `Client`.
- `AnnouncesInTime`: if time passes, every instance gets a verdict (`Announces`).
  `SettlesByAnswers`: if the solvers answer and `solving_timeout` does not strike, every
  instance is left (`Settles`).  Without these conditions section 9 has counterexamples.

- `ProgressInv`: the inductive strengthening of `LoopsEnd` and the properties of the books
  (section 10).

`WorkRemains` and `ViewsAgree` hold whatever dies.  `LoopsEnd`, `PartitionOwned`,
`BusyIsUseful` and `IdleIsTimedOut` are claimed without crashes only: a pending request
for parts is lost with its process, and an abandoned handler leaves freed solvers
unplaced, which may even make a later handler hang (section 9); the code does nothing
about either.  They also need reports of parts that have some (`sched_empty`), and
`PartitionOwned` and `IdleIsTimedOut` a `portfolio_min` other than 0 (section 9).

## 4. The solver process

A step of `SolverClient` is what a thread does between two points where it waits or
gives up the channel's mutex.  The listener (`ListenSolve`, `ListenLemmas`,
`ListenEvent`, `ListenStop`) queues events; the communicator takes the flag of the
search (`TakeFlag`, `Get`) or an event (`TakeEvent`, then `AskStop` without the mutex,
`Join`, `Execute...` with the start of the next search); the search ends with an
answer or because it was asked to (`SearchAnswers`, `SearchStops`); the partitioner
reports (`Splits`); a pull worker reads the header (`StartPull`), asks the lemma server
without the mutex and queues the injection (`EndPull`).  The server is its
environment: it sends SOLVE for the root first, then moves, requests for parts (one
per node), LEMMAS, STOP, TERMINATE in any order.

The channel and the thread pool come from PTPLib and the search from OpenSMT, which
are not in the repository; they are modelled from their use.  Three assumptions:
the search raises `shallStop` when it ends with an answer and never otherwise (line 128
asserts what follows from it; whether it also does so when it was already asked to
stop is a choice); a search that is asked to stop may still answer; pulled clauses
are labelled with the channel's current header.

**Properties** (`SolverClientProps`).  `GotVerdict`: the assertion of
`Schedular.cc:128`, although the flag may be left over from an earlier search.
`ClientPromise`: refinement of `Client`; the command being handled counts as queued
until it is executed, and RESUME and CLAUSEINJECTION are internal.  It contains that
every report names the node the process was last moved to.  `AnswersInTheEnd`: if
every search ends, the process answers for the last node it was sent to.  `OnDemand`: a
queued request for parts is executed or the process exits, however long the searches
take.  `InjectsOnPath`: injected clauses come from the path of the current node.  The
code keeps to neither of the last two (section 9).

**The lemma server** (`LemmaServer`).  A solver process pushes clauses (`Push`) or
pulls (`Pull` until `Pulled` or `PullFails`, holding `lemma_mutex`); both write to its
connection (`link`).  The main thread accepts (`Accept`), queues a task per message
(`Read`), and deletes the socket of a process that left (`Close`); `Quit` is its exit,
when the server closes the connection or resets the instance.  The worker runs the
tasks in order (`RunPush`, `RunPull`).  `store` is the map `lemmas`; an entry of `solvers`
is in `seen`, and also in `known` when its flag is true; `Garbage` is `garbageCollect`,
which erases entries and not lemmas.  A clause is named after the lowest node it
needs, so what a solver may use at a node is what is named after its branch.  The
scores of lemmas and the two sorts are a choice of `Amount` lemmas (`Selections`).
The worker and the main thread share the sockets and two maps without a lock: each
overlap may end the process (`Races`, `Survives`), and the socket of a new client may
take the memory of a deleted one (`heir`), whose late tasks then act for the new one.
As there is one clause per node, a clause is stored at one place.  In the code two
solvers may derive the same text at different nodes or levels; it is then stored at
each place as a lemma of its own, with records of its own, and may be sent once for each.

Its properties: `SharedIfDistinct`, clauses that arrive at a pull hold at its node,
while no memory is reused (section 9 says what happens otherwise);
`OncePerClient`, no clause comes back to its sender or a second time before records
are collected, a text stored at two places counting as two clauses; `PullsEnd`, so a
push never waits for ever for the mutex.

## 5. The life of the server

`Lifecycle` is the server as `smts.py` runs it without `-p`: `partition_timeout` is None
and `entrust` ends at line 499.  Its peers are clients (`client.py`, or the thread of
`smts.py` that sends files; `Say`, `Leave`), solver processes (`Connect`, `Obey`, `Answer`,
`Die`) and lemma servers (`Obey`, `Complain`, `Die`).  Which of them come, what the clients
send and whether `enableLog` is set is a `Scene`, chosen initially.

`kind` is the class of the socket of a peer in `_rlist`; `broken` the sockets that were
closed and not removed from it.  `Select` is a round without anything to read, or one that
raises.  Otherwise one readable socket is served: `Accept`, `Close`, `CloseLemmaServer`,
`ReadRaises` (unread data at the other end), or a message (`HandleSolve`, `HandleEval`,
`HandleTerminate`, `HandleSolver`, `HandleLemmas`, `HandleReport`, `HandleError`,
`HandleFatal`).  Those that call `entrust` go to `pc = "settle"`: `Ends` or `EndFails` (lines
413-461), then `Starts` (462-499) or `Rests` (503-511).  An exception abandons the
handler (`Raise`); what was assigned and written before it stays.  A write to a process
that died may be accepted or raise, so a command written to several processes may
reach any subset of the living (`Cut`).

Properties: `Placed`, between handlers every registered solver works on the current
instance, and without one nothing waits; `LemmaAnnounced`, every registered solver was
last told of the lemma server that is registered; `VerdictOwn`, the verdict of a file
comes from a report about it; `KeptUntilAnnounced`, a file leaves the dictionary only
for another of its name, or when the verdict of one of its name is printed;
`EveryInstance`, every name in the dictionary gets a verdict.  `Placed`, `LemmaAnnounced`
and `EveryInstance` are claimed until an exception abandons a handler, `VerdictOwn` for
names used once: section 9 says what happens otherwise.

`Wire` is what is below the messages of all these modules: a message is packed into bytes
(`Written`) and a stream of bytes unpacked (`Received`, `Parse`), by the same rules on both
sides.  `FramesRead`: two messages written one after the other are read as they were, and
one that cannot be packed leaves nothing in the stream, which is why a write that
raises may be modelled as no message.

## 6. Moves and the visual tree

`Script` has `to_string` as a function of two nodes: the climb from the old node to the
first ancestor of the new one (`Meets`), the pops (`Pops`) and the nodes to assert
(`Adds`).  In `Moves` a process has a stack of asserted AND nodes, each with the name of
its instance; the server sends `Solve`, `Move`, `Ask`, `End` (STOP) and the process reads
them in order (`Obey`), or is lost and replaced (`Replace`).  `ViewsChain`: the server's
view of a solver is where the messages under way lead it, each starting where the one
before it ends.  `StackIsBranch`: a process has asserted the branch of its node,
nothing else, and no script pops the frame of the root.

`Fixedpoint` is the splitting of a fixedpoint program by the rules of its query, with
derivation as least model: `PartsMeanQuery`, the query can be derived if and only if one
of the parts can.  Facts of the query and names that collide are left out
(`Splittable`), since the code misses them.

`Text` is how such a program is read: eight substitutions on the whole text, here on its
tokens, in their order (`Smt2json`), and back (`Json2smt`).  `JsonMeansText`: the result has
commas between the items of each list and nowhere else, so that it is the JSON of the
text, and it leads back to the text.

`Display` adds the way back to `Moves`: processes report (`Obeys`, `Finds`, `Splinters`),
`Solver.read` drops reports of another node (`Accepts`, `Drops`) and passes on the others
(`ReadStatus`, `ReadParts`, `ReadOther`), each of which is collected (`Collect`).  `Ends` draws
the picture first; a key without alias raises (`Drawable`), now and at every later
attempt, so that the instance would never end.  Which ancestor a status closes is a
choice, decided in `Scheduler`.  `PictureTrue`: the picture can be drawn and shows the
tree, unless a report came after the end of the instance before (`stale`).  `DeciderShown`:
it highlights the node whose report decided the instance, and no other, under the same
condition.

## 7. Runs and bounds

| Run | Instance | Shows |
|---|---|---|
| `sched_parts` | 2 solvers, K=2, root and its parts, all timeouts, restarts | all invariants and both refinements (607 382 states) |
| `sched_depth` | 3 solvers, K=2, two levels below the root, no timeouts | climbing over levels, moves while reports are under way: loops end, `ProgressInv` (2.5 M) |
| `sched_crash` | 2 solvers, one may die, the other joins late | work is left and views agree under abandoned handlers (4.1 M) |
| `sched_ends` | 2 solvers, K=1, two levels, node timeouts, `solving_timeout`, no empty partitions | `AnnouncesInTime`, `SettlesByAnswers` (99 310) |
| `client_tasks` | 4 commands, 1 pull with clauses, memory may run out | the threads implement `Client`; `AnswersInTheEnd` (100 737) |
| `lemma_share` | 2 solver processes, root and its 2 parts, 3 messages, both may come late and leave | clauses of the path, once each; pulls end (902 588) |
| `life` | 8 casts of up to 2 clients, 2 solver processes, 2 lemma servers, 1 or 2 files; with or without enableLog | placement, registration, verdicts, queue (349 389); messages of 2 fields as frames |
| `moves` | 1 process, 2 instances, up to 3 AND nodes, 2 messages and 1 report under way; some 200 fixedpoint programs | scripts and stacks, partition of programs, the picture (3.9 M); texts of up to 7 tokens as JSON |
| `sched_empty`, `sched_leave`, `client_deaf`, `client_lemma` | | violations, section 9 |

Bounds, all in constants: `MaxNode` (no partitioner answers below it), `Solver`, `K`,
`MaxSends`, `MaxPulls`, `Puller`, `MaxPosts`; in `Restarts`, a search restarts only when the server
has read its reports, since queues would grow otherwise.  Two solvers suffice for a
solver that owes parts beside one that is moved, three for one that is handed out
while two share a node.  K=2 distinguishes the first from the last part; two levels
are needed for unsat to close a subtree with decided nodes in it and for sat to climb
through a node that is not the root.  In `client_tasks` four commands are SOLVE, a
request, a move and either a second request or LEMMAS; the run also passes with five
(1.2 M states).  `sched_depth` sets `NodeTimeout = "long"`, so timeouts and the idle list
are left to `sched_parts`.  What is proved for every instance (section 10) is checked in
one run and not repeated in the larger ones; nor does a run check `ClimbInv`, which is
part of the proof of `AssertionHolds`.  `sched_crash` does not check `LoopsEnd`: it holds at
this bound and fails with a third solver and a third level (section 9).  `sched_ends`
uses K=1 because liveness is checked without symmetry.  No process dies and none comes
late in `sched_parts`, `sched_depth` and `sched_ends`: under crashes `StatusSound`,
`SearchPromise` and `ClientsKept` rest on their theorems alone, `LoopsEnd` and the books of
the idle and the owing solvers are not claimed, and no run claims that an instance
ends.  In `lemma_share` three
messages are enough for two pushes of the same clause before a pull, and for two
pulls after a push; `CutSize` 1 makes two pushes of two clauses start a collection,
and `Amount` 1 makes a pull leave lemmas behind.

`life`: two files are a queue, and the second one shows what the end of the first
leaves behind; one process is `solver_opensmt`, which exits on STOP, the other
`dummy_solver.py`, which stays and may die; two lemma servers are a replacement; one
cast has two files of the same name.  A
dead process keeps one unread message and a repeated command is kept once (`Put`);
what is printed again is counted up to 2.  Each cast is explored completely.
`moves`: three AND nodes give two parts, or a part of a part, hence moves down, up and
to a sibling, and a script sent before the one ahead of it is read; longer branches
and more processes are covered by the proofs (processes do not touch each other).
The second instance shows what remains of the first: late reports, STOP and SOLVE
in one queue.  `MaxRank` 2 lets a status that did not decide be drawn before the one
that does.  The programs are all of at most two rules over two relations, two with a
longer derivation, two whose names collide with those of the parts, and the empty one.
`FramesRead` and `JsonMeansText` (in `MCLifecycle`, `MCMoves`) say that the sets of
exceptions `Misread` and `Misconverted`, which TLC evaluates once, are empty.
`Base` 3 stands for 256: texts of three bytes are too long for their length byte, and a
payload of 80 for the four bytes of the whole; one text begins with the byte that ends a
header.  Seven tokens reach every pair of neighbours at three depths, with a comment.

The runs of the client, of the lemma server and `life` switch the deadlock check off: the
process exits on STOP and is at rest when it has answered, the lemma server when
nobody writes to it, and the server of `life` leaves.  The scheduler never stops; `Halted` stutters after
the last step of an instance.  `sched_parts` and `sched_depth`, which treat all
solvers alike and check safety only, use symmetry, and so does `moves` for the two
instances.

## 8. Fairness

- `ServerSpec`: a handler goes on (one thread, no blocking call) and select times out
  again (`Tick`).  The rest is a hypothesis of the property that needs it.
- `TimePasses`: time passes (`SF` of `Overdue`: it is only enabled between handlers, but
  the clock runs during them).  `AnnouncesInTime` assumes it, and nothing of the solvers.
- `Answering`: select serves every ready socket in each round, so a report that is
  always again readable is read (`SF`); a process reads its commands and its search
  ends (`SF`, since both are disabled during handlers).  Nothing is assumed of
  partitioners.  `SettlesByAnswers` assumes it.
- `FairSpec`, of `sched_empty` and `sched_leave`: `ServerSpec` and `TimePasses`.
- `ThreadSpec`: listener and communicator go on when they can (the mutex is never held
  across a wait), and a search that is asked to stop ends.  It is what the code's
  scheduling gives, and under it `OnDemand` is refuted (`client_deaf`).  `PatientSpec` adds
  that every search ends by itself, which solvers do not promise: `client_tasks`
  assumes it for `AnswersInTheEnd` alone, a property about searches that end.
- `FairSpec` of `LemmaServer`: main thread, worker and the waiting pull worker go on.
  Clients need not push, pull, come or leave.
- `FairSpec` of `Lifecycle`: the single thread of the server goes on (`WF` of `Server`: a
  select with a timeout, handlers without a blocking call), and time passes (`SF` of
  `Overdue`, disabled during handlers).  Nothing is assumed of clients, processes and
  lemma servers, nor of the order in which select's sockets are served; a file the
  server has read is enough for `EveryInstance`.

## 9. Where code and text disagree, and observations

- `sched_empty`: a partition answer without parts hangs the server in the loop of
  `schedular.py:618`; `solving_timeout` never takes effect.
- `sched_leave`: timeout while the root waits for its parts; the solvers are
  terminated, then STOP is written to dead processes and raises after the instance
  was removed.  It stays current, and the server never quits nor starts the next.
- `client_deaf`: a search that answers while it is being stopped leaves `shallStop` up, and
  nothing takes it down when the next search begins.  The communicator then takes
  `future.get()` (`Schedular.cc:127`) for a wait of no length, but the search was not told
  to stop: it blocks until that search ends by itself.  A request for parts, which
  the server sends because the search does not end, is not read, though
  `README.md:8` says that the solver "partitions the instance dynamically on-demand".
- `client_lemma`: a pull that straddles a move injects clauses of the node that was
  left (`Schedular.cc:408-435`, `SolverProcess.cpp:304-326`).  `ClientPromise` takes
  the answers of the search to be right for its node; with such clauses they need
  not be.  This is the reservation of section 2.

Observed while modelling, without a text that the code contradicts.

*Scheduler.*  `partition_count` becomes negative when fewer parts than asked arrive and
nodes time out.  A solver that joins late after the timeout can make every handler
raise.  With `portfolio_min = 0` idle solvers and those that owe parts are handed out
(`PartitionOwned` and `IdleIsTimedOut` fail with 4 solvers).

A process that dies at the wrong moment hangs the server.  Solver 1 owes the parts of
a node, solver 3 answers unsat for that node and dies.  The scan flags the node
processed and collects its solvers in `solved_solvers`; the first `incremental` (line 599)
goes to solver 3 and raises, and run_until_timeout swallows it.  The next scans skip
processed nodes, so solver 1 stays on the closed node with `or_waiting` set.  Its parts
arrive, are cleared because the node is closed (line 202), and entrust hands out
followers to no child: the loop of line 618 never ends, nor is `solving_timeout` looked at
again.  TLC finds it with K = 2, MaxNode = 4 and three solvers (`portfolio_min` 0) or four (1),
one of them mortal, in 38 steps.

*Solver process.*  Every LEMMAS command starts three more workers (`SolverServer.cpp:66`).

*Lemma server.*  A task refers to the socket of its client after that was deleted
(`LemmaServer.cpp:118`); when the next client's socket is allocated there, a late pull
of the old client is answered to the new one, which takes it for the answer to its
own (`Schedular.cc:484` compares the instance only).  `SharedIfDistinct` is therefore
claimed while no task refers to a socket whose memory was used again (`Distinct`).  The reset after an instance makes the lemma server exit
(`LemmaServer.cpp:93`), so the next instance has none.

*Life of the server.*
- Two files of the same base name: the second replaces the running first one in `trees`,
  is removed with the verdict of the first (line 447) and never announced; a late
  report about the first may decide it.
- `solvers(False)` returns every registered solver: one without a node makes the end of
  the instance raise (line 455), and then every later attempt at line 447.
- Replacing the lemma server leaves its closed socket in `_rlist`; every select raises.
- An OpenSMT process exits on STOP, so a second file may find no solver left and
  waits for ever; a client still connected when the last instance ends keeps the
  server from quitting (line 508).
- "lemma server connection failed" (`SolverServer.cpp:130`) is an error report and gives up
  the whole instance; an error report of the lemma server exits the whole server
  (line 307), while `exit(1)` at line 284 is swallowed by the bare except around it.
- A write that raises in the close handler of the lemma server leaves the socket in
  `_rlist`, and the other solvers untold.
- `dummy_solver.py` raises on the LOG_MODE greeting of a server with `enableLog`.
- `run_forever` passes the remaining time as `enable_log`, so select always waits 0.1 s.

*Fixedpoint.*  `to_string` refuses a start (line 308), so the parts are never given to a
solver that has a node.  Facts of the query are not split off; the query and an index
may form a name the program already uses; `partition` changes the nested rules of the
original through a shallow copy.

*Frames.*  `recv(4)` may return fewer bytes (`net.py:46`), which is taken for the end of the
connection; only the content is read in a loop.  A partitioner that is killed in the
middle of a write (`SolverProcess.cpp:292`) leaves part of a frame in the socket it shares
with its parent: the server takes the missing bytes from the parent's next frame, loses
that one, reads a length where there is none, and may then block in `recv` for all
other sockets.

*Texts.*  `smt2json` adds the closing bracket behind the text and removes comments after that,
and before it protects strings: a fixedpoint file that ends in a comment without a line
end, or has a semicolon in a quoted symbol, is refused as malformed.

*Visual tree.*  A report that comes after the end of its instance is drawn into the next
picture; if its node is none of that tree, the end of that instance raises for ever.
Unless other solvers report parts that give that key an alias: with two solvers, the
end may raise, a report of parts of the root then be read, and the next attempt succeed,
with no node highlighted, since that report took the colour of the root that was decided
(the first attempt to prove `DeciderShown` found this, TLC confirmed it with two solvers).
Moves are reported with `enableLog` only, with NODE the node that is left, so most are
dropped.  Parts of a decided node are drawn though they were cleared (line 205).
TERMINATE with `visualize_tree` and no current instance raises at line 312, and the server
is not closed.

## 10. Proofs

All theorems hold for every value of the constants that the named assumption of the
module allows (any number of solvers, nodes, parts, messages), and where it is said
under hypotheses of their own.  Each safety property is turned into an inductive
invariant, checked by TLC first, of which every step keeps each part (`...Step`), with one
case per action that disturbs it.

| Module | Theorem | States |
|---|---|---|
| `SchedulerProofs` | `SearchInvariant`, `TypeCorrect`, `Soundness` | `SearchInv`, `TypeOK`, `StatusSound` |
| | `Implements` | `SearchPromise`: the scheduler refines `Search` |
| | `ClimbInvariant`, `AssertionHolds` | `ClimbInv`, `NoSatInScan` |
| `SchedulerViewProofs` | `ProcessesAsPromised` | `ClientsKept` |
| | `ViewsCoincide` | `ViewsAgree` |
| `SchedulerWorkProofs` | `WorkInvariant`, `WorkIsLeft` | `WorkInv`, `WorkRemains` |
| | `CalmInvariant`, `NoHandlerHangs`, `SolversWorkOnOpenNodes` | `CalmInv`, `LoopsEnd`, `BusyIsUseful`; if `Mortal = {}` and no report of parts is empty |
| | `OwnInvariant`, `PartsAreOwed`, `IdleForAReason`, `ProgressInvariant` | `OwnInv`, `PartitionOwned`, `IdleIsTimedOut`, `ProgressInv`; if besides `PortfolioMin # 0` |
| `SolverClientProofs` | `SolverClientTypes`, `FlagMeansAnswer` | `TypeOK`, `GotVerdict` |
| | `ThreadsKeepPromise` | `ClientPromise`: the threads refine `Client` |
| `LemmaServerProofs` | `LemmaServerTypes`, `AnswersHoldOnPath`, `ClausesSentOnce` | `TypeOK`, `SharedIfDistinct`, `OncePerClient` |
| `LifecycleProofs` | `LifecycleTypes`, `SolversArePlaced`, `LemmasAnnounced`, `VerdictsOwn`, `InstancesKept` | `TypeOK`, `Placed`, `LemmaAnnounced`, `VerdictOwn`, `KeptUntilAnnounced` |
| `MovesProofs` | `ScriptLeads`, `ViewsRight`, `StacksRight` | the script of a move, `ViewsChain`, `StackIsBranch` |
| | `SplitKeepsMeaning`, `PartsRight` | the parts of any fixedpoint program, `PartsMeanQuery` |
| `DisplayProofs` | `DisplayMoves`, `DisplayViews`, `DisplayStacks`, `DisplayParts` | `Display` refines `Moves`, and keeps the three |
| | `DisplayInvariant`, `PictureRight`, `DeciderRight` | `DisplayInv`, `PictureTrue`, `DeciderShown` |

*Soundness.*  The only assumption is `SchedulerAssumption`.  `Soundness` says the
scheduler is sound provided processes answer truthfully for the node they work on
and parts cover their node; both are in the actions `Answers`, `AnswersParts`,
`ReadParts`.  `StatusSound` is not inductive.  A report is recorded when it names
the node the server believes in, so `ReportsTrue` says that every report under way is
true of the node it names, whichever node the solver is on now.  unsat closes a
subtree, which is right because a satisfiable descendant would make every node above
it satisfiable: `PartsCover` and `TreeShape`, and the lemma `TruthClimbs`, which uses
that `Path` is the least set closed under parents.  unsat climbs when all parts are
unsat, which is right if all parts are there: parts arrive at once and only once,
hence `Requests` (a node is asked once, one solver owes its parts, and it has none
yet).  `Whereabouts` keeps every reference inside the tree, and `VerdictKept` ties
the verdict to the root.  `Learned` and `NewParts` say who may change `status` and
`tree`, so that the other actions need no case.  `Implements` maps each step to one of
`Split`, `Learn`, `Expire`, `Announce` or a stutter.  `AssertionHolds` needs `ClimbInv`: a
sat node has a sat parent unless a handler is still carrying it up, and no scan starts
when the root is decided; the least sat node in a scan would be the root (`NoSatOpen`).

*Views.*  `ViewsAgree` needs that a connection that did not register has no node and is in
no list (`AwayNowhere`): then only `Move`, `PlaceNewcomer` and `Ask` write to a live solver,
and what they write is where they put it (`Told`).  Exceptions do no harm here, since
a write that raises went to a dead process, of which `ViewsAgree` says nothing.
`ClientsKept` follows step by step, from who writes to whom and from `TypeOK`.

*Progress.*  `WorkRemains` needs three facts, which together are inductive in every
configuration (`WorkInv`).  An open node with parts has one that is not unsat, except
while a handler carries the last one up (`UnsatClimbed`; unsat closes whole subtrees at
once, so a part that becomes closed below the node of a report has a parent that does
too, `PathOfPart`).  A node that is done with has parts or is closed (`ProcessedSplit`).
Local variables fit the phase (`HandlerShape`), e.g. solvers are only collected when the
root has parts.  With `NoSatOpen` the greatest open node has no parts and is not done
with (`OpenLeaf`), so work is left, and the loop of line 592 always has a receiver
(`ReceiversExist`).

The loop of line 618 has one if the parts that arrived are open (`PartsFresh`), that is,
if the node they belong to was open when they were read.  That is why a closed node
must not have a solver that owes parts for long: `ClosedSeen` and `OwedFresh` say that the
scan which follows the closing finds it and moves it, which an exception in between
prevents (section 9), hence `Mortal = {}` (then `Peace`: nobody dies before the
instance ends); and some parts must have come, hence no empty report.  `ProcessedIdle`
says the same of all solvers and gives `BusyIsUseful`.  `CalmInv` joins these.

`PartitionOwned` says that no solver is moved away while it owes parts that are still
needed.  Four distributions move solvers; `MovingFree` says that those they move sit on
nodes that are closed or have parts, so they owe nothing that is needed (`MoveOwn`).  For
the followers of new parts that is so because they come from the path of the node
(`PathSplit`), which line 605 ensures only with `portfolio_min` set; otherwise all
solvers follow, and the request is lost.  `IdleSeen` says why a solver is idle.

*Threads of the client.*  The orders on the wire, in the queue and in the hand of the
communicator are one queue (`OnTheWay`); the `Flow...` lemmas show that each action
appends at its end, takes from its front, or leaves it alone, whatever part of it one
looks at.  `Route` says that on this queue every request for parts is about the node of
the move before it, so the partitioner is forked for the node the server meant.  With
`Results` (what the future holds is the truth about `pos`, and is reported once) each
step of the threads is a step of `Client` or a stutter.

*Lemma server.*  A clause is stored at its home, the place named by the parts chosen on
the way; the first part of the proof shows that a home determines its node
(`BranchShaped` and what follows), so what lies on the path of a pull holds at its node.
`IInv` adds that a solver has at most one pull on its way and nothing after it, that an
answer fits the pull that waits for it, and that what a solver pushed is recorded for
it or queued before its next pull.

*Life of the server.*  `IInv` says what holds in the middle of a handler: solvers have no
node or that of the current instance (`SolversPlaced`), are told of the registered lemma
server or of none (`LemmaTold`), register once and with their first message
(`Registration`); `raised` ends the claims that an exception spoils.  `LifecycleAssumption`
says that clients, processes and lemma servers are different things, and that two lemma
servers come at most.

*Moves.*  `ScriptLeads` is a fact about two paths: the climb ends at a common
ancestor of length `m` (`MeetsAncestor`; it may be an OR node), so the AND nodes that
stay asserted are the first `m \div 2 + 1` of either branch (`SamePrefix`), the pops are
the others of the old one and `Adds` the others of the new one.  `StackIsBranch` is not
inductive, as it says nothing of the messages under way.  `MovesInv` adds that every
message carries the script of its header (`TypeInv`), that the messages of a queue
start where the ones before them end (`ViewsChain`), and that no solver has a node
without an instance (`NodeInv`); then the script that is read next starts where the
process is, and `ScriptLeads` applies (`ObeyStack`).

*Fixedpoint instances.*  `MovesAssumption` says of the programs only what the loop of
lines 260-271 tells apart: each has finitely many rules of three forms.  `SplitKeepsMeaning`
needs no induction over derivations, as what is derived is the least closed set.  If no
part can be derived, what the parts derive, less the query, is closed under the
program, which then cannot derive the query either; here the query must be no fact, so
that all its rules are split (`QuerySplit`).  If the query cannot be derived, what the
program derives is closed under the rules of the parts, and no part is in it, as their
names are new.

*Visual tree.*  Every behaviour of `Display` is one of `Moves` (`DisplayMoves`), so what is
proved of `Moves` holds with reports under way.  `PictureTrue` is not inductive, as it
says nothing of what will be reported.  `WayInv` does: every message and every report under
way names nodes of the tree, if it is of the current instance (names are used again only
when forgotten, `Forgotten`), and so does the place of every solver and process.  A report
that is passed on for a solver with a node is then about nodes of the tree (`Rooted`:
with all above them), and unless it has been stale the picture keeps `PartsInv`: what
is in the tree is drawn below its node, what is drawn below an open node is in the tree,
and no report brought zero parts.  Hence the OR node that new parts get in the tree is the
one they get in the picture (`DrawnOR`), although the code numbers them apart; and the
node of a new key has been drawn before it, which gave it its alias (`Parented`).  `Ranks`:
each status has a higher rank than those before it; the report that decides the root is
the last, since none is read while the instance is ending and can be drawn.

*Recursion.*  No definition uses RECURSIVE.  `Path` in `Scheduler` is a least set; `Branch`
in `LemmaServer` and `Only` in `SolverClientProps` are recursive functions.  The induction
theorems of the library cannot be instantiated, so what these compute is proved from
a least counterexample (`LeastNode`, `LeastNat`).

*Only model-checked:* liveness (`AnnouncesInTime`, `SettlesByAnswers`, `AnswersInTheEnd`,
`PullsEnd`, `EveryInstance`; fairness and ENABLED are beyond the prover); and `FramesRead`
and `JsonMeansText`, which are statements about all inputs up to a bound, evaluated by
folds over sequences.  Every other property of a run that passes is a theorem.

## 11. Not modelled

Characters and escapes of quoted strings in SMT-LIB texts, logging, the random seeds;
short reads of the length of a frame, and torn frames; the number of solvers drawn at a node and the layout of the
picture; the learn worker, which moves clauses from the search to the channel, and the
CNF commands, which are disabled in the code; in the lemma server pulls of 0 clauses, and one text
that is stored at two places of the tree, which for `OncePerClient` would be two clauses;
parser errors of a client; partitioning while a second instance waits (`Lifecycle` has the
queue without partitioning, `Scheduler` partitioning with one instance: `entrust` works
on `current` only, and reads the queue only when it has none).  The Z3 and SALLY clients
are described as unsupported and not built.  The GUI and the scripts read the results
and change nothing.

## 12. Plan

1. Done: `Scheduler`, `Client`, `SolverClient`, `LemmaServer`, `Lifecycle`, `Wire`, `Text`,
   `Script`, `Fixedpoint`, `Moves`, `Display`; proofs of the safety properties of `Scheduler`,
   `SolverClient`, `LemmaServer`, `Lifecycle`, `Moves` and `Display`.
2. `Wire` with torn frames: what the server may take for a message after one.
3. `Lifecycle` and `Scheduler` composed: a second instance that starts while processes
   still hold commands of the first one's partitioning.
