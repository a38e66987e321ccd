---------------------------- MODULE LemmaServer ----------------------------
(***************************************************************************)
(* The lemma server (lemma_server/LemmaServer.cpp) and the push and pull   *)
(* workers of the solver processes connected to it, on one instance.       *)
(*                                                                         *)
(* The main thread reads the sockets and queues one task per message; the  *)
(* worker thread runs the tasks in order on a tree of lemmas, and writes   *)
(* the answers.  The two share the sockets without a lock: a task refers   *)
(* to the socket it came from, and the main thread deletes the socket when *)
(* the solver leaves.                                                      *)
(*                                                                         *)
(* AND nodes are numbered as in Scheduler.  There is one clause per node,  *)
(* named after the lowest node it needs: it holds there and below, and its *)
(* level is the depth of that node.  A text that the code stores at two    *)
(* places of the tree, which it may send twice, is two clauses here.       *)
(* Operators named Mut_... are faulty variants of the definition after     *)
(* them, used to test properties.                                          *)
(***************************************************************************)
EXTENDS Integers, Sequences, FiniteSets

CONSTANTS
  Client,        \* the solver processes
  None,          \* no node, no client
  K,             \* parts per partition
  MaxNode,       \* bound: the highest node
  Amount,        \* config.lemma_amount
  CutSize,       \* cut_size of garbageCollect
  SendAgain,     \* option -a: send lemmas again to solvers
  MaxPosts       \* bound: pushes and pulls in all

ASSUME LemmaAssumption ==
  /\ {K, Amount, CutSize} \subseteq Nat \ {0}
  /\ {MaxNode, MaxPosts} \subseteq Nat
  /\ SendAgain \in BOOLEAN
  /\ None \notin 0..MaxNode /\ None \notin Client
  /\ IsFiniteSet(Client)

Node == 0..MaxNode
Root == 0
Clause == Node

\* The nodes from the root to a node, and those a clause may come from.
Branch[n \in Node] == IF n = Root THEN <<Root>> ELSE Append(Branch[(n - 1) \div K], n)
OnBranch(n) == {Branch[n][i] : i \in 1..Len(Branch[n])}
Level(c) == Len(Branch[c]) - 1

\* node_path: of the path of a node the server keeps every second number, the
\* index of the part in its OR node.  Slot is node_path[level].
Mut_Slot(n, level) == [i \in 1..(IF level = 0 THEN 0 ELSE level - 1) |-> (Branch[n][i + 1] - 1) % K]
Slot(n, level) == [i \in 1..level |-> (Branch[n][i + 1] - 1) % K]
NodePath(n) == {Slot(n, i) : i \in 0..Level(n)}

Place == UNION {NodePath(n) : n \in Node}
Lemma == Place \X Clause     \* where it is stored, and its clause
Task == [op : {"push"}, client : Client, node : Node, clauses : SUBSET Clause]
          \cup [op : {"pull"}, client : Client, node : Node]

VARIABLES
  \* the solver processes
  pulling,       \* the node each waits for clauses for; holds lemma_mutex
  own,           \* ghost: the clauses it pushed
  got,           \* ghost: the clauses it was given
  posts,         \* pushes and pulls so far
  \* their connections
  conn,          \* "away", "up", "gone" once the solver left, "closed"
  link,          \* messages to the lemma server
  answers,       \* its answers
  \* the lemma server
  up,            \* it runs
  tasks,         \* queue of the thread pool
  heir,          \* the client whose socket took the memory of a deleted one
  store,         \* lemmas: the clauses stored at each place
  seen,          \* solvers: the lemmas looked up for each client
  known,         \* and those it is recorded to have
  size,          \* lemmasSize
  collected      \* ghost: records were erased

clientVars == <<pulling, own, got, posts>>
treeVars == <<store, seen, known, size, collected>>
vars == <<clientVars, conn, link, answers, up, tasks, heir, treeVars>>

Init ==
  /\ pulling = [c \in Client |-> None]
  /\ own = [c \in Client |-> {}] /\ got = [c \in Client |-> {}]
  /\ posts = 0
  /\ conn = [c \in Client |-> "away"]
  /\ link = [c \in Client |-> <<>>] /\ answers = [c \in Client |-> <<>>]
  /\ up = TRUE /\ tasks = <<>> /\ heir = [c \in Client |-> None]
  /\ store = [p \in Place |-> {}]
  /\ seen = [c \in Client |-> {}] /\ known = [c \in Client |-> {}]
  /\ size = 0 /\ collected = FALSE

-----------------------------------------------------------------------------
(* The workers of a solver process.  lemma_mutex is held for a whole pull. *)

Connected(c) == up /\ conn[c] = "up" /\ pulling[c] = None
Post(c, m) ==
  /\ posts < MaxPosts /\ posts' = posts + 1
  /\ link' = [link EXCEPT ![c] = Append(@, m)]

\* lemma_push: clauses learned on a branch, which may have been left since.
Push(c, n) ==
  /\ Connected(c)
  /\ \E learned \in (SUBSET OnBranch(n)) \ {{}} :
       /\ Post(c, [op |-> "push", client |-> c, node |-> n, clauses |-> learned])
       /\ own' = [own EXCEPT ![c] = @ \cup learned]
  /\ UNCHANGED <<pulling, got, conn, answers, up, tasks, heir, treeVars>>

\* lemma_pull: the request is written, then the answer is waited for.
Pull(c, n) ==
  /\ Connected(c)
  /\ pulling' = [pulling EXCEPT ![c] = n]
  /\ Post(c, [op |-> "pull", client |-> c, node |-> n])
  /\ UNCHANGED <<own, got, conn, answers, up, tasks, heir, treeVars>>

\* The first answer on the socket is taken for the answer to this pull.
Pulled(c) ==
  /\ pulling[c] # None /\ answers[c] # <<>>
  /\ pulling' = [pulling EXCEPT ![c] = None]
  /\ got' = [got EXCEPT ![c] = @ \cup Head(answers[c])]
  /\ answers' = [answers EXCEPT ![c] = Tail(@)]
  /\ UNCHANGED <<own, posts, conn, link, up, tasks, heir, treeVars>>

\* A pull fails when the lemma server is gone.
PullFails(c) ==
  /\ pulling[c] # None /\ answers[c] = <<>> /\ ~up
  /\ pulling' = [pulling EXCEPT ![c] = None]
  /\ UNCHANGED <<own, got, posts, conn, link, answers, up, tasks, heir, treeVars>>

\* The process exits; what it wrote still arrives.  (Once the lemma server ended
\* nothing depends on it any more.)
Leave(c) ==
  /\ up /\ conn[c] = "up"
  /\ conn' = [conn EXCEPT ![c] = "gone"]
  /\ pulling' = [pulling EXCEPT ![c] = None]
  /\ answers' = [answers EXCEPT ![c] = <<>>]
  /\ UNCHANGED <<own, got, posts, link, up, tasks, heir, treeVars>>

-----------------------------------------------------------------------------
(* The main thread: Server::run_forever.                                   *)

\* The main thread changes idToSocket and solvers, and the worker may be using
\* them: the process may end.
Races == up' \in IF tasks = <<>> THEN {TRUE} ELSE BOOLEAN

\* The socket of a new client may be allocated where a deleted one was.
Accept(c) ==
  /\ up /\ conn[c] = "away"
  /\ conn' = [conn EXCEPT ![c] = "up"]
  /\ \/ UNCHANGED heir
     \/ \E d \in Client : /\ conn[d] = "closed" /\ heir[d] = None
                          /\ heir' = [heir EXCEPT ![d] = c]
  /\ Races
  /\ UNCHANGED <<clientVars, link, answers, tasks, treeVars>>

\* handle_event: the task holds a reference to the socket.
Read(c) ==
  /\ up /\ link[c] # <<>>
  /\ tasks' = Append(tasks, Head(link[c]))
  /\ link' = [link EXCEPT ![c] = Tail(@)]
  /\ UNCHANGED <<clientVars, conn, answers, up, heir, treeVars>>

\* handle_close: the records of the client are erased and its socket deleted;
\* idToSocket keeps the pointer.
Close(c) ==
  /\ up /\ conn[c] = "gone" /\ link[c] = <<>>
  /\ conn' = [conn EXCEPT ![c] = "closed"]
  /\ seen' = [seen EXCEPT ![c] = {}] /\ known' = [known EXCEPT ![c] = {}]
  /\ Races
  /\ UNCHANGED <<clientVars, link, answers, tasks, heir, store, size, collected>>

\* The server of the solvers closes the connection, or its reset of the
\* instance arrives: LEMMAS = "0" ends the process.
Quit ==
  /\ up /\ up' = FALSE
  /\ UNCHANGED <<clientVars, conn, link, answers, tasks, heir, treeVars>>

-----------------------------------------------------------------------------
(* The worker thread: lemma_worker.                                        *)

Job == Head(tasks)
Works(op) == up /\ tasks # <<>> /\ Job.op = op /\ tasks' = Tail(tasks)

\* The id of the client is read from the socket when the task runs.  From the
\* memory of a deleted socket it is still the old id, or that of the heir.
Sender == IF heir[Job.client] = None THEN Job.client ELSE heir[Job.client]
\* Using a deleted socket, or writing to a client that left, may end the process.
Survives(bad) == up' \in IF conn[Job.client] \in bad THEN BOOLEAN ELSE {TRUE}

\* garbageCollect erases records, not lemmas: from more than 2 * CutSize pushed
\* lemmas on, until CutSize remain or no record is left.  Which ones is the
\* order of a hash map.
Records == {r \in Client \X Lemma : r[2] \in seen[r[1]]}
Mut_Erased(n) == Cardinality(Records)
Erased(n) == IF n - CutSize < Cardinality(Records) THEN n - CutSize ELSE Cardinality(Records)
Garbage(n) == IF n > 2 * CutSize
              THEN {R \in SUBSET Records : Cardinality(R) = Erased(n)} ELSE {{}}
Keep(f, R) == [c \in Client |-> {l \in f[c] : <<c, l>> \notin R}]

\* The lemmas of a push that are recorded for the client: the fresh ones and
\* the present ones.
Mut_Recorded(S) == {l \in S : l[2] \notin store[l[1]]}
Recorded(S) == S

Add(S) == [p \in Place |-> store[p] \cup {c \in Clause : <<p, c>> \in S}]

\* Records are collected first, then the lemmas are added.
RunPush ==
  /\ Works("push")
  /\ LET new == {<<Slot(Job.node, Level(c)), c>> : c \in Job.clauses}
         n == size + Cardinality(Job.clauses) IN
     /\ store' = Add(new)
     /\ \E R \in Garbage(n) :
          /\ seen' = [Keep(seen, R) EXCEPT ![Sender] = @ \cup Recorded(new)]
          /\ known' = [Keep(known, R) EXCEPT ![Sender] = @ \cup Recorded(new)]
          /\ size' = n - Cardinality(R)
          /\ collected' = (collected \/ R # {})
  /\ Survives({"closed"})
  /\ UNCHANGED <<clientVars, conn, link, answers, heir>>

\* Written to the client even if no lemma was found.
Mut_Reply(c, S) == IF conn[c] = "up" /\ S # {} THEN [answers EXCEPT ![c] = Append(@, S)] ELSE answers
Reply(c, S) == IF conn[c] = "up" THEN [answers EXCEPT ![c] = Append(@, S)] ELSE answers

Stored(n) == {l \in NodePath(n) \X Clause : l[2] \in store[l[1]]}
\* Amount of the lemmas, or all of them: those the two sorts put first.
Selections(S) ==
  IF Cardinality(S) <= Amount THEN {S} ELSE {R \in SUBSET S : Cardinality(R) = Amount}

\* Lemmas stored along the path and not recorded for the client are sent.  The
\* lookup in filter leaves a record of every one of them.
RunPull ==
  /\ Works("pull")
  /\ seen' = [seen EXCEPT ![Sender] = @ \cup Stored(Job.node)]
  /\ \E sent \in Selections(Stored(Job.node) \ known[Sender]) :
       /\ known' = IF SendAgain THEN known ELSE [known EXCEPT ![Sender] = @ \cup sent]
       /\ answers' = Reply(Sender, {l[2] : l \in sent})
  /\ Survives({"gone", "closed"})
  /\ UNCHANGED <<clientVars, conn, link, heir, store, size, collected>>

-----------------------------------------------------------------------------
Next ==
  \/ \E c \in Client :
       \/ \E n \in Node : Push(c, n) \/ Pull(c, n)
       \/ Pulled(c) \/ PullFails(c) \/ Leave(c)
       \/ Accept(c) \/ Read(c) \/ Close(c)
  \/ Quit \/ RunPush \/ RunPull

\* The threads of the lemma server and the pull worker that waits for it go on;
\* nothing has to push, to pull, to come or to leave.
Fairness ==
  /\ \A c \in Client : WF_vars(Read(c)) /\ WF_vars(Pulled(c)) /\ WF_vars(PullFails(c))
  /\ WF_vars(RunPush) /\ WF_vars(RunPull)

Spec == Init /\ [][Next]_vars
FairSpec == Spec /\ Fairness

-----------------------------------------------------------------------------
(* Properties.                                                             *)

\* The state is well typed; lemmasSize, which is unsigned, never wraps in
\* garbageCollect, and the lemmas recorded for a client are among those stored
\* and looked up for it.
TypeOK ==
  /\ pulling \in [Client -> Node \cup {None}]
  /\ own \in [Client -> SUBSET Clause] /\ got \in [Client -> SUBSET Clause]
  /\ posts \in 0..MaxPosts
  /\ conn \in [Client -> {"away", "up", "gone", "closed"}]
  /\ link \in [Client -> Seq(Task)] /\ answers \in [Client -> Seq(SUBSET Clause)]
  /\ up \in BOOLEAN
  /\ tasks \in Seq(Task)
  /\ heir \in [Client -> Client \cup {None}]
  /\ store \in [Place -> SUBSET Clause]
  /\ seen \in [Client -> SUBSET Lemma] /\ known \in [Client -> SUBSET Lemma]
  /\ \A c \in Client : known[c] \subseteq seen[c] /\ \A l \in seen[c] : l[2] \in store[l[1]]
  /\ size \in Nat /\ collected \in BOOLEAN

\* No socket took the memory of a deleted one, to which tasks may still refer.
Distinct == \A c \in Client : heir[c] = None

\* A solver that waits for clauses for a node is only ever given clauses that
\* hold at that node, wherever they were learned, and whatever the solver and
\* the others were working on (handle_event, lemma_worker, lemma_pull).
SharedOnPath ==
  \A c \in Client : pulling[c] # None /\ answers[c] # <<>> =>
     Head(answers[c]) \subseteq OnBranch(pulling[c])

\* The same while every socket that a task refers to is the one it came from.
SharedIfDistinct == Distinct => SharedOnPath

\* Without the option to send again, a solver is sent neither a clause it
\* pushed nor one it was sent, as long as no record was erased (lemma_worker).
\* A clause is one lemma of one node: a text that is stored at two places of
\* the tree counts as two.
OncePerClient ==
  ~SendAgain /\ Distinct /\ ~collected =>
    \A c \in Client : answers[c] # <<>> => Head(answers[c]) \cap (own[c] \cup got[c]) = {}

\* A pull holds lemma_mutex, which every push waits for: it always ends, with
\* an answer or because the connection is lost.
PullsEnd == \A c \in Client : pulling[c] # None ~> pulling[c] = None
=============================================================================
