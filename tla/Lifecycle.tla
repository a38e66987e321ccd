----------------------------- MODULE Lifecycle -----------------------------
(***************************************************************************)
(* The life of the server: the event loop (server/net.py), the registration *)
(* of solvers and of the lemma server, the queue of instances and idle_quit *)
(* (server/schedular.py), with the programs started by server/smts.py and  *)
(* the clients of server/client.py at the other ends.                      *)
(*                                                                         *)
(* The server runs without -p: partition_timeout is None (smts.py:53), so  *)
(* entrust ends at line 499; the search inside one instance is Scheduler.  *)
(* A handler is a chain of steps, from pc "loop" back to it; an exception  *)
(* abandons it.  Peers move only in "loop": a handler reads nothing that    *)
(* they change, and a write to a process that died may be accepted or      *)
(* raise.  The sockets that one select returns are served one by one in any *)
(* order, so a round of several is as good as several rounds of one.       *)
(*                                                                         *)
(* Operators named Mut_... are faulty variants of the definition after     *)
(* them, used to test properties.                                          *)
(***************************************************************************)
EXTENDS Integers, Sequences, FiniteSets

CONSTANTS
  Client,      \* client.py, or the thread of smts.py that sends the files
  Process,     \* solver processes
  LemmaProc,   \* lemma servers
  None,
  Scenes,      \* which peers come, what the clients send (file names, "eval", "terminate"),
               \* and config.enableLog
  OpenSMT,     \* the processes that are solver_opensmt; the others are dummy_solver.py
  IdleQuit,    \* config.idle_quit
  Mortal       \* the peers that may die

Peer == Client \cup Process \cup LemmaProc

ASSUME LifecycleAssumption ==
  /\ None \notin Peer /\ Mortal \subseteq Process \cup LemmaProc
  /\ Client \cap Process = {} /\ (Client \cup Process) \cap LemmaProc = {}
  /\ OpenSMT \subseteq Process /\ IdleQuit \in BOOLEAN
  /\ Cardinality(LemmaProc) <= 2      \* bound: one lemma server replaces another
  /\ Scenes \subseteq [come : SUBSET Peer, says : [Client -> Seq(STRING)], log : BOOLEAN]

\* An instance is the submission of a file; its key in trees is the base name.
Name(i) == i[3]
Sent == UNION {{<<c, k, s.says[c][k]>> : k \in 1..Len(s.says[c])} : c \in Client, s \in Scenes}
Instance == {i \in Sent : Name(i) \notin {"eval", "terminate"}}
Unique(i) == \A j \in Instance : Name(j) = Name(i) => j = i
ASSUME NoneAssumption == None \notin Instance

VARIABLES
  \* the peers
  peer,        \* "away", "up" from connect on, "gone"
  says, said,  \* what each client sends, and how many of its messages it sent
  enableLog,   \* config.enableLog
  search,      \* per process: the instance it works on
  linked,      \* processes that ever reached a lemma server
  out, in,     \* per peer: messages to the server, and from it
  \* the sockets of the server
  kind,        \* "new" in the backlog, then its class; "done" when not in _rlist
  broken,      \* sockets closed by the server and still in _rlist
  \* ParallelizationServer
  pc,          \* "loop"; "settle" and "next" in entrust; "left", "jammed" for good
  trees,       \* the instances in the order of the dictionary
  current,
  work,        \* per process: the instance of Solver.node
  begun, late, decided,  \* instances with a start time, past their timeout, solved
  \* ghosts
  told,        \* per process: the lemma server it was last told of
  announced,   \* how often each verdict was printed
  credit,      \* per instance: the one that the report deciding it was about
  raised       \* an exception abandoned a handler

scene == <<says, enableLog>>
peerVars == <<peer, scene, said, search, linked>>
sockVars == <<kind, broken>>
jobVars == <<trees, current, work, begun, late, decided>>
ghostVars == <<told, announced, credit>>
vars == <<peerVars, out, in, sockVars, pc, jobVars, ghostVars, raised>>

Sockets == {p \in Peer : kind[p] \in {"plain", "solver", "lemma"}}      \* _rlist
Solvers == {p \in Process : kind[p] = "solver"}                       \* solvers(False)
Idle == {p \in Solvers : work[p] = None}           \* newly_joint_solver, solvers(None)
LemmaServers == {l \in LemmaProc : kind[l] = "lemma"}

Init ==
  /\ \E s \in Scenes :
       /\ says = s.says /\ enableLog = s.log
       /\ peer = [p \in Peer |-> IF p \in s.come THEN "away" ELSE "gone"]
       /\ kind = [p \in Peer |-> IF p \in s.come THEN "new" ELSE "done"]
  /\ said = [c \in Client |-> 0]
  /\ search = [p \in Process |-> None] /\ linked = {}
  /\ out = [p \in Peer |-> <<>>] /\ in = [p \in Peer |-> <<>>]
  /\ broken = {}
  /\ pc = "loop" /\ trees = <<>> /\ current = None
  /\ work = [p \in Process |-> None]
  /\ begun = {} /\ late = {} /\ decided = {}
  /\ told = [p \in Process |-> None] /\ announced = [i \in Instance |-> 0]
  /\ credit = [i \in Instance |-> None] /\ raised = FALSE

-----------------------------------------------------------------------------
(* The peers. *)

serverVars == <<sockVars, pc, jobVars, ghostVars, raised>>
Moves(p) == pc = "loop" /\ peer[p] = "up" /\ UNCHANGED <<scene, serverVars>>

\* A solver process and a lemma server announce themselves, with the first message.
Connect(p) ==
  /\ pc = "loop" /\ peer[p] = "away"
  /\ peer' = [peer EXCEPT ![p] = "up"]
  /\ out' = [out EXCEPT ![p] = IF p \in Process THEN <<[op |-> "solver"]>>
                               ELSE IF p \in LemmaProc THEN <<[op |-> "lemmas"]>> ELSE <<>>]
  /\ UNCHANGED <<scene, said, search, linked, in, serverVars>>

\* A client sends its files one after the other; after eval it waits for the value.
Message(i) == CASE Name(i) = "eval" -> [op |-> "eval"]
                [] Name(i) = "terminate" -> [op |-> "terminate"]
                [] OTHER -> [op |-> "solve", of |-> i]
Waiting(c) == said[c] > 0 /\ says[c][said[c]] = "eval" /\ in[c] = <<>>
Say(c) ==
  /\ Moves(c) /\ said[c] < Len(says[c]) /\ ~Waiting(c)
  /\ said' = [said EXCEPT ![c] = @ + 1] /\ in' = [in EXCEPT ![c] = <<>>]
  /\ out' = [out EXCEPT ![c] = Append(@, Message(<<c, said'[c], says[c][said'[c]]>>))]
  /\ UNCHANGED <<peer, search, linked>>
Leave(c) ==
  /\ Moves(c) /\ said[c] = Len(says[c]) /\ ~Waiting(c)
  /\ peer' = [peer EXCEPT ![c] = "gone"] /\ in' = [in EXCEPT ![c] = <<>>]
  /\ UNCHANGED <<said, search, linked, out>>

\* A process reads a command.  solver_opensmt exits on STOP, and the first time it
\* is told of a lemma server it connects there; dummy_solver.py raises on a message
\* without a command; the lemma server exits on its reset.
Obey(p) ==
  /\ Moves(p) /\ in[p] # <<>> /\ in' = [in EXCEPT ![p] = Tail(@)] /\ UNCHANGED said
  /\ LET m == Head(in[p]) IN
       \/ /\ m.op = "solve" /\ search' = [search EXCEPT ![p] = m.of]
          /\ UNCHANGED <<peer, linked, out>>
       \/ /\ m.op = "stop" /\ search' = [search EXCEPT ![p] = None]
          /\ peer' = [peer EXCEPT ![p] = IF p \in OpenSMT THEN "gone" ELSE @]
          /\ UNCHANGED <<linked, out>>
       \/ /\ m.op = "lemmas" /\ UNCHANGED <<peer, search>>
          /\ IF p \notin OpenSMT \/ m.at = None \/ p \in linked THEN UNCHANGED <<linked, out>>
             ELSE IF peer[m.at] = "up" THEN linked' = linked \cup {p} /\ UNCHANGED out
             ELSE out' = [out EXCEPT ![p] = Append(@, [op |-> "error"])] /\ UNCHANGED linked
       \/ /\ m.op \in {"init", "log"} /\ UNCHANGED <<search, linked, out>>
          /\ peer' = [peer EXCEPT ![p] = IF p \in Process \ OpenSMT THEN "gone" ELSE @]
       \/ m.op = "reset" /\ peer' = [peer EXCEPT ![p] = "gone"] /\ UNCHANGED <<search, linked, out>>

\* A search ends with an answer.
Answer(p) ==
  /\ Moves(p) /\ search[p] # None /\ search' = [search EXCEPT ![p] = None]
  /\ out' = [out EXCEPT ![p] = Append(@, [op |-> "report", of |-> search[p]])]
  /\ UNCHANGED <<peer, said, linked, in>>

\* A lemma server exceeds its memory.
Complain(l) ==
  /\ Moves(l) /\ l \in Mortal /\ out[l] = <<>>
  /\ out' = [out EXCEPT ![l] = <<[op |-> "error"]>>]
  /\ UNCHANGED <<peer, said, search, linked, in>>

Die(p) ==
  /\ Moves(p) /\ p \in Mortal /\ peer' = [peer EXCEPT ![p] = "gone"]
  /\ UNCHANGED <<said, search, linked, out, in>>

\* solving_timeout passes.
Overdue ==
  /\ pc = "loop" /\ current \in begun \ late /\ late' = late \cup {current}
  /\ UNCHANGED <<peerVars, out, in, sockVars, pc, trees, current, work, begun, decided,
                 ghostVars, raised>>

-----------------------------------------------------------------------------
(* net.Server.run_until_timeout. *)

Readable == {p \in Sockets : out[p] # <<>> \/ peer[p] = "gone"}
Backlog == {p \in Peer : peer[p] # "away" /\ kind[p] = "new"}

\* With nothing to read select times out; a closed socket in _rlist makes it raise,
\* now and ever after.
Select ==
  /\ pc = "loop"
  /\ \/ broken # {} /\ pc' = "jammed" /\ raised' = TRUE
     \/ broken = {} /\ Readable \cup Backlog = {} /\ pc' = "settle" /\ UNCHANGED raised
  /\ UNCHANGED <<peerVars, out, in, sockVars, jobVars, ghostVars>>

Served(p) == pc = "loop" /\ p \in Sockets \ broken
Done == UNCHANGED <<pc, raised>>                   \* the handler returns
Raise == pc' = "loop" /\ raised' = TRUE            \* except Exception
CloseAll == pc' = "left"                           \* no socket is left: run_forever returns

\* A write.  The same command goes to several processes one after the other, so
\* a write that raises leaves out the process that died and any of the others.
\* Bounds: of what a dead process has not read one message is kept, and a command
\* written again before it was read is kept once.
Put(p, m) ==
  IF in[p] # <<>> /\ (peer[p] = "gone" \/ in[p][Len(in[p])] = m) THEN in[p] ELSE Append(in[p], m)
Send(S, m) == in' = [p \in Peer |-> IF p \in S THEN Put(p, m) ELSE in[p]]
Cut(S) == {A \in SUBSET S : \E d \in S \ A : peer[d] = "gone"}
Hears(S, l) == told' = [p \in Process |-> IF p \in S THEN l ELSE told[p]]
Tell(S, l) == Send(S, [op |-> "lemmas", at |-> l]) /\ Hears(S, l)

Accept(p) ==
  /\ pc = "loop" /\ p \in Backlog /\ kind' = [kind EXCEPT ![p] = "plain"] /\ Done
  /\ UNCHANGED <<peerVars, out, in, broken, jobVars, ghostVars>>

\* A socket whose peer left data unread raises before it reports the end.
Over(p) == Served(p) /\ peer[p] = "gone" /\ out[p] = <<>>
ReadRaises(p) ==
  /\ Over(p) /\ in[p] # <<>> /\ in' = [in EXCEPT ![p] = <<>>] /\ Raise
  /\ UNCHANGED <<peerVars, out, sockVars, jobVars, ghostVars>>

\* handle_close of a client, and of a solver: its stop() cannot fail.
Forget(S) == work' = [p \in Process |-> IF p \in S THEN None ELSE work[p]]
Close(p) ==
  /\ Over(p) /\ in[p] = <<>> /\ p \notin LemmaServers
  /\ Forget({p}) /\ kind' = [kind EXCEPT ![p] = "done"] /\ Done
  /\ UNCHANGED <<peerVars, out, in, broken, trees, current, begun, late, decided, ghostVars>>

\* handle_close of the lemma server tells every solver.
CloseLemmaServer(l) ==
  /\ Over(l) /\ in[l] = <<>> /\ l \in LemmaServers
  /\ \/ Tell(Solvers, None) /\ kind' = [kind EXCEPT ![l] = "done"] /\ Done
     \/ \E A \in Cut(Solvers) : Tell(A, None) /\ Raise /\ UNCHANGED kind
  /\ UNCHANGED <<peerVars, out, broken, jobVars, announced, credit>>

-----------------------------------------------------------------------------
(* ParallelizationServer.handle_message. *)

Gets(p, op) ==
  /\ Served(p) /\ out[p] # <<>> /\ Head(out[p]).op = op
  /\ out' = [out EXCEPT ![p] = Tail(@)] /\ UNCHANGED peerVars
Entrust == pc' = "settle" /\ UNCHANGED raised

\* A dictionary keeps the place of a key that is assigned again.
Queue(i) ==
  IF \E k \in 1..Len(trees) : Name(trees[k]) = Name(i)
  THEN [k \in 1..Len(trees) |-> IF Name(trees[k]) = Name(i) THEN i ELSE trees[k]]
  ELSE Append(trees, i)

HandleSolve(p) ==
  /\ Gets(p, "solve") /\ trees' = Queue(Head(out[p]).of) /\ Entrust
  /\ UNCHANGED <<in, sockVars, current, work, begun, late, decided, ghostVars>>

HandleEval(p) ==
  /\ Gets(p, "eval") /\ Send({p}, [op |-> "value"]) /\ Done
  /\ UNCHANGED <<sockVars, jobVars, ghostVars>>

HandleTerminate(p) ==
  /\ Gets(p, "terminate") /\ CloseAll
  /\ UNCHANGED <<in, sockVars, jobVars, ghostVars, raised>>

\* A solver registers: the constructor may write, and it is told of the lemma server if
\* there is one.  A write that raises leaves out the rest.
Greeting == IF enableLog THEN <<[op |-> "log"]>> ELSE <<>>
HandleSolver(p) ==
  /\ Gets(p, "solver")
  /\ \/ /\ kind' = [kind EXCEPT ![p] = "solver"]
        /\ \/ /\ LemmaServers = {} /\ in' = [in EXCEPT ![p] = Greeting]
              /\ Entrust /\ UNCHANGED told
           \/ \E l \in LemmaServers :
                /\ in' = [in EXCEPT ![p] = Append(Greeting, [op |-> "lemmas", at |-> l])]
                /\ Hears({p}, l) /\ Entrust
           \/ /\ LemmaServers # {} /\ peer[p] = "gone" /\ in' = [in EXCEPT ![p] = Greeting]
              /\ Raise /\ UNCHANGED told
     \/ enableLog /\ peer[p] = "gone" /\ Raise /\ UNCHANGED <<kind, in, told>>
  /\ UNCHANGED <<broken, jobVars, announced, credit>>

\* A lemma server registers and the solvers are told; the one before is closed and
\* stays in _rlist.  The first write is of the constructor.
InitMessage == [op |-> "init"]
Mut_Audience == Idle
Audience == Solvers
HandleLemmas(p) ==
  /\ Gets(p, "lemmas") /\ broken' = broken \cup LemmaServers
  /\ \/ /\ kind' = [kind EXCEPT ![p] = "lemma"]
        /\ \E A \in {Audience} \cup Cut(Audience) :
             /\ in' = [q \in Peer |-> IF q \in A THEN Put(q, [op |-> "lemmas", at |-> p])
                                     ELSE IF q = p THEN Put(q, InitMessage) ELSE in[q]]
             /\ Hears(A, p) /\ IF A = Audience THEN Done ELSE Raise
     \/ /\ peer[p] = "gone" /\ kind' = [kind EXCEPT ![p] = "done"] /\ Raise
        /\ UNCHANGED <<in, told>>
  /\ UNCHANGED <<jobVars, announced, credit>>

\* Solver.read passes on a report that names the instance of the solver's node, and
\* any report of a solver without one; the others end here.
Mut_Matches(p, i) == TRUE
Matches(p, i) == Name(i) = Name(work[p])
HandleReport(p) ==
  /\ Gets(p, "report")
  /\ LET about == Head(out[p]).of IN
     \/ work[p] = None /\ Entrust /\ UNCHANGED <<decided, credit>>
     \/ /\ work[p] # None /\ Matches(p, about) /\ Entrust
        /\ decided' = decided \cup {work[p]} /\ credit' = [credit EXCEPT ![work[p]] = about]
     \/ work[p] # None /\ ~Matches(p, about) /\ Done /\ UNCHANGED <<decided, credit>>
  /\ UNCHANGED <<in, sockVars, trees, current, work, begun, late, told, announced>>

\* An error report ends the current instance, if there is one: its timeout becomes 0.
Mut_Shortened == late \cup {current}
Shortened == IF current = None THEN late ELSE late \cup {current}
HandleError(p) ==
  /\ Gets(p, "error") /\ kind[p] = "solver" /\ Entrust /\ late' = Shortened
  /\ UNCHANGED <<in, sockVars, trees, current, work, begun, decided, ghostVars>>

\* One of the lemma server ends the server: nothing catches its exit(1).
HandleFatal(l) ==
  /\ Gets(l, "error") /\ kind[l] = "lemma" /\ pc' = "left"
  /\ UNCHANGED <<in, sockVars, jobVars, ghostVars, raised>>

-----------------------------------------------------------------------------
(* entrust, without partitioning. *)

Expired(i) == i \in begun \cap late                \* when_timeout < 0
Mut_Ended == current # None /\ current \in decided
Ended == current # None /\ (current \in decided \/ Expired(current))
Waits(i) == i \notin decided /\ ~Expired(i)
Schedulables == {k \in 1..Len(trees) : Waits(trees[k])}

\* Lines 440-459.  The verdict is printed before anything can fail: the key is gone
\* after an earlier attempt, a solver has no node, or a write raises.
\* Bound: what is printed again is counted up to 2.
Verdict == pc = "settle" /\ Ended
  /\ announced' = [announced EXCEPT ![current] = @ + (IF @ < 2 THEN 1 ELSE 0)]
Entries == {k \in 1..Len(trees) : Name(trees[k]) = Name(current)}
Listed == enableLog \/ Entries # {}
Mut_Delete == trees' = <<>>
Delete == IF enableLog THEN UNCHANGED trees
          ELSE \E k \in Entries : trees' = SubSeq(trees, 1, k - 1) \o SubSeq(trees, k + 1, Len(trees))

EndFails ==
  /\ Verdict /\ Raise
  /\ \/ ~Listed /\ UNCHANGED <<trees, work, in>>
     \/ Listed /\ Delete /\ Idle # {} /\ UNCHANGED <<work, in>>
     \/ /\ Listed /\ Delete /\ Idle = {}
        /\ \E d \in Solvers : \E A \in SUBSET (Solvers \ {d}) :
             peer[d] = "gone" /\ Forget(A \cup {d}) /\ Send(A, [op |-> "stop"])
     \/ /\ Listed /\ Delete /\ Idle = {} /\ Forget(Solvers) /\ Send(Solvers, [op |-> "stop"])
        /\ \E l \in LemmaServers : l \in broken \/ peer[l] = "gone"
  /\ UNCHANGED <<peerVars, out, sockVars, current, begun, late, decided, told, credit>>

ResetMessage == [op |-> "reset"]
Mut_Freed == OpenSMT
Freed == Solvers
Ends ==
  /\ Verdict /\ Listed /\ Delete /\ Idle = {} /\ Forget(Freed)
  /\ \E L \in SUBSET (LemmaServers \ broken) :
       /\ Cardinality(L) = IF LemmaServers = {} THEN 0 ELSE 1
       /\ in' = [p \in Peer |-> CASE p \in Freed -> Put(p, [op |-> "stop"])
                              [] p \in L -> Put(p, ResetMessage)
                              [] OTHER -> in[p]]
  /\ current' = None /\ pc' = "next"
  /\ UNCHANGED <<peerVars, out, sockVars, begun, late, decided, told, credit, raised>>

\* Idle solvers get the instance; the first of them starts its clock.
Gives(i, A) ==
  /\ Send(A, [op |-> "solve", of |-> i])
  /\ begun' = begun \cup (IF A = {} THEN {} ELSE {i})
Works(i, S) == work' = [p \in Process |-> IF p \in S THEN i ELSE work[p]]
Distribute(i) ==
  \/ Gives(i, Idle) /\ Works(i, Idle) /\ pc' = "loop" /\ UNCHANGED raised
  \/ \E d \in Idle : \E A \in SUBSET (Idle \ {d}) :
       peer[d] = "gone" /\ Gives(i, A) /\ Works(i, A \cup {d}) /\ Raise

\* Lines 462-499: the next instance, or the newcomers of this one.
Starts ==
  /\ pc = "next" \/ (pc = "settle" /\ ~Ended)
  /\ \/ current = None
        /\ \E k \in Schedulables : (\A j \in Schedulables : k <= j) /\ current' = trees[k]
     \/ current # None /\ UNCHANGED current
  /\ Distribute(current')
  /\ UNCHANGED <<peerVars, out, sockVars, trees, late, decided, ghostVars>>

\* Lines 503-511: idle_quit is looked at by the handler that ended the last instance.
Clients == {p \in Peer : kind[p] = "plain"}
Rests ==
  /\ pc \in {"next", "settle"} /\ current = None /\ Schedulables = {}
  /\ IF pc = "next" /\ IdleQuit /\ Clients = {} THEN CloseAll ELSE pc' = "loop"
  /\ UNCHANGED <<peerVars, out, in, sockVars, jobVars, ghostVars, raised>>

-----------------------------------------------------------------------------
Peers ==
  \/ \E p \in Peer : Connect(p)
  \/ \E c \in Client : Say(c) \/ Leave(c)
  \/ \E p \in Process \cup LemmaProc : Obey(p) \/ Die(p)
  \/ \E p \in Process : Answer(p)
  \/ \E l \in LemmaProc : Complain(l)
Serve(p) ==
  \/ Accept(p) \/ ReadRaises(p) \/ Close(p) \/ CloseLemmaServer(p)
  \/ HandleSolve(p) \/ HandleEval(p) \/ HandleTerminate(p) \/ HandleSolver(p)
  \/ HandleLemmas(p) \/ HandleReport(p) \/ HandleError(p) \/ HandleFatal(p)
Settle == Select \/ EndFails \/ Ends \/ Starts \/ Rests
Server == Settle \/ \E p \in Peer : Serve(p)
Next == Peers \/ Overdue \/ Server
Spec == Init /\ [][Next]_vars

\* The loop goes on, and time passes; Overdue is disabled during handlers, hence SF.
\* Nothing is assumed of the peers, nor of the order in which sockets are served.
FairSpec == Spec /\ WF_vars(Server) /\ SF_vars(Overdue)
-----------------------------------------------------------------------------
(* Properties. *)

\* What a peer may say to the server, and the server to it.
Report(p) ==
  CASE p \in Client -> [op : {"eval", "terminate"}] \cup [op : {"solve"}, of : Instance]
    [] p \in Process -> [op : {"solver", "error"}] \cup [op : {"report"}, of : Instance]
    [] OTHER -> [op : {"lemmas", "error"}]
Command == [op : {"value", "stop", "init", "log", "reset"}] \cup [op : {"solve"}, of : Instance]
             \cup [op : {"lemmas"}, at : LemmaProc \cup {None}]

\* Every variable has its type.  After a long series of handlers the books of the
\* server (schedular.py:247-250) still name instances, and only a lemma server
\* that was replaced is a closed socket in _rlist.
TypeOK ==
  /\ peer \in [Peer -> {"away", "up", "gone"}] /\ said \in [Client -> Nat]
  /\ search \in [Process -> Instance \cup {None}] /\ linked \subseteq Process
  /\ out \in [Peer -> Seq(UNION {Report(p) : p \in Peer})] /\ \A p \in Peer : out[p] \in Seq(Report(p))
  /\ in \in [Peer -> Seq(Command)]
  /\ kind \in [Peer -> {"new", "plain", "solver", "lemma", "done"}]
  /\ broken \subseteq LemmaServers
  /\ pc \in {"loop", "settle", "next", "left", "jammed"}
  /\ trees \in Seq(Instance) /\ current \in Instance \cup {None}
  /\ work \in [Process -> Instance \cup {None}] /\ begun \cup late \cup decided \subseteq Instance
  /\ told \in [Process -> LemmaProc \cup {None}] /\ announced \in [Instance -> 0..2]
  /\ credit \in [Instance -> Instance \cup {None}] /\ raised \in BOOLEAN

Between == pc = "loop" /\ ~raised /\ broken = {}

\* Between handlers every registered solver works on the current instance, whenever
\* it registered and whatever was queued meanwhile; without one no instance waits
\* and no solver has a node.  entrust places solvers in two places only, for a new
\* instance (line 473) and for newcomers (line 492).
Placed ==
  Between => /\ \A p \in Solvers : work[p] = current
             /\ current = None => Schedulables = {}

\* Between handlers every registered solver was last told of the lemma server that
\* is registered, whichever came first, left or was replaced (lines 342, 358, 384).
LemmaAnnounced ==
  Between => \A p \in Solvers : IF LemmaServers = {} THEN told[p] = None
                               ELSE told[p] \in LemmaServers

\* The verdict of an instance comes from a report about it, although a solver still
\* reports on the one before when it has the next (Solver.read, line 188); two files
\* of the same name are not told apart.
VerdictOwn == \A i \in decided : Unique(i) => credit[i] = i

\* An instance leaves the dictionary in two ways only: a file of the same name takes
\* its place (line 325), or an instance of its name is current and its verdict is
\* printed (line 447).  So a name used once leaves with its own verdict; of two files
\* of one name the first may leave unannounced, but never with that of another name.
Lists(i) == \E k \in 1..Len(trees) : trees[k] = i
KeptUntilAnnounced ==
  [][\A i \in Instance : Lists(i) /\ ~Lists(i)' =>
        \E j \in Instance : /\ Name(j) = Name(i)
                            /\ Lists(j)' \/ (j = current /\ announced'[j] > 0)]_vars

\* With solving_timeout every name in the dictionary gets a verdict, also when
\* solvers do not answer, as long as a solver is registered; unless a handler was
\* abandoned by an exception, or the server was told to leave.
EveryInstance ==
  \A name \in {Name(i) : i \in Instance} :
    LET ofName == {i \in Instance : Name(i) = name} IN
    (\E i \in ofName : Lists(i))
      ~> ((\E i \in ofName : announced[i] > 0) \/ raised \/ pc = "left" \/ Solvers = {})
=============================================================================
