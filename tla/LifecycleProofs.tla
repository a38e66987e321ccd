-------------------------- MODULE LifecycleProofs --------------------------
(***************************************************************************)
(* Proofs about Lifecycle.tla, for any number of clients, processes and    *)
(* files sent, any peers that die, and every configuration.                *)
(*                                                                         *)
(* IInv is inductive.  Its parts beyond the properties say what holds      *)
(* while a handler runs, and who may send what: a solver process and a     *)
(* lemma server register once, with the first message.  One lemma          *)
(* "...Step" per part shows that a step keeps it; the lemmas "...Moves"    *)
(* say which steps change a group of variables at all.                     *)
(***************************************************************************)
EXTENDS Lifecycle, TLAPS, SequenceTheorems

\* What the clients are going to send is part of the scene.
SaysSent ==
  /\ enableLog \in BOOLEAN /\ says \in [Client -> Seq(STRING)]
  /\ \A c \in Client : \A k \in 1..Len(says[c]) : <<c, k, says[c][k]>> \in Sent

\* A message that registers its sender comes first, and once.
Registers(p) == out[p][1].op \in {"solver", "lemmas"}
Registration ==
  \A p \in Peer :
    /\ peer[p] = "away" => kind[p] = "new"
    /\ kind[p] \in {"solver", "lemma", "done"} => out[p] = <<>> \/ ~Registers(p)
    /\ \A k \in 2..Len(out[p]) : out[p][k].op \notin {"solver", "lemmas"}

\* Only solver processes are registered as solvers, and only lemma servers as such.
RoleOfKind ==
  \A p \in Peer : (kind[p] = "solver" => p \in Process) /\ (kind[p] = "lemma" => p \in LemmaProc)

\* A process that did not register yet has no node and was told nothing.
Newcomers == \A p \in Process : kind[p] \in {"new", "plain"} => work[p] = None /\ told[p] = None

\* One lemma server at most is registered and not closed.
OneLemmaServer == \A l, m \in LemmaServers \ broken : l = m

\* LemmaAnnounced, inside handlers too.
LemmaTold ==
  ~raised /\ broken = {} =>
     \A p \in Solvers : IF LemmaServers = {} THEN told[p] = None ELSE told[p] \in LemmaServers

\* Placed, and what is left of it inside entrust: a solver without a node, or with the
\* current one.
SolversPlaced ==
  ~raised => /\ \A p \in Solvers : work[p] \in {None, current}
             /\ pc = "loop" => /\ \A p \in Solvers : work[p] = current
                               /\ current = None => Schedulables = {}

\* The inductive invariant.
IInv == /\ TypeOK /\ SaysSent /\ Registration /\ RoleOfKind /\ Newcomers /\ OneLemmaServer
        /\ LemmaTold /\ SolversPlaced /\ VerdictOwn

-----------------------------------------------------------------------------
(* Who changes what. *)

\* The peers do not touch the variables of the server.
LEMMA PeersFrame == Peers => UNCHANGED serverVars
<1>1. ASSUME NEW p, Connect(p) \/ Say(p) \/ Leave(p) \/ Answer(p) \/ Complain(p) \/ Die(p) \/ Obey(p)
      PROVE  UNCHANGED serverVars
  BY <1>1 DEF Connect, Say, Leave, Answer, Complain, Die, Obey, Moves
<1> QED BY <1>1 DEF Peers

\* The server does not touch those of the peers.
LEMMA ServerFrame == Server => UNCHANGED peerVars
<1>1. ASSUME NEW p, Serve(p) PROVE UNCHANGED peerVars
  BY <1>1 DEF Serve, Accept, ReadRaises, Close, CloseLemmaServer, HandleSolve, HandleEval, HandleTerminate,
              HandleSolver, HandleLemmas, HandleReport, HandleError, HandleFatal, Gets
<1>2. Settle => UNCHANGED peerVars
  BY DEF Settle, Select, EndFails, Ends, Starts, Rests
<1> QED BY <1>1, <1>2 DEF Server

-----------------------------------------------------------------------------
(* What the peers may send. *)

\* The three sorts of peers are disjoint.
LEMMA Roles == \A p \in Peer : /\ p \in Client => p \notin Process \cup LemmaProc
                               /\ p \in Process => p \notin LemmaProc
BY LifecycleAssumption DEF Peer

\* What each sort of peer may send.
LEMMA ReportOf ==
  /\ \A p \in Client : Report(p) = [op : {"eval", "terminate"}] \cup [op : {"solve"}, of : Instance]
  /\ \A p \in Process : Report(p) = [op : {"solver", "error"}] \cup [op : {"report"}, of : Instance]
  /\ \A p \in LemmaProc : Report(p) = [op : {"lemmas", "error"}]
BY Roles DEF Report, Peer

\* Who sends what.
LEMMA ReportOp ==
  ASSUME NEW p \in Peer, NEW m \in Report(p)
  PROVE  /\ m.op = "solve" => p \in Client /\ m.of \in Instance
         /\ m.op = "report" => p \in Process /\ m.of \in Instance
         /\ m.op = "solver" => p \in Process
         /\ m.op = "lemmas" => p \in LemmaProc
<1>1. CASE p \in Client
  <2>1. m \in [op : {"eval", "terminate"}] \/ m \in [op : {"solve"}, of : Instance] BY <1>1, ReportOf
  <2> QED BY <1>1, <2>1
<1>2. CASE p \in Process
  <2>1. m \in [op : {"solver", "error"}] \/ m \in [op : {"report"}, of : Instance] BY <1>2, ReportOf
  <2> QED BY <1>2, <2>1
<1>3. CASE p \in LemmaProc
  <2>1. m \in [op : {"lemmas", "error"}] BY <1>3, ReportOf
  <2> QED BY <1>3, <2>1
<1> QED BY <1>1, <1>2, <1>3 DEF Peer

\* What a client sends is of its sort.
LEMMA MessageType ==
  ASSUME SaysSent, NEW c \in Client, NEW k \in 1..Len(says[c])
  PROVE  Message(<<c, k, says[c][k]>>) \in Report(c)
         /\ Message(<<c, k, says[c][k]>>).op \notin {"solver", "lemmas"}
<1> DEFINE i == <<c, k, says[c][k]>>
<1>1. i \in Sent BY DEF SaysSent
<1> HIDE DEF i
<1>2. CASE Name(i) = "eval" BY <1>2, ReportOf DEF Message, i
<1>3. CASE Name(i) = "terminate" BY <1>3, ReportOf DEF Message, i
<1>4. CASE Name(i) \notin {"eval", "terminate"}
  <2>1. i \in Instance BY <1>1, <1>4 DEF Instance
  <2>2. Message(i) = [op |-> "solve", of |-> i] BY <1>4 DEF Message
  <2> QED BY <2>1, <2>2, ReportOf DEF i
<1> QED BY <1>2, <1>3, <1>4

\* A message of the right sort keeps the mailboxes typed.
LEMMA AppendOut ==
  ASSUME TypeOK, NEW p \in Peer, NEW m \in Report(p), out' = [out EXCEPT ![p] = Append(@, m)]
  PROVE  /\ out' \in [Peer -> Seq(UNION {Report(q) : q \in Peer})] /\ \A q \in Peer : out'[q] \in Seq(Report(q))
<1> DEFINE R == UNION {Report(q) : q \in Peer}
<1>1. m \in R OBVIOUS
<1>2. out \in [Peer -> Seq(R)] /\ \A q \in Peer : out[q] \in Seq(Report(q)) BY DEF TypeOK
<1> HIDE DEF R
<1>3. out' \in [Peer -> Seq(R)] BY <1>1, <1>2
<1>4. \A q \in Peer : out'[q] \in Seq(Report(q)) BY <1>2
<1> QED BY <1>3, <1>4 DEF R

\* A message that the server takes from a mailbox is of the sort of its peer.
LEMMA HeadType ==
  ASSUME TypeOK, NEW p \in Peer, out[p] # <<>>
  PROVE  Head(out[p]) \in Report(p) /\ Tail(out[p]) \in Seq(Report(p))
BY DEF TypeOK

\* Taking the first message of a mailbox keeps them typed.
LEMMA GetsOut ==
  ASSUME TypeOK, NEW p \in Peer, out[p] # <<>>, out' = [out EXCEPT ![p] = Tail(@)]
  PROVE  /\ out' \in [Peer -> Seq(UNION {Report(q) : q \in Peer})] /\ \A q \in Peer : out'[q] \in Seq(Report(q))
<1> DEFINE R == UNION {Report(q) : q \in Peer}
<1>1. out \in [Peer -> Seq(R)] /\ \A q \in Peer : out[q] \in Seq(Report(q)) BY DEF TypeOK
<1> HIDE DEF R
<1>2. Tail(out[p]) \in Seq(R) BY <1>1
<1>3. out' \in [Peer -> Seq(R)] BY <1>1, <1>2
<1>4. \A q \in Peer : out'[q] \in Seq(Report(q)) BY <1>1, HeadType
<1> QED BY <1>3, <1>4 DEF R

\* What a step does to the mailboxes of the server: a peer adds to its own, a handler
\* takes the first message of one.
LEMMA OutMoves ==
  ASSUME TypeOK, SaysSent, Registration, [Next]_vars
  PROVE  \/ UNCHANGED out
         \/ \E p \in Peer : peer[p] = "away" /\ peer'[p] = "up" /\ UNCHANGED kind
                            /\ \E m \in {<<>>} \cup {<<x>> : x \in Report(p)} : out' = [out EXCEPT ![p] = m]
         \/ \E p \in Peer : \E m \in Report(p) : /\ out' = [out EXCEPT ![p] = Append(@, m)]
                                              /\ m.op \notin {"solver", "lemmas"} /\ UNCHANGED kind
         \/ \E p \in Peer : \E op : Gets(p, op)
<1>1. ASSUME NEW p \in Peer, Connect(p)
      PROVE  /\ peer[p] = "away" /\ peer'[p] = "up" /\ UNCHANGED kind
             /\ \E m \in {<<>>} \cup {<<x>> : x \in Report(p)} : out' = [out EXCEPT ![p] = m]
  <2>1. CASE p \in Process
    <3>1. [op |-> "solver"] \in Report(p) BY <2>1, ReportOf
    <3> QED BY <1>1, <2>1, <3>1 DEF Connect, TypeOK, serverVars, sockVars
  <2>2. CASE p \in LemmaProc
    <3>1. [op |-> "lemmas"] \in Report(p) BY <2>2, ReportOf
    <3> QED BY <1>1, <2>2, <3>1, Roles DEF Connect, TypeOK, serverVars, sockVars
  <2>3. CASE p \notin Process \cup LemmaProc
    BY <1>1, <2>3 DEF Connect, TypeOK, serverVars, sockVars
  <2> QED BY <2>1, <2>2, <2>3
<1>2. ASSUME NEW c \in Client, Say(c)
      PROVE  \E m \in Report(c) : /\ out' = [out EXCEPT ![c] = Append(@, m)]
                                 /\ m.op \notin {"solver", "lemmas"} /\ UNCHANGED kind
  <2> DEFINE k == said[c] + 1
  <2>1. said'[c] = k /\ says[c] \in Seq(STRING) /\ said[c] \in Nat BY <1>2 DEF Say, TypeOK, SaysSent
  <2>2. k \in 1..Len(says[c]) BY <1>2, <2>1 DEF Say
  <2>3. out' = [out EXCEPT ![c] = Append(@, Message(<<c, k, says[c][k]>>))] /\ UNCHANGED kind
    BY <1>2, <2>1 DEF Say, Moves, serverVars, sockVars
  <2> QED BY <2>2, <2>3, MessageType
<1>3. ASSUME NEW p \in Process, Answer(p)
      PROVE  \E m \in Report(p) : /\ out' = [out EXCEPT ![p] = Append(@, m)]
                                 /\ m.op \notin {"solver", "lemmas"} /\ UNCHANGED kind
  <2>1. [op |-> "report", of |-> search[p]] \in Report(p) BY <1>3, ReportOf DEF Answer, TypeOK
  <2> QED BY <1>3, <2>1 DEF Answer, Moves, serverVars, sockVars
<1>4. ASSUME NEW l \in LemmaProc, Complain(l)
      PROVE  \E m \in Report(l) : /\ out' = [out EXCEPT ![l] = Append(@, m)]
                                 /\ m.op \notin {"solver", "lemmas"} /\ UNCHANGED kind
  <2>1. [op |-> "error"] \in Report(l) BY ReportOf
  <2>2. Append(out[l], [op |-> "error"]) = <<[op |-> "error"]>> BY <1>4 DEF Complain
  <2> QED BY <1>4, <2>1, <2>2 DEF Complain, Moves, serverVars, sockVars
<1>5. ASSUME NEW p \in Process \cup LemmaProc, Obey(p)
      PROVE  UNCHANGED out \/ \E m \in Report(p) : /\ out' = [out EXCEPT ![p] = Append(@, m)]
                                                  /\ m.op \notin {"solver", "lemmas"} /\ UNCHANGED kind
  <2>1. [op |-> "error"] \in Report(p) BY ReportOf
  <2>2. UNCHANGED kind BY <1>5 DEF Obey, Moves, serverVars, sockVars
  <2>3. UNCHANGED out \/ out' = [out EXCEPT ![p] = Append(@, [op |-> "error"])]
    BY <1>5 DEF Obey
  <2> QED BY <2>1, <2>2, <2>3
<1>6. ASSUME NEW p \in Peer, Serve(p)
      PROVE  UNCHANGED out \/ \E op : Gets(p, op)
  <2>1. CASE Accept(p) \/ ReadRaises(p) \/ Close(p) \/ CloseLemmaServer(p)
    BY <2>1 DEF Accept, ReadRaises, Close, CloseLemmaServer
  <2>2. CASE HandleSolve(p) \/ HandleEval(p) \/ HandleTerminate(p) \/ HandleSolver(p)
    BY <2>2, Zenon DEF HandleSolve, HandleEval, HandleTerminate, HandleSolver
  <2>3. CASE HandleLemmas(p) \/ HandleReport(p) \/ HandleError(p) \/ HandleFatal(p)
    BY <2>3, Zenon DEF HandleLemmas, HandleReport, HandleError, HandleFatal
  <2> QED BY <1>6, <2>1, <2>2, <2>3 DEF Serve
<1>7. Settle => UNCHANGED out
  BY DEF Settle, Select, EndFails, Ends, Starts, Rests
<1>8. Overdue \/ UNCHANGED vars => UNCHANGED out
  BY DEF Overdue, vars
<1>9. ASSUME NEW c \in Peer, Leave(c) \/ Die(c) PROVE UNCHANGED out
  BY <1>9 DEF Leave, Die
<1> QED BY <1>1, <1>2, <1>3, <1>4, <1>5, <1>6, <1>7, <1>8, <1>9 DEF Next, Peers, Server, Peer

\* The mailboxes of the server stay typed.
LEMMA OutType ==
  ASSUME TypeOK, SaysSent, Registration, [Next]_vars
  PROVE  out' \in [Peer -> Seq(UNION {Report(q) : q \in Peer})] /\ \A q \in Peer : out'[q] \in Seq(Report(q))
<1> DEFINE R == UNION {Report(q) : q \in Peer}
<1>1. CASE UNCHANGED out BY <1>1 DEF TypeOK
<1>2. ASSUME NEW p \in Peer, NEW m \in {<<>>} \cup {<<x>> : x \in Report(p)},
             out' = [out EXCEPT ![p] = m]
      PROVE  out' \in [Peer -> Seq(R)] /\ \A q \in Peer : out'[q] \in Seq(Report(q))
  <2>1. m \in Seq(Report(p))
    <3>1. CASE m = <<>> BY <3>1
    <3>2. ASSUME NEW x \in Report(p), m = <<x>> PROVE m \in Seq(Report(p)) BY <3>2
    <3> QED BY <3>1, <3>2
  <2>2. m \in Seq(R) BY <2>1, SeqMonotonic
  <2>3. out \in [Peer -> Seq(R)] /\ \A q \in Peer : out[q] \in Seq(Report(q)) BY DEF TypeOK
  <2> HIDE DEF R
  <2>4. out' \in [Peer -> Seq(R)] BY <1>2, <2>2, <2>3
  <2>5. \A q \in Peer : out'[q] \in Seq(Report(q)) BY <1>2, <2>1, <2>3
  <2> QED BY <2>4, <2>5
<1>3. ASSUME NEW p \in Peer, NEW op, Gets(p, op)
      PROVE  out' \in [Peer -> Seq(R)] /\ \A q \in Peer : out'[q] \in Seq(Report(q))
  BY <1>3, GetsOut DEF Gets
<1> QED BY <1>1, <1>2, <1>3, OutMoves, AppendOut

-----------------------------------------------------------------------------
(* What the server may send. *)

\* The commands of the server.
LEMMA CommandType ==
  /\ \A i \in Instance : [op |-> "solve", of |-> i] \in Command
  /\ \A l \in LemmaProc \cup {None} : [op |-> "lemmas", at |-> l] \in Command
  /\ \A o \in {"value", "stop", "init", "log", "reset"} : [op |-> o] \in Command
BY DEF Command

\* A command to solve names an instance, one about lemmas a lemma server or none.
LEMMA CommandArgument ==
  ASSUME NEW m \in Command
  PROVE  (m.op = "solve" => m.of \in Instance) /\ (m.op = "lemmas" => m.at \in LemmaProc \cup {None})
<1>1. \/ m \in [op : {"value", "stop", "init", "log", "reset"}] \/ m \in [op : {"solve"}, of : Instance]
      \/ m \in [op : {"lemmas"}, at : LemmaProc \cup {None}]
  BY DEF Command
<1> QED BY <1>1

\* Writing to a peer keeps its mailbox typed.
LEMMA PutType ==
  ASSUME TypeOK, NEW p \in Peer, NEW m \in Command
  PROVE  Put(p, m) \in Seq(Command)
BY DEF TypeOK, Put

\* So does writing to several.
LEMMA SendType ==
  ASSUME TypeOK, NEW S, NEW m \in Command, Send(S, m)
  PROVE  in' \in [Peer -> Seq(Command)]
BY PutType DEF TypeOK, Send

\* The mailboxes of the peers stay typed.
LEMMA InType ==
  ASSUME TypeOK, SaysSent, [Next]_vars
  PROVE  in' \in [Peer -> Seq(Command)]
<1> in \in [Peer -> Seq(Command)] /\ <<>> \in Seq(Command) BY DEF TypeOK
<1>1. ASSUME NEW p \in Peer, Connect(p) \/ Say(p) \/ Leave(p) \/ Answer(p) \/ Complain(p) \/ Die(p)
      PROVE  in' \in [Peer -> Seq(Command)]
  <2>1. UNCHANGED in \/ in' = [in EXCEPT ![p] = <<>>]
    BY <1>1 DEF Connect, Say, Leave, Answer, Complain, Die
  <2> QED BY <2>1
<1>2. ASSUME NEW p \in Peer, Obey(p) PROVE in' \in [Peer -> Seq(Command)]
  <2>1. in[p] # <<>> /\ in' = [in EXCEPT ![p] = Tail(@)] BY <1>2 DEF Obey
  <2> QED BY <2>1
<1>3. ASSUME NEW p \in Peer, Serve(p) PROVE in' \in [Peer -> Seq(Command)]
  <2>1. CASE Accept(p) \/ ReadRaises(p) \/ Close(p)
    <3>1. UNCHANGED in \/ in' = [in EXCEPT ![p] = <<>>] BY <2>1 DEF Accept, ReadRaises, Close
    <3> QED BY <3>1
  <2>2. CASE CloseLemmaServer(p)
    <3>1. \E S : Send(S, [op |-> "lemmas", at |-> None]) BY <2>2 DEF CloseLemmaServer, Tell
    <3> QED BY <3>1, SendType, CommandType
  <2>3. CASE HandleSolve(p) \/ HandleTerminate(p) \/ HandleReport(p) \/ HandleError(p) \/ HandleFatal(p)
    BY <2>3 DEF HandleSolve, HandleTerminate, HandleReport, HandleError, HandleFatal
  <2>4. CASE HandleEval(p)
    BY <2>4, SendType, CommandType DEF HandleEval
  <2>5. CASE HandleSolver(p)
    <3>1. Greeting \in Seq(Command) BY CommandType DEF Greeting
    <3>2. ASSUME NEW l \in LemmaServers PROVE Append(Greeting, [op |-> "lemmas", at |-> l]) \in Seq(Command)
      <4>1. [op |-> "lemmas", at |-> l] \in Command BY CommandType DEF LemmaServers
      <4> QED BY <3>1, <4>1
    <3>3. UNCHANGED in \/ \E m \in Seq(Command) : in' = [in EXCEPT ![p] = m]
      BY <2>5, <3>1, <3>2, Zenon DEF HandleSolver
    <3> QED BY <3>3
  <2>6. CASE HandleLemmas(p)
    <3>1. CASE UNCHANGED in BY <3>1
    <3>2. CASE ~UNCHANGED in
      <4>0. p \in LemmaProc BY <2>6, HeadType, ReportOp DEF HandleLemmas, Gets
      <4>1. PICK A : in' = [q \in Peer |-> IF q \in A THEN Put(q, [op |-> "lemmas", at |-> p])
                                     ELSE IF q = p THEN Put(q, InitMessage) ELSE in[q]]
        BY <2>6, <3>2 DEF HandleLemmas
      <4>2. InitMessage \in Command /\ [op |-> "lemmas", at |-> p] \in Command
        BY <4>0, CommandType DEF InitMessage
      <4> QED BY <4>1, <4>2, PutType
    <3> QED BY <3>1, <3>2
  <2> QED BY <1>3, <2>1, <2>2, <2>3, <2>4, <2>5, <2>6 DEF Serve
<1>4. CASE Settle
  <2>1. CASE Select \/ Rests BY <2>1 DEF Select, Rests
  <2>2. CASE EndFails
    <3>1. UNCHANGED in \/ \E S : Send(S, [op |-> "stop"]) BY <2>2 DEF EndFails
    <3> QED BY <3>1, SendType, CommandType
  <2>3. CASE Ends
    <3>1. PICK L : in' = [p \in Peer |-> CASE p \in Freed -> Put(p, [op |-> "stop"])
                              [] p \in L -> Put(p, ResetMessage)
                              [] OTHER -> in[p]]
      BY <2>3 DEF Ends
    <3>2. [op |-> "stop"] \in Command /\ ResetMessage \in Command BY CommandType DEF ResetMessage
    <3>3. \A p \in Peer : in'[p] \in Seq(Command) BY <3>1, <3>2, PutType
    <3> QED BY <3>1, <3>3
  <2>4. CASE Starts
    <3>1. current' \in Instance /\ Distribute(current')
      BY <2>4 DEF Starts, TypeOK, Schedulables
    <3>2. \E A : Gives(current', A) BY <3>1, Zenon DEF Distribute
    <3>3. \E A : Send(A, [op |-> "solve", of |-> current']) BY <3>2, Zenon DEF Gives
    <3> QED BY <3>1, <3>3, SendType, CommandType
  <2> QED BY <1>4, <2>1, <2>2, <2>3, <2>4 DEF Settle
<1>5. CASE Overdue \/ UNCHANGED vars
  BY <1>5 DEF Overdue, vars
<1> QED BY <1>1, <1>2, <1>3, <1>4, <1>5 DEF Next, Peers, Server, Peer

-----------------------------------------------------------------------------
(* Types of the other variables. *)

\* The variables of the peers stay typed.
LEMMA PeerType ==
  ASSUME TypeOK, SaysSent, [Next]_vars
  PROVE  /\ peer' \in [Peer -> {"away", "up", "gone"}] /\ said' \in [Client -> Nat]
         /\ search' \in [Process -> Instance \cup {None}] /\ linked' \subseteq Process
         /\ SaysSent'
<1> USE DEF TypeOK, SaysSent
<1>1. ASSUME NEW p \in Peer, Connect(p) PROVE UNCHANGED <<scene, said, search, linked>>
                                            /\ peer' \in [Peer -> {"away", "up", "gone"}]
  BY <1>1 DEF Connect
<1>2. ASSUME NEW p \in Client, Say(p) \/ Leave(p)
      PROVE  /\ peer' \in [Peer -> {"away", "up", "gone"}] /\ said' \in [Client -> Nat]
             /\ UNCHANGED <<scene, search, linked>>
  <2>1. p \in Peer /\ said[p] + 1 \in Nat BY DEF Peer
  <2>2. CASE Say(p) BY <2>1, <2>2 DEF Say, Moves
  <2>3. CASE Leave(p) BY <2>1, <2>3 DEF Leave, Moves
  <2> QED BY <1>2, <2>2, <2>3
<1>3. ASSUME NEW p \in Process, Answer(p)
      PROVE  UNCHANGED <<scene, said, peer, linked>> /\ search' \in [Process -> Instance \cup {None}]
  BY <1>3 DEF Answer, Moves
<1>4. ASSUME NEW p \in LemmaProc, Complain(p) PROVE UNCHANGED <<scene, said, search, peer, linked>>
  BY <1>4 DEF Complain, Moves
<1>5. ASSUME NEW p \in Peer, Die(p) PROVE UNCHANGED <<scene, said, search, linked>>
                                            /\ peer' \in [Peer -> {"away", "up", "gone"}]
  BY <1>5 DEF Die, Moves
<1>6. ASSUME NEW p \in Process \cup LemmaProc, Obey(p)
      PROVE  /\ peer' \in [Peer -> {"away", "up", "gone"}] /\ UNCHANGED <<scene, said>>
             /\ search' \in [Process -> Instance \cup {None}] /\ linked' \subseteq Process
  <2> DEFINE m == Head(in[p])
  <2>1. p \in Peer /\ in[p] # <<>> /\ m \in Command BY <1>6 DEF Obey, Peer
  <2>2. (m.op = "solve" => m.of \in Instance) BY <2>1, CommandArgument
  <2>3. UNCHANGED <<scene, said>> BY <1>6 DEF Obey, Moves
  <2>4. peer' \in [Peer -> {"away", "up", "gone"}] BY <1>6 DEF Obey
  <2>5. UNCHANGED search \/ \E i \in Instance \cup {None} : search' = [search EXCEPT ![p] = i]
    BY <1>6, <2>2 DEF Obey
  <2>6. UNCHANGED linked \/ (p \in OpenSMT /\ linked' = linked \cup {p}) BY <1>6 DEF Obey
  <2> QED BY <2>3, <2>4, <2>5, <2>6, LifecycleAssumption
<1>7. Overdue \/ UNCHANGED vars => UNCHANGED peerVars BY DEF Overdue, vars
<1>8. UNCHANGED scene => SaysSent' BY DEF scene
<1> QED BY <1>1, <1>2, <1>3, <1>4, <1>5, <1>6, <1>7, <1>8, ServerFrame DEF Next, Peers, Peer, peerVars, scene

\* Few steps touch the sockets of the server.
LEMMA SockMoves ==
  ASSUME [Next]_vars
  PROVE  \/ UNCHANGED sockVars
         \/ \E p \in Peer : \/ Accept(p) \/ Close(p) \/ CloseLemmaServer(p)
                            \/ HandleSolver(p) \/ HandleLemmas(p)
<1>1. Peers => UNCHANGED sockVars BY PeersFrame DEF serverVars
<1>2. ASSUME NEW p \in Peer, \/ ReadRaises(p) \/ HandleSolve(p) \/ HandleEval(p) \/ HandleTerminate(p)
                             \/ HandleReport(p) \/ HandleError(p) \/ HandleFatal(p)
      PROVE  UNCHANGED sockVars
  BY <1>2 DEF ReadRaises, HandleSolve, HandleEval, HandleTerminate, HandleReport, HandleError, HandleFatal
<1>3. Settle \/ Overdue \/ UNCHANGED vars => UNCHANGED sockVars
  BY DEF Settle, Select, EndFails, Ends, Starts, Rests, Overdue, vars
<1> QED BY <1>1, <1>2, <1>3 DEF Next, Server, Serve

\* Who registers is a solver process or a lemma server, for the first time.
LEMMA Registering ==
  ASSUME TypeOK, Registration, RoleOfKind, NEW p \in Peer
  PROVE  /\ Gets(p, "solver") => p \in Process /\ kind[p] = "plain"
         /\ Gets(p, "lemmas") => p \in LemmaProc /\ kind[p] = "plain"
<1> SUFFICES ASSUME Gets(p, "solver") \/ Gets(p, "lemmas")
             PROVE  /\ Gets(p, "solver") => p \in Process /\ kind[p] = "plain"
                    /\ Gets(p, "lemmas") => p \in LemmaProc /\ kind[p] = "plain"
  OBVIOUS
<1>1. out[p] # <<>> /\ Head(out[p]).op \in {"solver", "lemmas"} /\ kind[p] \in {"plain", "solver", "lemma"}
  BY DEF Gets, Served, Sockets
<1>2. Head(out[p]) = out[p][1] BY <1>1 DEF TypeOK
<1>3. kind[p] = "plain" BY <1>1, <1>2 DEF Registration, Registers
<1>4. Gets(p, "solver") => p \in Process BY <1>1, HeadType, ReportOp DEF Gets
<1>5. Gets(p, "lemmas") => p \in LemmaProc BY <1>1, HeadType, ReportOp DEF Gets
<1> QED BY <1>3, <1>4, <1>5

\* The sockets of the server stay typed; a closed one in _rlist is a lemma server's.
LEMMA SockType ==
  ASSUME TypeOK, Registration, RoleOfKind, [Next]_vars
  PROVE  /\ kind' \in [Peer -> {"new", "plain", "solver", "lemma", "done"}]
         /\ broken' \subseteq LemmaServers' /\ RoleOfKind'
<1> USE DEF TypeOK, RoleOfKind, LemmaServers
<1>1. CASE UNCHANGED sockVars BY <1>1 DEF sockVars
<1>2. ASSUME NEW p \in Peer, Accept(p) \/ Close(p) \/ CloseLemmaServer(p)
      PROVE  /\ kind' \in [Peer -> {"new", "plain", "solver", "lemma", "done"}]
             /\ broken' \subseteq LemmaServers' /\ RoleOfKind'
  <2>1. UNCHANGED broken /\ p \notin broken
        /\ (UNCHANGED kind \/ \E k \in {"plain", "done"} : kind' = [kind EXCEPT ![p] = k])
    BY <1>2 DEF Accept, Close, CloseLemmaServer, Over, Served, Backlog
  <2>2. \A q \in Peer : kind'[q] = kind[q] \/ (q = p /\ kind'[q] \in {"plain", "done"}) BY <2>1
  <2>3. kind' \in [Peer -> {"new", "plain", "solver", "lemma", "done"}] BY <2>1
  <2>4. \A l \in broken : l \in Peer /\ kind'[l] = "lemma" /\ l \in LemmaProc BY <2>1, <2>2 DEF Peer
  <2> QED BY <2>1, <2>2, <2>3, <2>4
<1>3. ASSUME NEW p \in Peer, HandleSolver(p)
      PROVE  /\ kind' \in [Peer -> {"new", "plain", "solver", "lemma", "done"}]
             /\ broken' \subseteq LemmaServers' /\ RoleOfKind'
  <2>1. p \in Process /\ kind[p] = "plain" BY <1>3, Registering DEF HandleSolver
  <2>2. UNCHANGED broken /\ (UNCHANGED kind \/ kind' = [kind EXCEPT ![p] = "solver"])
    BY <1>3 DEF HandleSolver
  <2>3. \A q \in Peer : kind'[q] = kind[q] \/ (q = p /\ kind'[q] = "solver") BY <2>2
  <2>4. LemmaServers' = LemmaServers BY <2>1, <2>3, Roles DEF Peer
  <2> QED BY <2>1, <2>2, <2>3, <2>4
<1>4. ASSUME NEW p \in Peer, HandleLemmas(p)
      PROVE  /\ kind' \in [Peer -> {"new", "plain", "solver", "lemma", "done"}]
             /\ broken' \subseteq LemmaServers' /\ RoleOfKind'
  <2>1. p \in LemmaProc /\ kind[p] = "plain" BY <1>4, Registering DEF HandleLemmas
  <2>2. broken' = broken \cup LemmaServers /\ (\E k \in {"lemma", "done"} : kind' = [kind EXCEPT ![p] = k])
    BY <1>4 DEF HandleLemmas
  <2>3. \A q \in Peer : IF q = p THEN kind'[q] \in {"lemma", "done"} ELSE kind'[q] = kind[q] BY <2>2
  <2>4. kind' \in [Peer -> {"new", "plain", "solver", "lemma", "done"}] BY <2>2
  <2>5. \A l \in LemmaServers : l \in Peer /\ l # p BY <2>1 DEF Peer
  <2>6. broken' \subseteq LemmaServers' BY <2>2, <2>3, <2>5
  <2>7. RoleOfKind' BY <2>1, <2>3
  <2> QED BY <2>4, <2>6, <2>7
<1> QED BY <1>1, <1>2, <1>3, <1>4, SockMoves

\* A peer comes once: nobody is away again.
LEMMA PeerMoves ==
  ASSUME [Next]_vars
  PROVE  UNCHANGED peer \/ \E q \in Peer : \E x \in {"up", "gone", peer[q]} : peer' = [peer EXCEPT ![q] = x]
<1>1. ASSUME NEW q \in Peer, Connect(q) \/ Say(q) \/ Leave(q) \/ Answer(q) \/ Complain(q) \/ Die(q)
      PROVE  UNCHANGED peer \/ \E x \in {"up", "gone"} : peer' = [peer EXCEPT ![q] = x]
  BY <1>1 DEF Connect, Say, Leave, Answer, Complain, Die
<1>2. ASSUME NEW q \in Peer, Obey(q)
      PROVE  UNCHANGED peer \/ \E x \in {"up", "gone", peer[q]} : peer' = [peer EXCEPT ![q] = x]
  BY <1>2 DEF Obey
<1>3. Server \/ Overdue \/ UNCHANGED vars => UNCHANGED peer BY ServerFrame DEF Overdue, vars, peerVars
<1> QED BY <1>1, <1>2, <1>3 DEF Next, Peers, Peer

\* What is left of a sequence without its first element.
LEMMA TailProperties ==
  ASSUME NEW S, NEW s \in Seq(S), s # <<>>
  PROVE  /\ Len(Tail(s)) = Len(s) - 1 /\ Len(s) \in Nat
         /\ \A k \in 1..Len(Tail(s)) : Tail(s)[k] = s[k + 1]
BY HeadTailProperties

\* What is left of a mailbox once its first message was taken registers nobody.
LEMMA RestRegistersNot ==
  ASSUME TypeOK, Registration, NEW p \in Peer, out[p] # <<>>, out' = [out EXCEPT ![p] = Tail(@)]
  PROVE  /\ out'[p] = <<>> \/ ~Registers(p)'
         /\ \A k \in 2..Len(out'[p]) : out'[p][k].op \notin {"solver", "lemmas"}
<1> DEFINE R == UNION {Report(q) : q \in Peer}
<1>1. out[p] \in Seq(R) /\ out'[p] = Tail(out[p]) BY DEF TypeOK
<1> HIDE DEF R
<1>2. \A k \in 1..Len(out'[p]) : k + 1 \in 2..Len(out[p]) /\ out'[p][k] = out[p][k + 1]
  <2>1. /\ Len(out'[p]) = Len(out[p]) - 1 /\ Len(out[p]) \in Nat
        /\ \A k \in 1..Len(out'[p]) : out'[p][k] = out[p][k + 1]
    BY <1>1, TailProperties
  <2> QED BY <2>1
<1>3. \A k \in 1..Len(out'[p]) : out'[p][k].op \notin {"solver", "lemmas"} BY <1>2 DEF Registration
<1>4. out'[p] # <<>> => 1 \in 1..Len(out'[p]) BY <1>1
<1>5. \A k \in 2..Len(out'[p]) : k \in 1..Len(out'[p]) BY <1>1
<1> QED BY <1>3, <1>4, <1>5 DEF Registers

\* Every step keeps Registration.
LEMMA RegistrationStep ==
  ASSUME TypeOK, SaysSent, Registration, RoleOfKind, [Next]_vars
  PROVE  Registration'
<1> DEFINE Quiet(p) ==
      /\ kind'[p] \in {"solver", "lemma", "done"} => out'[p] = <<>> \/ ~Registers(p)'
      /\ \A k \in 2..Len(out'[p]) : out'[p][k].op \notin {"solver", "lemmas"}
<1>1. ASSUME NEW p \in Peer, peer'[p] = "away" PROVE kind'[p] = "new"
  <2>1. peer[p] = "away" BY <1>1, PeerMoves DEF TypeOK
  <2>2. kind[p] = "new" BY <2>1 DEF Registration
  <2>3. \/ UNCHANGED kind
        \/ \E q \in Peer : (kind[q] # "new" \/ peer[q] # "away") /\ \E k : kind' = [kind EXCEPT ![q] = k]
    <3>1. UNCHANGED sockVars => UNCHANGED kind BY DEF sockVars
    <3>2. ASSUME NEW q \in Peer, Accept(q) PROVE peer[q] # "away" /\ \E k : kind' = [kind EXCEPT ![q] = k]
      BY <3>2 DEF Accept, Backlog
    <3>3. ASSUME NEW q \in Peer, Close(q) \/ CloseLemmaServer(q) \/ HandleSolver(q) \/ HandleLemmas(q)
          PROVE  UNCHANGED kind \/ (kind[q] # "new" /\ \E k : kind' = [kind EXCEPT ![q] = k])
      <4>1. kind[q] # "new"
        BY <3>3 DEF Close, CloseLemmaServer, HandleSolver, HandleLemmas, Gets, Over, Served, Sockets
      <4> QED BY <3>3, <4>1 DEF Close, CloseLemmaServer, HandleSolver, HandleLemmas
    <3> QED BY <3>1, <3>2, <3>3, SockMoves
  <2> QED BY <2>1, <2>2, <2>3 DEF TypeOK
<1>2. CASE UNCHANGED sockVars
  <2> SUFFICES ASSUME NEW p \in Peer PROVE Quiet(p) BY <1>1 DEF Registration
  <2>0. UNCHANGED kind BY <1>2 DEF sockVars
  <2>1. CASE out'[p] = out[p] BY <2>0, <2>1 DEF Registration, Registers
  <2>2. ASSUME peer[p] = "away", NEW m \in {<<>>} \cup {<<x>> : x \in Report(p)}, out' = [out EXCEPT ![p] = m]
        PROVE  Quiet(p)
    <3>1. kind'[p] = "new" /\ out'[p] = m BY <2>0, <2>2 DEF Registration, TypeOK
    <3>2. m = <<>> \/ \E x : m = <<x>> OBVIOUS
    <3>3. Len(m) \in {0, 1} BY <3>2
    <3> QED BY <3>1, <3>3
  <2>3. ASSUME NEW m \in Report(p), out' = [out EXCEPT ![p] = Append(@, m)], m.op \notin {"solver", "lemmas"}
        PROVE  Quiet(p)
    <3>1. out[p] \in Seq(Report(p)) /\ out'[p] = Append(out[p], m) BY <2>3 DEF TypeOK
    <3>2. CASE out[p] = <<>>
      <4>1. out'[p] = <<m>> BY <3>1, <3>2
      <4> QED BY <2>3, <4>1 DEF Registers
    <3>3. CASE out[p] # <<>>
      <4>1. out'[p][1] = out[p][1] BY <3>1, <3>3
      <4>2. \A k \in 2..Len(out'[p]) : IF k = Len(out[p]) + 1 THEN out'[p][k] = m
                                      ELSE k \in 2..Len(out[p]) /\ out'[p][k] = out[p][k]
        BY <3>1, <3>3
      <4> QED BY <2>0, <2>3, <3>3, <4>1, <4>2 DEF Registration, Registers
    <3> QED BY <3>2, <3>3
  <2>4. ASSUME NEW op, Gets(p, op) PROVE Quiet(p)
    BY <2>4, RestRegistersNot DEF Gets
  <2>5. ASSUME NEW q \in Peer, q # p, NEW m, out' = [out EXCEPT ![q] = m] PROVE out'[p] = out[p]
    BY <2>5 DEF TypeOK
  <2> QED BY <2>1, <2>2, <2>3, <2>4, <2>5, OutMoves DEF Gets
<1>3. ASSUME NEW q \in Peer, Accept(q) \/ Close(q) \/ CloseLemmaServer(q) PROVE Registration'
  <2> SUFFICES ASSUME NEW p \in Peer PROVE Quiet(p) BY <1>1 DEF Registration
  <2>1. UNCHANGED out BY <1>3 DEF Accept, Close, CloseLemmaServer
  <2>2. kind'[p] \in {"solver", "lemma", "done"} => kind[p] = kind'[p] \/ out[p] = <<>>
    BY <1>3 DEF Accept, Close, CloseLemmaServer, Over, TypeOK
  <2> QED BY <2>1, <2>2 DEF Registration, Registers
<1>4. ASSUME NEW q \in Peer, HandleSolver(q) \/ HandleLemmas(q) PROVE Registration'
  <2> SUFFICES ASSUME NEW p \in Peer PROVE Quiet(p) BY <1>1 DEF Registration
  <2>1. out[q] # <<>> /\ out' = [out EXCEPT ![q] = Tail(@)] BY <1>4 DEF HandleSolver, HandleLemmas, Gets
  <2>2. CASE p = q BY <2>1, <2>2, RestRegistersNot
  <2>3. CASE p # q
    <3>1. kind'[p] = kind[p] BY <1>4, <2>3 DEF HandleSolver, HandleLemmas, TypeOK
    <3>2. out'[p] = out[p] BY <2>1, <2>3 DEF TypeOK
    <3> QED BY <3>1, <3>2 DEF Registration, Registers
  <2> QED BY <2>2, <2>3
<1> QED BY <1>2, <1>3, <1>4, SockMoves

\* Queueing an instance keeps the dictionary typed.
LEMMA QueueType ==
  ASSUME TypeOK, NEW i \in Instance
  PROVE  Queue(i) \in Seq(Instance)
BY DEF TypeOK, Queue

\* So does deleting a key.
LEMMA DeleteType ==
  ASSUME TypeOK, Delete
  PROVE  trees' \in Seq(Instance)
<1>1. ASSUME NEW k \in 1..Len(trees), trees' = SubSeq(trees, 1, k - 1) \o SubSeq(trees, k + 1, Len(trees))
      PROVE  trees' \in Seq(Instance)
  BY <1>1 DEF TypeOK
<1> QED BY <1>1 DEF Delete, Entries, TypeOK

\* The report that a handler reads is about an instance.
LEMMA ReportAbout ==
  ASSUME TypeOK, NEW p \in Peer, Gets(p, "report")
  PROVE  p \in Process /\ Head(out[p]).of \in Instance
BY HeadType, ReportOp DEF Gets

\* The part of TypeOK about the books of the server.
ServerTypes ==
  /\ pc \in {"loop", "settle", "next", "left", "jammed"}
  /\ trees \in Seq(Instance) /\ current \in Instance \cup {None}
  /\ work \in [Process -> Instance \cup {None}] /\ begun \cup late \cup decided \subseteq Instance
  /\ told \in [Process -> LemmaProc \cup {None}] /\ announced \in [Instance -> 0..2]
  /\ credit \in [Instance -> Instance \cup {None}] /\ raised \in BOOLEAN

\* The books of the server stay typed.
LEMMA ServerType ==
  ASSUME TypeOK, Registration, RoleOfKind, [Next]_vars
  PROVE  ServerTypes'
<1>0. ServerTypes BY DEF TypeOK, ServerTypes
<1> USE DEF ServerTypes
<1>1. CASE Peers BY <1>0, <1>1, PeersFrame DEF serverVars, jobVars, ghostVars
<1>2. ASSUME NEW p \in Peer, Accept(p) \/ ReadRaises(p) PROVE ServerTypes'
  BY <1>0, <1>2 DEF Accept, ReadRaises, Done, Raise, jobVars, ghostVars
<1>3. ASSUME NEW p \in Peer, Close(p) PROVE ServerTypes'
  <2>1. work' \in [Process -> Instance \cup {None}] BY <1>0, <1>3 DEF Close, Forget
  <2> QED BY <1>0, <1>3, <2>1 DEF Close, Done, ghostVars
<1>4. ASSUME NEW S, NEW l \in LemmaProc \cup {None}, Hears(S, l) PROVE told' \in [Process -> LemmaProc \cup {None}]
  BY <1>0, <1>4 DEF Hears
<1>5. ASSUME NEW p \in Peer, CloseLemmaServer(p) PROVE ServerTypes'
  <2>1. \E S : Hears(S, None) BY <1>5 DEF CloseLemmaServer, Tell
  <2>2. told' \in [Process -> LemmaProc \cup {None}] BY <1>4, <2>1
  <2> QED BY <1>0, <1>5, <2>2 DEF CloseLemmaServer, Done, Raise, jobVars
<1>6. ASSUME NEW p \in Peer, HandleSolve(p) PROVE ServerTypes'
  <2>1. Head(out[p]).of \in Instance BY <1>6, HeadType, ReportOp DEF HandleSolve, Gets
  <2> QED BY <1>0, <1>6, <2>1, QueueType DEF HandleSolve, Entrust, ghostVars
<1>7. ASSUME NEW p \in Peer, HandleEval(p) \/ HandleTerminate(p) \/ HandleFatal(p) PROVE ServerTypes'
  BY <1>0, <1>7 DEF HandleEval, HandleTerminate, HandleFatal, Done, CloseAll, jobVars, ghostVars
<1>8. ASSUME NEW p \in Peer, HandleSolver(p) PROVE ServerTypes'
  <2>1. UNCHANGED told \/ \E l \in LemmaProc : Hears({p}, l) BY <1>8 DEF HandleSolver, LemmaServers
  <2>2. told' \in [Process -> LemmaProc \cup {None}] BY <1>0, <1>4, <2>1
  <2> QED BY <1>0, <1>8, <2>2 DEF HandleSolver, Entrust, Raise, jobVars
<1>9. ASSUME NEW p \in Peer, HandleLemmas(p) PROVE ServerTypes'
  <2>1. p \in LemmaProc BY <1>9, Registering DEF HandleLemmas
  <2>2. UNCHANGED told \/ \E S : Hears(S, p) BY <1>9 DEF HandleLemmas
  <2>3. told' \in [Process -> LemmaProc \cup {None}] BY <1>0, <1>4, <2>1, <2>2
  <2> QED BY <1>0, <1>9, <2>3 DEF HandleLemmas, Done, Raise, jobVars
<1>10. ASSUME NEW p \in Peer, HandleReport(p) PROVE ServerTypes'
  <2>1. p \in Process /\ Head(out[p]).of \in Instance BY <1>10, ReportAbout DEF HandleReport
  <2>2. work[p] # None => work[p] \in Instance BY <1>0, <2>1
  <2> QED BY <1>0, <1>10, <2>1, <2>2 DEF HandleReport, Entrust, Done
<1>11. ASSUME NEW p \in Peer, HandleError(p) PROVE ServerTypes'
  BY <1>0, <1>11 DEF HandleError, Entrust, Shortened, ghostVars
<1>12. CASE Overdue
  <2>1. current \in begun BY <1>12 DEF Overdue
  <2> QED BY <1>0, <1>12, <2>1 DEF Overdue, ghostVars
<1>13. CASE Select \/ Rests
  BY <1>0, <1>13 DEF Select, Rests, CloseAll, jobVars, ghostVars
<1>14. ASSUME Verdict PROVE announced' \in [Instance -> 0..2]
  <2>1. current \in Instance BY <1>0, <1>14 DEF Verdict, Ended
  <2> QED BY <1>0, <1>14, <2>1 DEF Verdict
<1>15. ASSUME NEW S, Forget(S) PROVE work' \in [Process -> Instance \cup {None}]
  BY <1>0, <1>15 DEF Forget
<1>16. CASE EndFails
  <2>1. UNCHANGED work \/ \E S : Forget(S) BY <1>16 DEF EndFails
  <2>2. UNCHANGED trees \/ Delete BY <1>16 DEF EndFails
  <2>3. trees' \in Seq(Instance) BY <1>0, <2>2, DeleteType
  <2>4. work' \in [Process -> Instance \cup {None}] BY <1>0, <1>15, <2>1
  <2> QED BY <1>0, <1>14, <1>16, <2>3, <2>4 DEF EndFails, Raise
<1>17. CASE Ends
  <2>3. trees' \in Seq(Instance) BY <1>17, DeleteType DEF Ends
  <2>4. work' \in [Process -> Instance \cup {None}] BY <1>15, <1>17 DEF Ends
  <2> QED BY <1>0, <1>14, <1>17, <2>3, <2>4 DEF Ends
<1>18. CASE Starts
  <2>1. current' \in Instance /\ Distribute(current')
    BY <1>0, <1>18 DEF Starts, Schedulables
  <2>2. \E A : Gives(current', A) BY <2>1, Zenon DEF Distribute
  <2>3. \E S : Works(current', S) BY <2>1, Zenon DEF Distribute
  <2>4. begun' \subseteq Instance BY <1>0, <2>1, <2>2 DEF Gives
  <2>5. work' \in [Process -> Instance \cup {None}] BY <1>0, <2>1, <2>3 DEF Works
  <2>6. pc' = "loop" /\ raised' \in BOOLEAN BY <1>0, <2>1, Zenon DEF Distribute, Raise
  <2> QED BY <1>0, <1>18, <2>1, <2>4, <2>5, <2>6 DEF Starts, ghostVars
<1>19. CASE UNCHANGED vars
  BY <1>0, <1>19 DEF vars, jobVars, ghostVars
<1> QED
  BY <1>1, <1>2, <1>3, <1>5, <1>6, <1>7, <1>8, <1>9, <1>10, <1>11, <1>12, <1>13, <1>16, <1>17, <1>18, <1>19
  DEF Next, Server, Serve, Settle

\* Every step keeps the types.
LEMMA TypeStep ==
  ASSUME TypeOK, SaysSent, Registration, RoleOfKind, [Next]_vars
  PROVE  TypeOK' /\ SaysSent' /\ Registration' /\ RoleOfKind'
<1>1. ServerTypes' BY ServerType
<1> QED BY <1>1, OutType, InType, PeerType, SockType, RegistrationStep DEF TypeOK, ServerTypes

-----------------------------------------------------------------------------
(* Which lemma server the solvers were told of. *)

\* Only the steps on sockets tell a solver of a lemma server; an exception is remembered.
LEMMA ToldMoves ==
  ASSUME [Next]_vars
  PROVE  /\ UNCHANGED told \/ \E p \in Peer : CloseLemmaServer(p) \/ HandleSolver(p) \/ HandleLemmas(p)
         /\ raised => raised'
<1>1. Peers => UNCHANGED <<told, raised>> BY PeersFrame DEF serverVars, ghostVars
<1>2. ASSUME NEW p \in Peer, \/ Accept(p) \/ Close(p) \/ ReadRaises(p) \/ HandleSolve(p) \/ HandleEval(p)
                             \/ HandleTerminate(p) \/ HandleReport(p) \/ HandleError(p) \/ HandleFatal(p)
      PROVE  UNCHANGED told /\ (raised => raised')
  BY <1>2 DEF Accept, Close, ReadRaises, HandleSolve, HandleEval, HandleTerminate, HandleReport, HandleError,
              HandleFatal, Done, Raise, Entrust, ghostVars
<1>3. ASSUME NEW p \in Peer, CloseLemmaServer(p) \/ HandleSolver(p) \/ HandleLemmas(p)
      PROVE  raised => raised'
  BY <1>3 DEF CloseLemmaServer, HandleSolver, HandleLemmas, Done, Raise, Entrust
<1>4. Select \/ EndFails \/ Ends \/ Rests \/ Overdue \/ UNCHANGED vars => UNCHANGED told /\ (raised => raised')
  BY DEF Select, EndFails, Ends, Rests, Overdue, vars, Raise, ghostVars
<1>5. CASE Starts
  <2>1. UNCHANGED told /\ Distribute(current') BY <1>5 DEF Starts, ghostVars
  <2>2. UNCHANGED raised \/ Raise BY <2>1, Zenon DEF Distribute
  <2> QED BY <2>1, <2>2 DEF Raise
<1> QED BY <1>1, <1>2, <1>3, <1>4, <1>5 DEF Next, Server, Serve, Settle

\* Nor is a node given to a process that is not a registered solver.
LEMMA WorkMoves ==
  ASSUME TypeOK, [Next]_vars
  PROVE  \A p \in Process : p \notin Solvers => work'[p] \in {None, work[p]}
<1> SUFFICES ASSUME NEW p \in Process, p \notin Solvers PROVE work'[p] \in {None, work[p]} OBVIOUS
<1>1. ASSUME NEW S, Forget(S) PROVE work'[p] \in {None, work[p]} BY <1>1 DEF Forget
<1>2. ASSUME NEW i, NEW S \in SUBSET Solvers, Works(i, S) PROVE work'[p] \in {None, work[p]}
  BY <1>2 DEF Works
<1>3. Close(p) => Forget({p}) BY DEF Close
<1>4. EndFails \/ Ends => UNCHANGED work \/ \E S : Forget(S) BY DEF EndFails, Ends
<1>5. CASE Starts
  <2>1. Distribute(current') BY <1>5 DEF Starts
  <2>2. Idle \subseteq Solvers BY DEF Idle
  <2>3. \E S \in SUBSET Solvers : Works(current', S)
    <3>1. CASE Works(current', Idle) BY <2>2, <3>1
    <3>2. ASSUME NEW d \in Idle, NEW A \in SUBSET (Idle \ {d}), Works(current', A \cup {d})
          PROVE  \E S \in SUBSET Solvers : Works(current', S)
      <4>1. A \cup {d} \in SUBSET Solvers BY <2>2
      <4> QED BY <3>2, <4>1
    <3> QED BY <2>1, <3>1, <3>2, Zenon DEF Distribute
  <2> QED BY <1>2, <2>3
<1>6. Peers => UNCHANGED work BY PeersFrame DEF serverVars, jobVars
<1>7. ASSUME NEW q \in Peer, Serve(q) PROVE UNCHANGED work \/ \E S : Forget(S)
  BY <1>7 DEF Serve, Accept, ReadRaises, Close, CloseLemmaServer, HandleSolve, HandleEval, HandleTerminate,
              HandleSolver, HandleLemmas, HandleReport, HandleError, HandleFatal, jobVars
<1>8. Select \/ Rests \/ Overdue \/ UNCHANGED vars => UNCHANGED work
  BY DEF Select, Rests, Overdue, vars, jobVars
<1> QED BY <1>1, <1>4, <1>5, <1>6, <1>7, <1>8 DEF Next, Server, Settle

\* Every step keeps Newcomers.
LEMMA NewcomersStep ==
  ASSUME TypeOK, Registration, RoleOfKind, Newcomers, [Next]_vars
  PROVE  Newcomers'
<1> SUFFICES ASSUME NEW p \in Process, kind'[p] \in {"new", "plain"}
             PROVE  work'[p] = None /\ told'[p] = None
  BY DEF Newcomers
<1>0. p \in Peer BY DEF Peer
<1>1. kind[p] \in {"new", "plain"}
  <2>1. ASSUME NEW q \in Peer, Accept(q) PROVE kind[p] \in {"new", "plain"}
    BY <1>0, <2>1 DEF Accept, Backlog, TypeOK
  <2>2. ASSUME NEW q \in Peer, Close(q) \/ CloseLemmaServer(q) \/ HandleSolver(q) \/ HandleLemmas(q)
        PROVE  kind[p] \in {"new", "plain"}
    BY <1>0, <2>2 DEF Close, CloseLemmaServer, HandleSolver, HandleLemmas, TypeOK
  <2>3. CASE UNCHANGED sockVars BY <2>3 DEF sockVars
  <2> QED BY <2>1, <2>2, <2>3, SockMoves
<1>2. p \notin Solvers /\ work[p] = None /\ told[p] = None BY <1>1 DEF Solvers, Newcomers
<1>3. work'[p] = None BY <1>2, WorkMoves
<1>4. told'[p] = None
  <2>1. ASSUME NEW q \in Peer, CloseLemmaServer(q) PROVE told'[p] = None
    BY <1>2, <2>1 DEF CloseLemmaServer, Tell, Hears
  <2>2. ASSUME NEW q \in Peer, HandleSolver(q) PROVE told'[p] = None
    <3>1. CASE UNCHANGED told BY <1>2, <3>1
    <3>2. CASE ~UNCHANGED told
      <4>1. PICK l : Hears({q}, l) /\ kind' = [kind EXCEPT ![q] = "solver"] BY <2>2, <3>2 DEF HandleSolver
      <4>2. p # q BY <1>0, <4>1 DEF TypeOK
      <4> QED BY <1>2, <4>1, <4>2 DEF Hears
    <3> QED BY <3>1, <3>2
  <2>3. ASSUME NEW q \in Peer, HandleLemmas(q) PROVE told'[p] = None
    <3>1. UNCHANGED told \/ \E A \in {Audience} \cup Cut(Audience) : Hears(A, q) BY <2>3 DEF HandleLemmas
    <3>2. ASSUME NEW A \in {Audience} \cup Cut(Audience) PROVE p \notin A BY <1>2 DEF Cut, Audience
    <3> QED BY <1>2, <3>1, <3>2 DEF Hears
  <2> QED BY <1>2, <2>1, <2>2, <2>3, ToldMoves
<1> QED BY <1>3, <1>4

\* Every step keeps OneLemmaServer: who registers last closes the others.
LEMMA OneLemmaServerStep ==
  ASSUME TypeOK, Registration, RoleOfKind, OneLemmaServer, [Next]_vars
  PROVE  OneLemmaServer'
<1> SUFFICES ASSUME NEW l \in (LemmaServers \ broken)', NEW m \in (LemmaServers \ broken)' PROVE l = m
  BY DEF OneLemmaServer
<1>0. l \in Peer /\ m \in Peer /\ l \in LemmaProc /\ m \in LemmaProc /\ kind'[l] = "lemma" /\ kind'[m] = "lemma"
      /\ l \notin broken' /\ m \notin broken'
  BY DEF LemmaServers, Peer
<1>1. CASE UNCHANGED sockVars BY <1>0, <1>1 DEF OneLemmaServer, LemmaServers, sockVars
<1>2. ASSUME NEW p \in Peer, Accept(p) \/ Close(p) \/ CloseLemmaServer(p) PROVE l = m
  <2>1. UNCHANGED broken /\ (UNCHANGED kind \/ \E k \in {"plain", "done"} : kind' = [kind EXCEPT ![p] = k])
    BY <1>2 DEF Accept, Close, CloseLemmaServer
  <2>2. \A q \in Peer : kind'[q] = "lemma" => kind[q] = "lemma" BY <2>1 DEF TypeOK
  <2> QED BY <1>0, <2>1, <2>2 DEF OneLemmaServer, LemmaServers
<1>3. ASSUME NEW p \in Peer, HandleSolver(p) PROVE l = m
  <2>1. UNCHANGED broken /\ (UNCHANGED kind \/ kind' = [kind EXCEPT ![p] = "solver"]) BY <1>3 DEF HandleSolver
  <2>2. \A q \in Peer : kind'[q] = "lemma" => kind[q] = "lemma" BY <2>1 DEF TypeOK
  <2> QED BY <1>0, <2>1, <2>2 DEF OneLemmaServer, LemmaServers
<1>4. ASSUME NEW p \in Peer, HandleLemmas(p) PROVE l = m
  <2>1. broken' = broken \cup LemmaServers /\ (\E k \in {"lemma", "done"} : kind' = [kind EXCEPT ![p] = k])
    BY <1>4 DEF HandleLemmas
  <2>2. \A q \in Peer : q # p => kind'[q] = kind[q] BY <2>1 DEF TypeOK
  <2>3. l = p /\ m = p BY <1>0, <2>1, <2>2 DEF LemmaServers
  <2> QED BY <2>3
<1> QED BY <1>1, <1>2, <1>3, <1>4, SockMoves

\* Every step keeps LemmaTold.
LEMMA LemmaToldStep ==
  ASSUME TypeOK, Registration, RoleOfKind, Newcomers, OneLemmaServer, LemmaTold, [Next]_vars
  PROVE  LemmaTold'
<1> DEFINE Told(p) == IF LemmaServers = {} THEN told[p] = None ELSE told[p] \in LemmaServers
<1> SUFFICES ASSUME ~raised', broken' = {} PROVE \A p \in Solvers' : Told(p)'
  BY DEF LemmaTold
<1>0. \A p \in Process : p \in Peer BY DEF Peer
<1>1. ~raised BY ToldMoves
<1>2. broken = {}
  <2>1. broken \subseteq broken' BY SockMoves DEF sockVars, Accept, Close, CloseLemmaServer, HandleSolver, HandleLemmas
  <2> QED BY <2>1
<1>3. \A p \in Solvers : Told(p) BY <1>1, <1>2 DEF LemmaTold
<1>4. CASE UNCHANGED <<sockVars, told>>
  BY <1>3, <1>4 DEF sockVars, Solvers, LemmaServers
<1>5. ASSUME NEW q \in Peer, Accept(q) \/ Close(q) PROVE \A p \in Solvers' : Told(p)'
  <2>1. UNCHANGED told BY <1>5 DEF Accept, Close, ghostVars
  <2>2. kind[q] # "lemma" /\ \E k \in {"plain", "done"} : kind' = [kind EXCEPT ![q] = k]
    BY <1>5, Roles DEF Accept, Close, Backlog, LemmaServers, RoleOfKind
  <2>3. LemmaServers' = LemmaServers BY <2>2 DEF LemmaServers, TypeOK, Peer
  <2>4. Solvers' \subseteq Solvers BY <2>2, <1>0 DEF Solvers, TypeOK
  <2> QED BY <1>3, <2>1, <2>3, <2>4
<1>6. ASSUME NEW q \in Peer, CloseLemmaServer(q) PROVE \A p \in Solvers' : Told(p)'
  <2>1. q \in LemmaServers /\ Hears(Solvers, None) /\ kind' = [kind EXCEPT ![q] = "done"]
    BY <1>1, <1>6 DEF CloseLemmaServer, Raise, Tell
  <2>2. LemmaServers' = {}
    <3>1. \A l \in LemmaServers : l = q BY <1>2, <2>1 DEF OneLemmaServer
    <3> QED BY <2>1, <3>1 DEF LemmaServers, TypeOK, Peer
  <2>3. Solvers' \subseteq Solvers BY <2>1, <1>0 DEF Solvers, TypeOK
  <2>4. \A p \in Solvers' : told'[p] = None BY <2>1, <2>3 DEF Hears, Solvers
  <2> QED BY <2>2, <2>4
<1>7. ASSUME NEW q \in Peer, HandleSolver(q) PROVE \A p \in Solvers' : Told(p)'
  <2>1. q \in Process /\ kind[q] = "plain" /\ told[q] = None
    BY <1>7, Registering DEF HandleSolver, Newcomers
  <2>2. /\ kind' = [kind EXCEPT ![q] = "solver"]
        /\ \/ LemmaServers = {} /\ UNCHANGED told
           \/ \E l \in LemmaServers : Hears({q}, l)
    BY <1>1, <1>7 DEF HandleSolver, Raise
  <2>3. LemmaServers' = LemmaServers BY <2>1, <2>2, Roles DEF LemmaServers, TypeOK, Peer
  <2>4. Solvers' = Solvers \cup {q} BY <2>1, <2>2, <1>0 DEF Solvers, TypeOK
  <2>5. CASE LemmaServers = {} /\ UNCHANGED told BY <1>3, <2>1, <2>3, <2>4, <2>5
  <2>6. ASSUME NEW l \in LemmaServers, Hears({q}, l) PROVE \A p \in Solvers' : Told(p)'
    <3>1. \A p \in Solvers' : IF p = q THEN told'[p] = l ELSE told'[p] = told[p] BY <2>1, <2>6 DEF Hears, Solvers
    <3> QED BY <1>3, <2>3, <2>4, <3>1
  <2> QED BY <2>2, <2>5, <2>6
<1>8. ASSUME NEW q \in Peer, HandleLemmas(q) PROVE \A p \in Solvers' : Told(p)'
  <2>1. q \in LemmaProc /\ kind[q] = "plain" BY <1>8, Registering DEF HandleLemmas
  <2>2. kind' = [kind EXCEPT ![q] = "lemma"] /\ Hears(Solvers, q)
    BY <1>1, <1>8 DEF HandleLemmas, Raise, Audience
  <2>3. q \in LemmaServers' BY <2>1, <2>2 DEF LemmaServers, TypeOK
  <2>4. Solvers' \subseteq Solvers BY <2>1, <2>2, <1>0 DEF Solvers, TypeOK
  <2>5. \A p \in Solvers' : told'[p] = q BY <2>2, <2>4 DEF Hears, Solvers
  <2> QED BY <2>3, <2>5
<1> QED
  <2>1. UNCHANGED sockVars /\ UNCHANGED told => UNCHANGED <<sockVars, told>> OBVIOUS
  <2> QED BY <1>4, <1>5, <1>6, <1>7, <1>8, <2>1, SockMoves, ToldMoves

-----------------------------------------------------------------------------
(* Which instance the solvers work on. *)

\* What waits depends on these variables only.
LEMMA SameSchedulables ==
  ASSUME UNCHANGED <<trees, begun, late, decided>>
  PROVE  Schedulables' = Schedulables
BY DEF Schedulables, Waits, Expired

\* Every step keeps SolversPlaced.
LEMMA SolversPlacedStep ==
  ASSUME TypeOK, Registration, RoleOfKind, Newcomers, SolversPlaced, [Next]_vars
  PROVE  SolversPlaced'
<1> DEFINE Half == \A p \in Solvers : work[p] \in {None, current}
           Full == (\A p \in Solvers : work[p] = current) /\ (current = None => Schedulables = {})
<1> SUFFICES ASSUME ~raised' PROVE Half' /\ (pc' = "loop" => Full')
  BY DEF SolversPlaced
<1>0. \A p \in Process : p \in Peer BY DEF Peer
<1>1. ~raised BY ToldMoves
<1>2. Half /\ (pc = "loop" => Full) BY <1>1 DEF SolversPlaced
<1> DEFINE Goal == Half' /\ (pc' = "loop" => Full')
<1>3. ASSUME Solvers' \subseteq Solvers, \A p \in Solvers' : work'[p] = work[p],
             UNCHANGED <<trees, current, begun, late, decided>>, pc' \in {pc, "settle", "left"}
      PROVE  Goal
  BY <1>2, <1>3, SameSchedulables
<1>4. CASE Peers BY <1>3, <1>4, PeersFrame DEF serverVars, sockVars, jobVars, Solvers
<1>5. ASSUME NEW p \in Peer, Accept(p) \/ ReadRaises(p) \/ CloseLemmaServer(p) PROVE Goal
  <2>1. UNCHANGED jobVars /\ UNCHANGED pc BY <1>1, <1>5 DEF Accept, ReadRaises, CloseLemmaServer, Done, Raise
  <2>2. UNCHANGED kind \/ \E k \in {"plain", "done"} : kind' = [kind EXCEPT ![p] = k]
    BY <1>5 DEF Accept, ReadRaises, CloseLemmaServer, sockVars
  <2>3. Solvers' \subseteq Solvers BY <1>0, <2>2 DEF Solvers, TypeOK
  <2> QED BY <1>3, <2>1, <2>3 DEF jobVars
<1>6. ASSUME NEW p \in Peer, Close(p) PROVE Goal
  <2>1. Forget({p}) /\ kind' = [kind EXCEPT ![p] = "done"] /\ UNCHANGED <<pc, trees, current, begun, late, decided>>
    BY <1>6 DEF Close, Done
  <2>2. Solvers' \subseteq Solvers /\ p \notin Solvers' BY <1>0, <2>1 DEF Solvers, TypeOK
  <2>3. \A q \in Solvers' : work'[q] = work[q] BY <2>1, <2>2 DEF Forget, Solvers
  <2> QED BY <1>3, <2>1, <2>2, <2>3
<1>7. ASSUME NEW p \in Peer, HandleEval(p) \/ HandleTerminate(p) \/ HandleFatal(p) PROVE Goal
  <2>1. UNCHANGED <<jobVars, sockVars>> /\ pc' \in {pc, "left"}
    BY <1>7 DEF HandleEval, HandleTerminate, HandleFatal, Done, CloseAll
  <2> QED BY <1>3, <2>1 DEF jobVars, sockVars, Solvers
<1>8. ASSUME NEW p \in Peer, HandleSolve(p) \/ HandleReport(p) \/ HandleError(p) PROVE Goal
  <2>1. UNCHANGED <<work, current, sockVars>>
    BY <1>8 DEF HandleSolve, HandleReport, HandleError
  <2>2. Half' BY <1>2, <2>1 DEF sockVars, Solvers
  <2>3. CASE pc' # "loop" BY <2>2, <2>3
  <2>4. CASE pc' = "loop"
    <3>1. UNCHANGED <<pc, trees, begun, late, decided>>
      BY <1>8, <2>4 DEF HandleSolve, HandleReport, HandleError, Entrust, Done
    <3> QED BY <1>3, <2>1, <3>1 DEF sockVars, Solvers
  <2> QED BY <2>3, <2>4
<1>9. ASSUME NEW p \in Peer, HandleSolver(p) PROVE Goal
  <2>1. p \in Process /\ work[p] = None /\ kind[p] = "plain"
    BY <1>9, Registering DEF HandleSolver, Newcomers
  <2>2. UNCHANGED jobVars /\ pc' = "settle" /\ kind' = [kind EXCEPT ![p] = "solver"]
    BY <1>1, <1>9 DEF HandleSolver, Entrust, Raise
  <2>3. Solvers' = Solvers \cup {p} BY <1>0, <2>1, <2>2 DEF Solvers, TypeOK
  <2> QED BY <1>2, <2>1, <2>2, <2>3 DEF jobVars
<1>10. ASSUME NEW p \in Peer, HandleLemmas(p) PROVE Goal
  <2>1. \E k \in {"lemma", "done"} : kind' = [kind EXCEPT ![p] = k] BY <1>10 DEF HandleLemmas
  <2>2. Solvers' \subseteq Solvers BY <1>0, <2>1 DEF Solvers, TypeOK
  <2>3. UNCHANGED jobVars /\ UNCHANGED pc BY <1>1, <1>10 DEF HandleLemmas, Done, Raise
  <2> QED BY <1>3, <2>2, <2>3 DEF jobVars
<1>11. CASE Overdue
  <2>1. UNCHANGED <<work, current, kind>> /\ current \in begun /\ pc = "loop" BY <1>11 DEF Overdue, sockVars
  <2>2. current # None BY <2>1, NoneAssumption DEF TypeOK
  <2> QED BY <1>2, <2>1, <2>2 DEF Solvers
<1>12. CASE Select
  BY <1>1, <1>3, <1>12 DEF Select, jobVars, sockVars, Solvers
<1>13. CASE EndFails BY <1>1, <1>13 DEF EndFails, Raise
<1>14. CASE Ends
  <2>1. Forget(Solvers) /\ pc' = "next" /\ UNCHANGED kind BY <1>14 DEF Ends, Freed, sockVars
  <2> QED BY <2>1 DEF Forget, Solvers
<1>15. CASE Starts
  <2>1. current' \in Instance /\ Distribute(current') /\ UNCHANGED kind
    BY <1>15 DEF Starts, Schedulables, TypeOK, sockVars
  <2>2. Works(current', Idle) BY <1>1, <2>1, Zenon DEF Distribute, Raise
  <2>3. Solvers' = Solvers BY <2>1 DEF Solvers
  <2>4. \A p \in Solvers : IF p \in Idle THEN work'[p] = current' ELSE work'[p] = work[p]
    BY <2>2 DEF Works, Solvers
  <2>5. \A p \in Solvers : p \notin Idle => work[p] = current /\ current # None /\ current' = current
    BY <1>2, <1>15 DEF Idle, Starts
  <2>6. \A p \in Solvers' : work'[p] = current' BY <2>3, <2>4, <2>5
  <2> QED BY <2>1, <2>6, NoneAssumption
<1>16. CASE Rests
  <2>1. current = None /\ Schedulables = {} /\ UNCHANGED <<jobVars, kind>> BY <1>16 DEF Rests, sockVars
  <2>2. \A p \in Solvers : work[p] = current BY <1>2, <2>1
  <2> QED BY <2>1, <2>2, SameSchedulables DEF jobVars, Solvers
<1>17. CASE UNCHANGED vars
  BY <1>3, <1>17 DEF vars, sockVars, jobVars, Solvers
<1> QED
  BY <1>4, <1>5, <1>6, <1>7, <1>8, <1>9, <1>10, <1>11, <1>12, <1>13, <1>14, <1>15, <1>16, <1>17
  DEF Next, Server, Serve, Settle

-----------------------------------------------------------------------------
(* Verdicts. *)

\* Only a report decides an instance.
LEMMA VerdictMoves ==
  ASSUME [Next]_vars
  PROVE  UNCHANGED <<decided, credit>> \/ \E p \in Peer : HandleReport(p)
<1>1. Peers => UNCHANGED <<decided, credit>> BY PeersFrame DEF serverVars, jobVars, ghostVars
<1>2. ASSUME NEW p \in Peer, \/ Accept(p) \/ Close(p) \/ CloseLemmaServer(p) \/ ReadRaises(p) \/ HandleSolve(p)
                             \/ HandleEval(p) \/ HandleTerminate(p) \/ HandleSolver(p) \/ HandleLemmas(p)
                             \/ HandleError(p) \/ HandleFatal(p)
      PROVE  UNCHANGED <<decided, credit>>
  BY <1>2 DEF Accept, Close, CloseLemmaServer, ReadRaises, HandleSolve, HandleEval, HandleTerminate, HandleSolver,
              HandleLemmas, HandleError, HandleFatal, jobVars, ghostVars
<1>3. Settle \/ Overdue \/ UNCHANGED vars => UNCHANGED <<decided, credit>>
  BY DEF Settle, Select, EndFails, Ends, Starts, Rests, Overdue, vars, jobVars, ghostVars
<1> QED BY <1>1, <1>2, <1>3 DEF Next, Server, Serve

\* Every step keeps VerdictOwn.
LEMMA VerdictOwnStep ==
  ASSUME TypeOK, VerdictOwn, [Next]_vars
  PROVE  VerdictOwn'
<1>1. CASE UNCHANGED <<decided, credit>> BY <1>1 DEF VerdictOwn
<1>2. ASSUME NEW p \in Peer, HandleReport(p) PROVE VerdictOwn'
  <2> DEFINE about == Head(out[p]).of
             i == work[p]
  <2>1. p \in Process /\ about \in Instance BY <1>2, ReportAbout DEF HandleReport
  <2>2. CASE UNCHANGED <<decided, credit>> BY <2>2 DEF VerdictOwn
  <2>3. CASE /\ i # None /\ Name(about) = Name(i)
             /\ decided' = decided \cup {i} /\ credit' = [credit EXCEPT ![i] = about]
    <3>1. i \in Instance BY <2>1, <2>3 DEF TypeOK
    <3>2. Unique(i) => about = i BY <2>1, <2>3 DEF Unique
    <3>3. \A j \in Instance : credit'[j] = IF j = i THEN about ELSE credit[j] BY <2>3 DEF TypeOK
    <3>4. decided' = decided \cup {i} /\ decided \subseteq Instance BY <2>3 DEF TypeOK
    <3> HIDE DEF i, about
    <3> QED BY <3>1, <3>2, <3>3, <3>4 DEF VerdictOwn
  <2> QED BY <1>2, <2>2, <2>3 DEF HandleReport, Matches
<1> QED BY <1>1, <1>2, VerdictMoves

\* Assigning a key of the dictionary again, or a new one, keeps every instance of another
\* name and has the new one in the place of one of its name.
LEMMA QueueKeeps ==
  ASSUME TypeOK, NEW i \in Instance, NEW j \in Instance, NEW k \in 1..Len(trees), trees[k] = j
  PROVE  \E n \in 1..Len(Queue(i)) : Queue(i)[n] = IF Name(j) = Name(i) THEN i ELSE j
<1>0. trees \in Seq(Instance) /\ Len(trees) \in Nat BY DEF TypeOK
<1>1. CASE \E n \in 1..Len(trees) : Name(trees[n]) = Name(i)
  <2> DEFINE q == [n \in 1..Len(trees) |-> IF Name(trees[n]) = Name(i) THEN i ELSE trees[n]]
  <2>1. Queue(i) = q BY <1>1 DEF Queue
  <2>2. Len(q) = Len(trees) BY <1>0
  <2>3. q[k] = IF Name(j) = Name(i) THEN i ELSE j OBVIOUS
  <2> QED BY <2>1, <2>2, <2>3
<1>2. CASE ~\E n \in 1..Len(trees) : Name(trees[n]) = Name(i)
  <2>1. Queue(i) = Append(trees, i) BY <1>2 DEF Queue
  <2>2. Name(j) # Name(i) BY <1>2
  <2> QED BY <1>0, <2>1, <2>2
<1> QED BY <1>1, <1>2

\* Deleting one entry keeps the others.
LEMMA RemoveKeeps ==
  ASSUME NEW S, NEW s \in Seq(S), NEW k \in 1..Len(s), NEW j \in 1..Len(s), j # k
  PROVE  \E n \in 1..Len(SubSeq(s, 1, k - 1) \o SubSeq(s, k + 1, Len(s))) :
            (SubSeq(s, 1, k - 1) \o SubSeq(s, k + 1, Len(s)))[n] = s[j]
<1> DEFINE a == SubSeq(s, 1, k - 1)
           b == SubSeq(s, k + 1, Len(s))
<1>0. Len(s) \in Nat /\ \A n \in 1..Len(s) : s[n] \in S OBVIOUS
<1>1. /\ a \in Seq(S) /\ Len(a) = k - 1
      /\ \A n \in 1..(k - 1) : a[n] = s[n]
  BY <1>0
<1>2. /\ b \in Seq(S) /\ Len(b) = Len(s) - k
      /\ \A n \in 1..(Len(s) - k) : b[n] = s[k + n]
  BY <1>0
<1> HIDE DEF a, b
<1>3. /\ Len(a \o b) = Len(a) + Len(b)
      /\ \A n \in 1..(Len(a) + Len(b)) : (a \o b)[n] = IF n <= Len(a) THEN a[n] ELSE b[n - Len(a)]
  BY <1>1, <1>2, ConcatProperties
<1> SUFFICES \E n \in 1..Len(a \o b) : (a \o b)[n] = s[j] BY DEF a, b
<1>4. CASE j < k
  <2>1. j \in 1..(Len(a) + Len(b)) /\ j \in 1..(k - 1) BY <1>0, <1>1, <1>2, <1>4
  <2>2. (a \o b)[j] = s[j] BY <1>1, <1>3, <2>1
  <2>3. j \in 1..Len(a \o b) BY <1>3, <2>1
  <2> QED BY <2>2, <2>3
<1>5. CASE j > k
  <2>1. j - 1 \in 1..(Len(a) + Len(b)) /\ j - k \in 1..(Len(s) - k) /\ ~(j - 1 <= Len(a))
    BY <1>0, <1>1, <1>2, <1>5
  <2>2. (a \o b)[j - 1] = b[j - 1 - (k - 1)] BY <1>1, <1>3, <2>1
  <2>3. j - 1 - (k - 1) = j - k /\ k + (j - k) = j BY <1>0
  <2>4. (a \o b)[j - 1] = s[j] BY <1>2, <2>1, <2>2, <2>3
  <2>5. j - 1 \in 1..Len(a \o b) BY <1>3, <2>1
  <2> QED BY <2>4, <2>5
<1> QED BY <1>0, <1>4, <1>5

\* What the action property says of one step.
Kept == \A i \in Instance : Lists(i) /\ ~Lists(i)' =>
           \E j \in Instance : /\ Name(j) = Name(i)
                               /\ Lists(j)' \/ (j = current /\ announced'[j] > 0)

\* What one step does to the dictionary.
LEMMA KeptStep ==
  ASSUME TypeOK, [Next]_vars
  PROVE  Kept
<1>1. CASE UNCHANGED trees BY <1>1 DEF Kept, Lists
<1>2. ASSUME NEW p \in Peer, HandleSolve(p) PROVE Kept
  <2> DEFINE new == Head(out[p]).of
  <2>1. new \in Instance BY <1>2, HeadType, ReportOp DEF HandleSolve, Gets
  <2>2. trees' = Queue(new) BY <1>2 DEF HandleSolve
  <2> HIDE DEF new
  <2> SUFFICES ASSUME NEW i \in Instance, NEW k \in 1..Len(trees), trees[k] = i
               PROVE  \E j \in Instance : Name(j) = Name(i) /\ Lists(j)'
    BY DEF Kept, Lists
  <2> QED BY <2>1, <2>2, QueueKeeps DEF Lists
<1>3. ASSUME Verdict, Delete PROVE Kept
  <2> SUFFICES ASSUME NEW i \in Instance, NEW n \in 1..Len(trees), trees[n] = i, ~Lists(i)'
               PROVE  Name(current) = Name(i) /\ current \in Instance /\ announced'[current] > 0
    BY DEF Kept, Lists
  <2>1. current \in Instance BY <1>3 DEF Verdict, Ended, TypeOK
  <2>2. announced'[current] > 0
    <3>1. announced[current] \in 0..2 BY <2>1 DEF TypeOK
    <3>2. announced'[current] = announced[current] + (IF announced[current] < 2 THEN 1 ELSE 0)
      BY <1>3, <2>1 DEF Verdict, TypeOK
    <3> QED BY <3>1, <3>2
  <2>3. ASSUME Name(current) # Name(i) PROVE FALSE
    <3>1. CASE UNCHANGED trees BY <3>1 DEF Lists
    <3>2. ASSUME NEW k \in Entries,
                 trees' = SubSeq(trees, 1, k - 1) \o SubSeq(trees, k + 1, Len(trees))
          PROVE  FALSE
      <4>1. k \in 1..Len(trees) /\ n # k BY <2>3 DEF Entries
      <4>2. Lists(i)' BY <3>2, <4>1, RemoveKeeps DEF TypeOK, Lists
      <4> QED BY <4>2
    <3> QED BY <1>3, <3>1, <3>2 DEF Delete
  <2> QED BY <2>1, <2>2, <2>3
<1>4. EndFails \/ Ends => UNCHANGED trees \/ (Verdict /\ Delete) BY DEF EndFails, Ends
<1>5. Peers => UNCHANGED trees BY PeersFrame DEF serverVars, jobVars
<1>6. ASSUME NEW p \in Peer, \/ Accept(p) \/ Close(p) \/ CloseLemmaServer(p) \/ ReadRaises(p) \/ HandleEval(p)
                             \/ HandleTerminate(p) \/ HandleSolver(p) \/ HandleLemmas(p) \/ HandleReport(p)
                             \/ HandleError(p) \/ HandleFatal(p)
      PROVE  UNCHANGED trees
  BY <1>6 DEF Accept, Close, CloseLemmaServer, ReadRaises, HandleEval, HandleTerminate, HandleSolver,
              HandleLemmas, HandleReport, HandleError, HandleFatal, jobVars
<1>7. Select \/ Starts \/ Rests \/ Overdue \/ UNCHANGED vars => UNCHANGED trees
  BY DEF Select, Starts, Rests, Overdue, vars, jobVars
<1> QED BY <1>1, <1>2, <1>3, <1>4, <1>5, <1>6, <1>7 DEF Next, Server, Serve, Settle

-----------------------------------------------------------------------------

\* The inductive invariant holds at first.
LEMMA InitInv == Init => IInv
<1> SUFFICES ASSUME Init PROVE IInv OBVIOUS
<1>1. PICK s \in Scenes : /\ says = s.says /\ enableLog = s.log
                          /\ peer = [p \in Peer |-> IF p \in s.come THEN "away" ELSE "gone"]
                          /\ kind = [p \in Peer |-> IF p \in s.come THEN "new" ELSE "done"]
  BY DEF Init
<1>2. s \in [come : SUBSET Peer, says : [Client -> Seq(STRING)], log : BOOLEAN] BY LifecycleAssumption
<1>3. SaysSent
  <2>1. ASSUME NEW c \in Client, NEW k \in 1..Len(says[c]) PROVE <<c, k, says[c][k]>> \in Sent
    <3> DEFINE Part(d, t) == {<<d, n, t.says[d][n]>> : n \in 1..Len(t.says[d])}
    <3>1. <<c, k, says[c][k]>> \in Part(c, s) BY <1>1
    <3>2. Sent = UNION {Part(d, t) : d \in Client, t \in Scenes} BY DEF Sent
    <3> HIDE DEF Part
    <3> QED BY <3>1, <3>2
  <2> QED BY <1>1, <1>2, <2>1 DEF SaysSent
<1>4. Solvers = {} /\ LemmaServers = {} BY <1>1 DEF Solvers, LemmaServers, Peer
<1>5. TypeOK
  <2>1. out \in [Peer -> Seq(UNION {Report(q) : q \in Peer})] /\ \A q \in Peer : out[q] \in Seq(Report(q))
    BY DEF Init
  <2>2. in \in [Peer -> Seq(Command)] BY DEF Init
  <2>3. ServerTypes
    <3>1. trees \in Seq(Instance) /\ begun \cup late \cup decided \subseteq Instance BY DEF Init
    <3>2. work \in [Process -> Instance \cup {None}] /\ told \in [Process -> LemmaProc \cup {None}] BY DEF Init
    <3>3. announced \in [Instance -> 0..2] /\ credit \in [Instance -> Instance \cup {None}] BY DEF Init
    <3>4. pc = "loop" /\ current = None /\ raised = FALSE BY DEF Init
    <3> QED BY <3>1, <3>2, <3>3, <3>4 DEF ServerTypes
  <2>4. peer \in [Peer -> {"away", "up", "gone"}] /\ kind \in [Peer -> {"new", "plain", "solver", "lemma", "done"}]
    BY <1>1
  <2>5. said \in [Client -> Nat] /\ search \in [Process -> Instance \cup {None}] /\ linked \subseteq Process
        /\ broken \subseteq LemmaServers
    BY DEF Init
  <2> QED BY <2>1, <2>2, <2>3, <2>4, <2>5 DEF ServerTypes, TypeOK
<1>6. Registration BY <1>1 DEF Init, Registration
<1>7. RoleOfKind BY <1>1 DEF RoleOfKind
<1>8. Newcomers BY DEF Init, Newcomers
<1>9. OneLemmaServer /\ LemmaTold BY <1>4 DEF OneLemmaServer, LemmaTold
<1>10. SolversPlaced BY <1>4 DEF Init, SolversPlaced, Schedulables
<1>11. VerdictOwn BY DEF Init, VerdictOwn
<1> QED BY <1>3, <1>5, <1>6, <1>7, <1>8, <1>9, <1>10, <1>11 DEF IInv

\* Every step keeps it.
LEMMA StepInv == IInv /\ [Next]_vars => IInv'
BY TypeStep, NewcomersStep, OneLemmaServerStep, LemmaToldStep, SolversPlacedStep, VerdictOwnStep DEF IInv

\* Whatever the peers do and however handlers end, the inductive invariant holds.
THEOREM LifecycleInvariant == Spec => []IInv
<1> QED BY InitInv, StepInv, PTL DEF Spec

\* Every variable keeps its type: after any series of handlers the books of the server
\* name instances, and a closed socket in _rlist is that of a lemma server.
THEOREM LifecycleTypes == Spec => []TypeOK
<1>1. IInv => TypeOK BY DEF IInv
<1> QED BY <1>1, LifecycleInvariant, PTL

\* Between handlers every registered solver works on the current instance, and no instance
\* waits while there is none (entrust, schedular.py:462-500).
THEOREM SolversArePlaced == Spec => []Placed
<1>1. IInv => Placed BY DEF IInv, SolversPlaced, Placed, Between
<1> QED BY <1>1, LifecycleInvariant, PTL

\* Between handlers every registered solver was last told of the lemma server that is
\* registered (schedular.py:342, 358, 384).
THEOREM LemmasAnnounced == Spec => []LemmaAnnounced
<1>1. IInv => LemmaAnnounced BY DEF IInv, LemmaTold, LemmaAnnounced, Between
<1> QED BY <1>1, LifecycleInvariant, PTL

\* An instance is decided by a report about it (Solver.read, schedular.py:186-190).
THEOREM VerdictsOwn == Spec => []VerdictOwn
<1>1. IInv => VerdictOwn BY DEF IInv
<1> QED BY <1>1, LifecycleInvariant, PTL

\* No instance leaves the dictionary but for a file of its name, or when the verdict of
\* one of its name was printed (schedular.py:325, 447).
THEOREM InstancesKept == Spec => KeptUntilAnnounced
<1>1. IInv /\ [Next]_vars => [Kept]_vars
  BY KeptStep DEF IInv
<1>2. KeptUntilAnnounced <=> [][Kept]_vars BY DEF KeptUntilAnnounced, Kept
<1> QED BY <1>1, <1>2, LifecycleInvariant, PTL DEF Spec
=============================================================================
