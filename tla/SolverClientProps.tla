------------------------- MODULE SolverClientProps -------------------------
(***************************************************************************)
(* What the threads of SolverClient.tla are expected to keep.              *)
(***************************************************************************)
EXTENDS SolverClient

\* Every variable has the type the code gives it.
TypeOK ==
  /\ sent \in 0..MaxSends /\ heading \in Node \cup {None} /\ asked \subseteq Node
  /\ wire \in Seq(Order) /\ events \in Seq(Event) /\ reports \in Seq(Answer)
  /\ conn \in {"up", "dead"} /\ seed \in BOOLEAN /\ socket \in BOOLEAN
  /\ header \in Node \cup {None}
  /\ shallStop \in BOOLEAN /\ shouldStop \in BOOLEAN
  /\ \A c \in pulled : c.label \in Node /\ c.from \in SUBSET Node
  /\ comm \in {"off", "wait", "get", "stop", "join", "execute"} /\ event \in Event \cup {None}
  /\ future \in {"none", "running", "unknown"} \cup Verdict
  /\ pos \in Node \cup {None} /\ decided \in BOOLEAN /\ answered \in BOOLEAN
  /\ injected \in SUBSET Node
  /\ partitioner \in {"none", "running", "exited"} /\ splits \in Node \cup {None}
  /\ workers \subseteq Puller /\ pull \in [Puller -> Node \cup {None}]
  /\ pulls \in 0..MaxPulls

\* The assertion of Schedular.cc:128: the communicator never gets an unknown
\* result on the flag of the search, although the flag may be left over from
\* an earlier search and the search may be told to stop at any time.
GotVerdict == comm = "get" => future # "unknown"

\* What the threads do amounts to the process the server counts on.  A command
\* counts as executed when the communicator executes it, RESUME and INJECT are
\* its own business, and a node is answered for when the report is written.
Only(M, s) ==
  LET f[i \in 0..Len(s)] == IF i = 0 THEN <<>>
                            ELSE IF s[i] \in M THEN Append(f[i - 1], s[i]) ELSE f[i - 1] IN
  f[Len(s)]
Held(M) == IF comm \in {"stop", "join", "execute"} /\ event \in M THEN <<event>> ELSE <<>>
\* The orders of a set that are on their way to the communicator.
OnTheWay(M) == Held(M) \o Only(M, events) \o Only(M, wire)
Strip(e) == IF e.op \in {"SOLVE", "INCREMENTAL"} THEN e ELSE [op |-> e.op]
Obeyed == Order \ {[op |-> "LEMMAS"]}
Pending == [i \in 1..Len(OnTheWay(Obeyed)) |-> Strip(OnTheWay(Obeyed)[i])]
View == INSTANCE Client WITH
  models <- Models, cmds <- Pending, fork <- partitioner = "running", done <- answered
ClientPromise == View!Spec

-----------------------------------------------------------------------------
(* Liveness.  ThreadSpec is all that the code provides for: every thread    *)
(* goes on when it can, the search included once it is asked to stop.      *)
(* PatientSpec adds that every search ends by itself, which is up to the   *)
(* instance and the solver.                                                *)

Threads ==
  /\ WF_vars(ListenSolve \/ ListenLemmas \/ ListenEvent \/ ListenStop)
  /\ WF_vars(Communicator) /\ WF_vars(SearchStops)
ThreadSpec == Spec /\ Threads
PatientSpec == ThreadSpec /\ WF_vars(SearchAnswers)

\* Parts are asked for because a search does not end.  So a request for the parts
\* of a node that was queued comes to execute_event (Schedular.cc:172), or the
\* process exits, however long the searches take.  ThreadSpec refutes it: a flag
\* left over from an earlier search makes the communicator wait for the next one
\* in future.get() (Schedular.cc:127), and nothing asks that one to stop.
Asked(n) == \E i \in 1..Len(events) : events[i] = [op |-> "PARTITION", node |-> n]
Granted(n) == comm = "execute" /\ event = [op |-> "PARTITION", node |-> n]
OnDemand == \A n \in Node : Asked(n) ~> Granted(n) \/ ~Up

\* When the server has nothing more to say and every search ends (PatientSpec),
\* the process answers for the node it was sent to, or was told to go: no result,
\* flag or reset is lost between the threads (Schedular.cc:122-171).
AnswersInTheEnd == <>[](heading = None \/ answered \/ ~Up)

-----------------------------------------------------------------------------
\* Clauses are only injected where they hold: they come from the path of the
\* node the solver works on.
InjectsOnPath == injected \subseteq (IF pos = None THEN {} ELSE Path[pos])
=============================================================================
