------------------------ MODULE SchedulerWorkProofs ------------------------
(***************************************************************************)
(* Proofs about the progress of the search in Scheduler.tla, between two   *)
(* handlers and in the loops of entrust.                                   *)
(***************************************************************************)
EXTENDS SchedulerProofs

-----------------------------------------------------------------------------
(* The shape of the tree.                                                  *)

\* A node is on its own path.
LEMMA OwnPath ==
  ASSUME NEW n \in Node
  PROVE  n \in Path[n]
BY DEF Path

\* The path of a part is the path of its parent and the part itself.
LEMMA PathOfPart ==
  ASSUME NEW c \in Node \ {Root}
  PROVE  Path[Parent(c)] \subseteq Path[c] /\ Path[c] \subseteq Path[Parent(c)] \cup {c}
<1> DEFINE p == Parent(c)
<1>1. p \in Node BY ParentBelow
<1>2. Path[p] \subseteq Path[c]
  <2> SUFFICES ASSUME NEW a \in Path[p] PROVE a \in Path[c] OBVIOUS
  <2>1. a \in Node BY <1>1 DEF Path
  <2>2. ASSUME NEW S \in SUBSET Node, c \in S, \A m \in S \ {Root} : Parent(m) \in S
        PROVE  a \in S
    <3>1. p \in S BY <2>2
    <3> HIDE DEF p
    <3> QED BY <1>1, <2>2, <3>1, PathLeast
  <2> QED BY <2>1, <2>2 DEF Path
<1>3. Path[c] \subseteq Path[p] \cup {c}
  <2> DEFINE S == Path[p] \cup {c}
  <2>1. S \in SUBSET Node /\ c \in S /\ p \in Path[p] BY <1>1, OwnPath DEF Path
  <2>2. ASSUME NEW m \in Path[p] \ {Root} PROVE Parent(m) \in Path[p]
    <3>1. m \in Node /\ Parent(m) \in Node BY <1>1, <2>2, ParentBelow DEF Path
    <3>2. ASSUME NEW T \in SUBSET Node, p \in T, \A k \in T \ {Root} : Parent(k) \in T
          PROVE  Parent(m) \in T
      <4>1. m \in T BY <1>1, <2>2, <3>2, PathLeast
      <4> QED BY <2>2, <3>2, <4>1
    <3> QED BY <1>1, <3>1, <3>2 DEF Path
  <2>3. \A m \in S \ {Root} : Parent(m) \in S BY <2>1, <2>2
  <2> HIDE DEF S
  <2>4. \A a \in Path[c] : a \in S BY <2>1, <2>3, PathLeast
  <2> QED BY <2>4 DEF S
<1> QED BY <1>2, <1>3

\* A node on the path of another has parts.
LEMMA PathSplit ==
  ASSUME TypeOK, TreeShape, NEW n \in tree, NEW a \in Path[n], a # n
  PROVE  Parts(a) # {}
<1> DEFINE S == {n} \cup {x \in tree : Parts(x) # {}}
<1>1. S \in SUBSET Node /\ n \in S /\ n \in Node BY DEF TypeOK
<1>2. ASSUME NEW m \in S \ {Root} PROVE Parent(m) \in S
  <2>1. m \in tree BY <1>2
  <2>2. Parent(m) \in tree /\ m \in Parts(Parent(m)) BY <1>2, <2>1 DEF TreeShape, Parts
  <2> QED BY <2>2
<1> HIDE DEF S
<1>3. a \in S BY <1>1, <1>2, PathLeast
<1> QED BY <1>3 DEF S

\* A tree of more than one node has parts of the root.
LEMMA RootSplit ==
  ASSUME TypeOK, TreeShape, NEW n \in tree, n # Root
  PROVE  Parts(Root) # {}
<1> DEFINE T == tree \ {Root}
<1>1. T \in SUBSET Nat /\ T # {} BY DEF TypeOK, Node
<1>2. PICK x \in T : \A y \in T : x <= y BY <1>1, LeastNode
<1>3. x \in Node \ {Root} /\ x \in tree BY <1>2 DEF TypeOK
<1>4. Parent(x) \in tree /\ Parent(x) < x BY <1>3, ParentBelow DEF TreeShape
<1>5. Parent(x) \in Nat /\ x \in Nat BY <1>3, ParentBelow DEF Node
<1>6. Parent(x) = Root BY <1>2, <1>4, <1>5
<1> QED BY <1>3, <1>6 DEF Parts

\* A set of nodes has a greatest element.
LEMMA GreatestNode ==
  ASSUME NEW T \in SUBSET Node, T # {}
  PROVE  \E x \in T : \A y \in T : y <= x
<1>0. MaxNode \in Nat BY SchedulerAssumption
<1> DEFINE U == {MaxNode - x : x \in T}
<1>1. U \in SUBSET Nat /\ U # {}
  <2>1. \A x \in T : MaxNode - x \in Nat BY <1>0 DEF Node
  <2> QED BY <2>1
<1>2. PICK u \in U : \A v \in U : u <= v BY <1>1, LeastNode
<1>3. PICK x \in T : u = MaxNode - x BY <1>2
<1>4. \A y \in T : MaxNode - x <= MaxNode - y BY <1>2, <1>3
<1> QED BY <1>0, <1>3, <1>4 DEF Node

-----------------------------------------------------------------------------
(* WorkInv, whatever the configuration.                                    *)

\* The parts of a node of the tree are still there after a step, and so is what is
\* known of it.
LEMMA Grown ==
  ASSUME SearchInv, [Next]_vars
  PROVE  /\ tree \subseteq tree'
         /\ \A n \in Node : Parts(n) \subseteq Parts(n)'
         /\ \A n \in Node : Unknown(n)' => Unknown(n)
         /\ Settled => Settled'
<1> USE DEF treeVars, solverVars, jobVars, localVars, clientVars
<1>1. tree \subseteq tree' BY TreeGrows
<1>2. ASSUME NEW n \in Node, ~Unknown(n) PROVE ~Unknown(n)'
  BY <1>2, Learned DEF Unknown
<1>3. overdue = TRUE => overdue' = TRUE
  <2>1. Handler \/ Tick \/ UNCHANGED vars => overdue' = overdue
    BY DEF Handler, Raise, TerminateAll, PrintVerdict, PlaceNewcomer, StartScan, Scan, ScanUnsat,
         ScanExpired, ScanRunning, PlaceSolved, ChooseFollowers, PlaceFollowers, PlaceIdle, Rescue,
         Ask, Tick, vars
  <2>2. Overdue => overdue' = TRUE BY DEF Overdue
  <2>3. \A s \in Solver : Wakeup(s) \/ Client(s) => overdue' = overdue
    BY DEF Wakeup, JoinSolver, CloseSolver, DropReport, ReadStatus, ReadParts, Client,
           TakeCommand, Answers, Restarts, AnswersParts, Dies
  <2> QED BY <2>1, <2>2, <2>3 DEF Next, Halted
<1>4. overdue \in BOOLEAN BY DEF SearchInv, TypeOK
<1>5. Settled => Settled' BY <1>2, <1>3, <1>4, RootIsNode DEF Settled
<1> QED BY <1>1, <1>2, <1>5 DEF Parts

\* UnsatClimbed is kept: a status that closes the last open part of a node is at
\* the cursor, and the next step carries it up.
LEMMA UnsatClimbedStep ==
  ASSUME SearchInv, UnsatClimbed, [Next]_vars
  PROVE  UnsatClimbed'
<1>0. TypeOK /\ TreeShape BY DEF SearchInv
<1> SUFFICES ASSUME NEW n \in tree', Unknown(n)', Parts(n)' # {},
                    \A c \in Parts(n)' : status'[c] = "unsat"
             PROVE  phase' = "raise" /\ cursor' \in Parts(n)'
  BY DEF UnsatClimbed
<1>1. n \in Node /\ tree' \subseteq Node /\ Unknown(n)
  BY TypeStep, Grown DEF TypeOK
<1>2. ASSUME NEW s \in Solver, ReadParts(s) PROVE FALSE
  <2>1. status' = status /\ phase = "select" BY <1>2 DEF ReadParts, Receives
  <2>2. \A c \in Parts(n)' : c \in tree BY <1>0, <1>1, <2>1 DEF TreeShape, Unknown, Parts
  <2>3. n \in tree
    <3>1. PICK c \in Parts(n)' : TRUE OBVIOUS
    <3>2. c \in tree \ {Root} /\ Parent(c) = n BY <2>2, <3>1 DEF Parts
    <3> QED BY <1>0, <3>2 DEF TreeShape
  <2>4. Parts(n)' = Parts(n) BY <1>1, <2>2, Grown DEF Parts
  <2> QED BY <1>1, <2>1, <2>3, <2>4 DEF UnsatClimbed
<1>3. CASE tree' = tree /\ \A c \in Parts(n) : status[c] = "unsat"
  <2>1. Parts(n)' = Parts(n) /\ n \in tree BY <1>3 DEF Parts
  <2>2. phase = "raise" /\ cursor \in Parts(n) BY <1>1, <1>3, <2>1 DEF UnsatClimbed
  <2>3. CASE Raise
    <3>1. cursor # Root /\ Parent(cursor) = n /\ status[cursor] = "unsat"
      BY <1>3, <2>2 DEF Parts
    <3>2. Climbs(status[cursor], Parent(cursor)) BY <1>3, <3>1 DEF Climbs
    <3>3. status' = [status EXCEPT ![n] = "unsat"] BY <2>3, <3>1, <3>2 DEF Raise
    <3> QED BY <1>0, <1>1, <3>3 DEF TypeOK, Unknown
  <2>4. CASE UNCHANGED <<phase, cursor>> BY <2>1, <2>2, <2>4
  <2>5. \A s \in Solver : ReadStatus(s) => phase # "raise" BY DEF ReadStatus, Receives
  <2> QED BY <2>2, <2>3, <2>4, <2>5, PhaseFrom
<1>4. CASE tree' = tree /\ ~(\A c \in Parts(n) : status[c] = "unsat")
  <2>1. PICK c \in Parts(n) : status[c] # "unsat" BY <1>4
  <2>2. Parts(n)' = Parts(n) /\ c \in tree \ {Root} /\ Parent(c) = n /\ status'[c] = "unsat"
    BY <1>4, <2>1 DEF Parts
  <2>3. CASE Raise
    <3>1. cursor' = c /\ phase' = "raise"
      <4>1. CASE cursor # Root /\ Climbs(status[cursor], Parent(cursor))
        <5>1. /\ status' = [status EXCEPT ![Parent(cursor)] = status[cursor]]
              /\ cursor' = Parent(cursor) /\ phase' = phase /\ phase = "raise"
          BY <2>3, <4>1 DEF Raise
        <5> QED BY <1>0, <2>1, <2>2, <5>1 DEF TypeOK
      <4>2. CASE ~(cursor # Root /\ Climbs(status[cursor], Parent(cursor)))
        BY <2>1, <2>2, <2>3, <4>2 DEF Raise
      <4> QED BY <4>1, <4>2
    <3> QED BY <2>1, <2>2, <3>1
  <2>4. ASSUME NEW s \in Solver, ReadStatus(s) PROVE phase' = "raise" /\ cursor' \in Parts(n)'
    <3> DEFINE m == at[s]
    <3>1. /\ phase' = "raise" /\ cursor' = m
          /\ \A x \in Node : status'[x] =
               IF x = m \/ (Incoming(s).kind = "unsat" /\ x \in Below(m) /\ Unknown(x))
               THEN Incoming(s).kind ELSE status[x]
      BY <2>4 DEF ReadStatus
    <3>2. c \in Node \ {Root} /\ m \in Node
      <4>1. m = Incoming(s).node BY <2>4 DEF ReadStatus, Current
      <4>2. m \in tree BY <2>4, <4>1, IncomingTrue DEF ReadStatus
      <4> QED BY <1>0, <2>2, <4>2 DEF TypeOK
    <3>3. c = m
      <4> SUFFICES ASSUME c # m PROVE FALSE OBVIOUS
      <4>1. Incoming(s).kind = "unsat" /\ c \in Below(m) BY <2>1, <2>2, <3>1, <3>2
      <4>2. m \in Path[n] BY <2>2, <3>2, <4>1, PathOfPart DEF Below
      <4>3. n \in Below(m) /\ Unknown(n) BY <1>0, <1>1, <1>4, <4>2 DEF Below
      <4>4. status'[n] = "unsat" BY <1>1, <3>1, <4>1, <4>3
      <4> QED BY <4>4 DEF Unknown
    <3> QED BY <2>1, <2>2, <3>1, <3>3
  <2>5. status' = status => FALSE BY <2>1, <2>2
  <2> QED BY <1>2, <2>3, <2>4, <2>5, WhoLearns
<1>5. tree' = tree \/ \E s \in Solver : ReadParts(s)
  <2>1. Raise => tree' = tree BY DEF Raise
  <2>2. \A s \in Solver : ReadStatus(s) => tree' = tree BY DEF ReadStatus
  <2> QED BY <2>1, <2>2, WhoLearns
<1> QED BY <1>2, <1>3, <1>4, <1>5

\* A scan is done with open nodes only when they have parts.
LEMMA ProcessedSplitStep ==
  ASSUME SearchInv, ProcessedSplit, [Next]_vars
  PROVE  ProcessedSplit'
<1> USE DEF treeVars, solverVars, jobVars, localVars, clientVars
<1>0. TypeOK /\ TreeShape /\ Whereabouts BY DEF SearchInv
<1>1. \A n \in Node : (Parts(n) # {} => Parts(n)' # {}) /\ (Unknown(n)' => Unknown(n)) BY Grown
<1>2. CASE processed' = processed BY <1>0, <1>1, <1>2 DEF ProcessedSplit, TypeOK
<1>3. ASSUME NEW n \in Node, ScanUnsat(n) PROVE ProcessedSplit'
  <2>1. n \in tree /\ ~Unknown(n)
    BY <1>0, <1>3 DEF ScanUnsat, Scanning, IsFirst, Left, Whereabouts, Unknown
  <2>2. processed' = processed \cup Closed(n) BY <1>3 DEF ScanUnsat
  <2>3. n # Root => n \in Parts(Parent(n)) /\ Parent(n) \in Node BY <2>1, ParentBelow DEF Parts
  <2>4. \A m \in Closed(n) : m \in Node /\ (Unknown(m) => Parts(m) # {}) BY <2>1, <2>3 DEF Closed
  <2>5. \A m \in processed' : m \in Node /\ (Unknown(m) => Parts(m) # {})
    BY <1>0, <2>2, <2>4 DEF ProcessedSplit, TypeOK
  <2> QED BY <1>1, <2>5 DEF ProcessedSplit
<1>4. ASSUME NEW n \in Node, ScanExpired(n) PROVE ProcessedSplit'
  <2>1. \A m \in processed' : m \in Node /\ (Unknown(m) => Parts(m) # {})
    BY <1>0, <1>4 DEF ScanExpired, HasParts, ProcessedSplit, TypeOK
  <2> QED BY <1>1, <2>1 DEF ProcessedSplit
<1>5. Raise \/ TerminateAll \/ PrintVerdict \/ StartScan \/ ChooseFollowers \/ Tick \/ Overdue \/ Ask
      \/ PlaceSolved \/ PlaceFollowers \/ PlaceIdle \/ Rescue \/ UNCHANGED vars
      => processed' = processed
  BY DEF TerminateAll, PrintVerdict, StartScan, ChooseFollowers, Tick, Overdue, Raise, PlaceSolved,
         PlaceFollowers, PlaceIdle, Rescue, Ask, vars
<1>6. \A n \in Node : ScanRunning(n) => processed' = processed BY DEF ScanRunning
<1>7. \A s \in Solver : PlaceNewcomer(s) \/ Wakeup(s) \/ Client(s) => processed' = processed
  BY DEF PlaceNewcomer, Wakeup, JoinSolver, CloseSolver, DropReport, ReadStatus, ReadParts, Client,
         TakeCommand, Answers, Restarts, AnswersParts, Dies
<1> QED BY <1>2, <1>3, <1>4, <1>5, <1>6, <1>7 DEF Next, Handler, Halted, Scan

\* A turn of a distribution goes on with fewer solvers, or ends the handler.
LEMMA HandOutShape ==
  ASSUME NEW receivers, NEW places, HandOut(receivers, places)
  PROVE  \/ phase' \in {"hung", "select"} /\ ResetLocals
         \/ /\ phase' = phase /\ moving' \subseteq moving /\ UNCHANGED <<target, got>>
            /\ round' \subseteq receivers \cup round
BY DEF HandOut, MoveRaises, EndHandler

\* HandlerShape is kept.
LEMMA HandlerShapeStep ==
  ASSUME SearchInv, HandlerShape, [Next]_vars
  PROVE  HandlerShape'
<1> USE DEF treeVars, solverVars, jobVars, localVars, clientVars
<1>0. TypeOK /\ TreeShape /\ Whereabouts BY DEF SearchInv
<1>1. ASSUME ResetLocals, phase' \in {"select", "hung", "over"} PROVE HandlerShape'
  BY <1>1 DEF ResetLocals, HandlerShape
<1>2. CASE Raise
  <2>1. phase = "raise" /\ phase' \in {"raise", "settle"} /\ UNCHANGED <<moving, target, got>>
    BY <1>2 DEF Raise
  <2> QED BY <2>1 DEF HandlerShape
<1>3. CASE TerminateAll \/ PrintVerdict \/ Ask
  BY <1>1, <1>3 DEF TerminateAll, PrintVerdict, Ask, EndHandler
<1>4. ASSUME NEW s \in Solver, PlaceNewcomer(s) PROVE HandlerShape'
  <2>1. phase = "settle" /\ (EndHandler \/ UNCHANGED <<phase, moving, target, got>>)
    BY <1>4 DEF PlaceNewcomer
  <2>2. CASE EndHandler BY <1>1, <2>2 DEF EndHandler
  <2>3. CASE UNCHANGED <<phase, moving, target, got>> BY <2>1, <2>3 DEF HandlerShape
  <2> QED BY <2>1, <2>2, <2>3
<1>5. CASE StartScan
  <2>1. /\ phase = "settle" /\ phase' = "scan" /\ ~Settled
        /\ UNCHANGED <<moving, target, got, status, overdue>>
    BY <1>5 DEF StartScan
  <2> QED BY <2>1 DEF HandlerShape, Settled, Unknown
<1>6. ASSUME NEW n \in Node, ScanUnsat(n) PROVE HandlerShape'
  <2>1. /\ phase = "scan" /\ n \in tree /\ status[n] = "unsat"
        /\ UNCHANGED <<tree, status, overdue, phase, target, got>>
    BY <1>0, <1>6 DEF ScanUnsat, Scanning, IsFirst, Left, Whereabouts
  <2>2. ~Settled /\ n # Root BY <2>1 DEF HandlerShape, Settled, Unknown
  <2>3. Parts(Root) # {} BY <1>0, <2>1, <2>2, RootSplit
  <2> QED BY <2>1, <2>2, <2>3 DEF HandlerShape, Settled, Unknown, Parts
<1>7. ASSUME NEW n \in Node, ScanExpired(n) \/ ScanRunning(n) PROVE HandlerShape'
  <2>1. phase = "scan" /\ UNCHANGED <<tree, status, overdue, phase, moving, got>>
    BY <1>7 DEF ScanExpired, ScanRunning, Scanning
  <2> QED BY <2>1 DEF HandlerShape, Settled, Unknown, Parts
<1>8. CASE PlaceSolved \/ PlaceFollowers
  <2>1. /\ phase \in {"scan", "received"} /\ UNCHANGED <<tree, status, overdue>>
        /\ \E receivers, places : HandOut(receivers, places)
    BY <1>8 DEF PlaceSolved, PlaceFollowers, ScanDone
  <2>2. CASE phase' \in {"hung", "select"} /\ ResetLocals BY <1>1, <2>2
  <2>3. CASE phase = "scan" /\ phase' = phase /\ moving' \subseteq moving /\ UNCHANGED <<target, got>>
    BY <2>1, <2>3 DEF HandlerShape, Settled, Unknown, Parts
  <2>4. ASSUME phase = "received", phase' = phase, moving' \subseteq moving,
               UNCHANGED <<target, got>>, round' \subseteq UnknownParts(got) \cup round
        PROVE  HandlerShape'
    <3>1. UnknownParts(got)' = UnknownParts(got) BY <2>1, <2>4 DEF UnknownParts, Parts, Unknown
    <3> QED BY <2>1, <2>4, <3>1 DEF HandlerShape, Settled, Unknown
  <2>5. phase = "scan" \/ HandOut(UnknownParts(got), [c \in Node |-> {c}])
    BY <1>8 DEF PlaceSolved, PlaceFollowers, ScanDone
  <2> QED BY <2>1, <2>2, <2>3, <2>4, <2>5, HandOutShape
<1>9. CASE ChooseFollowers
  <2>1. /\ phase = "scan" /\ moving = {} /\ phase' = "received"
        /\ round' = {} /\ UNCHANGED <<tree, status, overdue, target, got>>
        /\ got = None => moving' = moving
    BY <1>9 DEF ChooseFollowers, ScanDone
  <2> QED BY <2>1 DEF HandlerShape, Settled, Unknown
<1>10. CASE PlaceIdle \/ Rescue
  <2>1. /\ phase = "received" /\ moving = {} /\ UNCHANGED <<tree, status, overdue>>
        /\ \/ EndHandler
           \/ phase' \in {"received", "ask"} /\ UNCHANGED <<moving, target, got>>
    BY <1>10 DEF PlaceIdle, Rescue, Placed, MoveRaises
  <2>2. CASE EndHandler BY <1>1, <2>2 DEF EndHandler
  <2>3. CASE phase' \in {"received", "ask"} /\ UNCHANGED <<moving, target, got>>
    BY <2>1, <2>3 DEF HandlerShape, Settled, Unknown
  <2> QED BY <2>1, <2>2, <2>3
<1>11. ASSUME phase = "select", phase' \in {"select", "settle", "raise"},
              UNCHANGED <<moving, target>>, got' = got \/ phase' = "settle"
       PROVE  HandlerShape'
  BY <1>11 DEF HandlerShape
<1>12. CASE Tick \/ Overdue BY <1>11, <1>12 DEF Tick, Overdue
<1>13. ASSUME NEW s \in Solver, Wakeup(s) PROVE HandlerShape'
  <2>1. /\ phase = "select" /\ phase' \in {"select", "settle", "raise"}
        /\ UNCHANGED <<moving, target>> /\ (got' = got \/ phase' = "settle")
    BY <1>13 DEF Wakeup, JoinSolver, CloseSolver, DropReport, ReadStatus, ReadParts, Receives
  <2> QED BY <1>11, <2>1
<1>14. ASSUME NEW s \in Solver, Client(s) PROVE HandlerShape'
  <2>1. phase = "select" /\ UNCHANGED <<phase, moving, target, got>>
    BY <1>14 DEF Client, TakeCommand, Answers, Restarts, AnswersParts, Dies, Alive
  <2> QED BY <1>11, <2>1
<1>15. CASE UNCHANGED vars
  BY <1>15 DEF vars, HandlerShape, Settled, Unknown, UnknownParts, Parts
<1> QED
  BY <1>2, <1>3, <1>4, <1>5, <1>6, <1>7, <1>8, <1>9, <1>10, <1>12, <1>13, <1>14, <1>15
  DEF Next, Handler, Halted, Scan

\* WorkInv is an invariant of the scheduler.
THEOREM WorkInvariant == Spec => []WorkInv
<1>1. Init => WorkInv
  <2>1. ASSUME Init PROVE \A n \in tree : Parts(n) = {} BY <2>1 DEF Init, Parts
  <2> QED BY <2>1 DEF Init, WorkInv, UnsatClimbed, ProcessedSplit, HandlerShape
<1>2. SearchInv /\ WorkInv /\ [Next]_vars => WorkInv'
  BY UnsatClimbedStep, ProcessedSplitStep, HandlerShapeStep DEF WorkInv
<1> QED BY <1>1, <1>2, SearchInvariant, PTL DEF Spec

\* Below an open node of an open instance there is an open leaf, the greatest of
\* its open nodes, and no scan is done with it.
LEMMA OpenLeaf ==
  ASSUME SearchInv, ClimbInv, WorkInv, Unknown(Root), phase # "raise",
         NEW c \in tree, Unknown(c)
  PROVE  \E d \in Below(c) : Active(d) /\ Parts(d) = {}
<1>0. TypeOK /\ TreeShape BY DEF SearchInv
<1> DEFINE T == {d \in Below(c) : Unknown(d)}
<1>1. T \in SUBSET Node /\ c \in T BY <1>0, OwnPath DEF TypeOK, Below
<1>2. PICK d \in T : \A e \in T : e <= d BY <1>1, GreatestNode
<1>3. d \in tree /\ Unknown(d) /\ c \in Path[d] /\ d \in Node BY <1>1 DEF Below
<1>4. Parts(d) = {}
  <2> SUFFICES ASSUME Parts(d) # {} PROVE FALSE OBVIOUS
  <2>1. PICK e \in Parts(d) : status[e] # "unsat" BY <1>3 DEF WorkInv, UnsatClimbed
  <2>2. e \in tree \ {Root} /\ Parent(e) = d /\ e \in Node BY <1>0, <2>1 DEF Parts, TypeOK
  <2>3. status[e] # "sat" BY <2>2, NoSatOpen
  <2>4. Unknown(e) BY <1>0, <2>1, <2>2, <2>3 DEF TypeOK, Status, Unknown
  <2>5. e \in T BY <1>3, <2>2, <2>4, PathOfPart DEF Below
  <2>6. d < e /\ e <= d BY <1>2, <2>2, <2>5, ParentBelow
  <2> QED BY <1>3, <2>2, <2>6 DEF Node
<1>5. d \notin processed BY <1>3, <1>4 DEF WorkInv, ProcessedSplit
<1> QED BY <1>1, <1>3, <1>4, <1>5 DEF Active

\* While the instance is open, there is an open node without parts that no scan is
\* done with: flagging nodes processed never closes the search.
THEOREM WorkIsLeft == Spec => []WorkRemains
<1>1. SearchInv /\ ClimbInv /\ WorkInv => WorkRemains
  <2> SUFFICES ASSUME SearchInv, ClimbInv, WorkInv, Running
               PROVE  \E n \in tree : Active(n) /\ Parts(n) = {}
    BY DEF WorkRemains
  <2>1. Root \in tree /\ Unknown(Root) /\ phase # "raise"
    BY DEF Running, Between, SearchInv, TypeOK
  <2>2. PICK d \in Below(Root) : Active(d) /\ Parts(d) = {} BY <2>1, OpenLeaf
  <2> QED BY <2>2 DEF Below
<1> QED BY <1>1, SearchInvariant, ClimbInvariant, WorkInvariant, PTL

\* The first loop of entrust always has a receiver: an open part of the root with
\* an open leaf below.
LEMMA ReceiversExist ==
  ASSUME SearchInv, ClimbInv, WorkInv, PlaceSolved
  PROVE  {c \in UnknownParts(Root) : ActiveBelow(c) # {}} # {}
<1>0. TypeOK BY DEF SearchInv
<1>1. phase = "scan" /\ moving # {} /\ Root \in tree BY <1>0 DEF PlaceSolved, ScanDone, TypeOK
<1>2. Unknown(Root) /\ Parts(Root) # {} BY <1>1 DEF WorkInv, HandlerShape, Settled
<1>3. PICK c \in Parts(Root) : status[c] # "unsat" BY <1>1, <1>2 DEF WorkInv, UnsatClimbed
<1>4. c \in tree /\ c \in Node BY <1>0 DEF Parts, TypeOK
<1>5. status[c] # "sat" BY <1>1, <1>2, <1>4, NoSatOpen
<1>6. Unknown(c) BY <1>0, <1>3, <1>4, <1>5 DEF TypeOK, Status, Unknown
<1>7. \E d \in Below(c) : Active(d) BY <1>1, <1>2, <1>4, <1>6, OpenLeaf
<1> QED BY <1>6, <1>7 DEF UnknownParts, ActiveBelow

-----------------------------------------------------------------------------
(* CalmInv, where no process dies on its own and every report of parts has *)
(* some.                                                                   *)

\* A queue of commands without an order to exit.
Quiet(q) == \A i \in 1..Len(q) : q[i].op \notin {"STOP", "TERMINATE"}

\* Such queues stay such when other commands are added.
LEMMA PostQuiet ==
  ASSUME TypeOK, NEW r \in Solver, NEW c \in Cmd, c.op \notin {"STOP", "TERMINATE"}, Post(r, c),
         NEW s \in Solver, Quiet(cmds[s])
  PROVE  Quiet(cmds'[s])
<1>1. cmds[s] \in Seq(Cmd) BY DEF TypeOK
<1>2. cmds'[s] = cmds[s] \/ cmds'[s] = Append(cmds[s], c) BY DEF TypeOK, Post
<1>3. ASSUME NEW i \in 1..Len(Append(cmds[s], c))
      PROVE  Append(cmds[s], c)[i].op \notin {"STOP", "TERMINATE"}
  BY <1>1, AppendElements DEF Quiet
<1> QED BY <1>2, <1>3 DEF Quiet

\* A move is not an order to exit.
LEMMA MoveQuiet ==
  ASSUME TypeOK, NEW r \in Solver, NEW n \in Node, Move(r, n) \/ MoveRaises(r),
         NEW s \in Solver, Quiet(cmds[s])
  PROVE  Quiet(cmds'[s])
<1>1. CASE Move(r, n)
  <2> DEFINE c == [op |-> "INCREMENTAL", node |-> n]
  <2>1. c \in Cmd /\ c.op \notin {"STOP", "TERMINATE"} BY DEF Cmd
  <2>2. Post(r, c) BY <1>1 DEF Move, Assign
  <2> HIDE DEF c
  <2> QED BY <2>1, <2>2, PostQuiet
<1>2. CASE MoveRaises(r) BY <1>2 DEF MoveRaises
<1> QED BY <1>1, <1>2

\* So does a distribution keep such queues.
LEMMA HandOutQuiet ==
  ASSUME TypeOK, NEW receivers \in SUBSET Node, NEW places \in [Node -> SUBSET Node],
         HandOut(receivers, places), NEW s \in Solver, Quiet(cmds[s])
  PROVE  Quiet(cmds'[s])
<1> DEFINE turn == IF round = {} THEN receivers ELSE round
<1>1. turn \in SUBSET Node /\ moving \in SUBSET Solver BY DEF TypeOK
<1>2. CASE receivers = {} BY <1>2 DEF HandOut
<1>3. CASE receivers # {}
  <2>1. PICK c \in turn : \E r \in moving, n \in places[c] : Move(r, n) \/ MoveRaises(r)
    BY <1>3 DEF HandOut
  <2>2. PICK r \in moving, n \in places[c] : Move(r, n) \/ MoveRaises(r) BY <2>1
  <2>3. r \in Solver /\ n \in Node BY <1>1
  <2> QED BY <2>2, <2>3, MoveQuiet
<1> QED BY <1>2, <1>3

\* While an instance is open, the server tells nobody to exit.
LEMMA ServerQuiet ==
  ASSUME SearchInv, ~Settled, Handler \/ Tick \/ Overdue, NEW s \in Solver, Quiet(cmds[s])
  PROVE  Quiet(cmds'[s])
<1> USE DEF treeVars, solverVars, jobVars, localVars, clientVars
<1>0. TypeOK BY DEF SearchInv
<1>1. CASE cmds' = cmds BY <1>1
<1>2. ASSUME NEW r \in Solver, PlaceNewcomer(r) PROVE Quiet(cmds'[s])
  <2> DEFINE c == [op |-> "SOLVE", node |-> Root]
  <2>1. c \in Cmd /\ c.op \notin {"STOP", "TERMINATE"} BY RootIsNode DEF Cmd
  <2>2. cmds' = cmds \/ Post(r, c) BY <1>2 DEF PlaceNewcomer
  <2> HIDE DEF c
  <2> QED BY <1>0, <1>1, <2>1, <2>2, PostQuiet
<1>3. CASE PlaceSolved
  <2>1. [c \in Node |-> LeastLoaded(ActiveBelow(c))] \in [Node -> SUBSET Node]
    BY <1>0 DEF TypeOK, LeastLoaded, ActiveBelow, Below
  <2>2. {c \in UnknownParts(Root) : ActiveBelow(c) # {}} \in SUBSET Node
    BY <1>0 DEF TypeOK, UnknownParts, Parts
  <2> QED BY <1>0, <1>3, <2>1, <2>2, HandOutQuiet DEF PlaceSolved
<1>4. CASE PlaceFollowers
  <2>1. [c \in Node |-> {c}] \in [Node -> SUBSET Node] OBVIOUS
  <2>2. UnknownParts(got) \in SUBSET Node BY <1>0 DEF TypeOK, UnknownParts, Parts
  <2> QED BY <1>0, <1>4, <2>1, <2>2, HandOutQuiet DEF PlaceFollowers
<1>5. CASE PlaceIdle
  <2>1. cmds' = cmds \/ \E n \in Unattempted : \E r \in idle : Move(r, n) \/ MoveRaises(r)
    BY <1>5 DEF PlaceIdle
  <2>2. Unattempted \subseteq Node /\ idle \subseteq Solver BY <1>0 DEF TypeOK, Unattempted
  <2> QED BY <1>0, <1>1, <2>1, <2>2, MoveQuiet
<1>6. CASE Rescue
  <2>1. target \in Node BY <1>0, <1>6 DEF TypeOK, Rescue, SearchInv, Whereabouts
  <2>2. cmds' = cmds \/ \E r \in idle : Move(r, target) \/ MoveRaises(r) BY <1>6 DEF Rescue
  <2>3. idle \subseteq Solver BY <1>0 DEF TypeOK
  <2> QED BY <1>0, <1>1, <2>1, <2>2, <2>3, MoveQuiet
<1>7. CASE Ask
  <2>1. [op |-> "PARTITION"] \in Cmd BY DEF Cmd
  <2>2. cmds' = cmds \/ \E r \in Solver : Post(r, [op |-> "PARTITION"]) BY <1>7 DEF Ask, At
  <2> QED BY <1>0, <1>1, <2>1, <2>2, PostQuiet
<1>8. Raise \/ StartScan \/ Scan \/ ChooseFollowers \/ Tick \/ Overdue => cmds' = cmds
  BY DEF Raise, StartScan, Scan, ScanUnsat, ScanExpired, ScanRunning, ChooseFollowers, Tick, Overdue
<1>9. ~TerminateAll /\ ~PrintVerdict BY DEF TerminateAll, PrintVerdict
<1> QED BY <1>1, <1>2, <1>3, <1>4, <1>5, <1>6, <1>7, <1>8, <1>9 DEF Handler

\* So a process whose queue is quiet, and which does not die on its own, stays up.
LEMMA PeaceStep ==
  ASSUME SearchInv, Mortal = {}, ~Settled, Peace, [Next]_vars
  PROVE  Peace'
<1> USE DEF treeVars, solverVars, jobVars, localVars, clientVars
<1>0. TypeOK BY DEF SearchInv
<1> SUFFICES ASSUME NEW s \in Solver
             PROVE  conn'[s] \in {"away", "up"} /\ Quiet(cmds'[s])
  BY DEF Peace, Quiet
<1>1. conn[s] \in {"away", "up"} /\ Quiet(cmds[s]) BY DEF Peace, Quiet
<1>2. CASE UNCHANGED <<conn, cmds>> BY <1>1, <1>2
<1>3. CASE Handler \/ Tick \/ Overdue
  <2>1. conn' = conn
    BY <1>3 DEF Handler, Raise, TerminateAll, PrintVerdict, PlaceNewcomer, StartScan, Scan, ScanUnsat,
         ScanExpired, ScanRunning, PlaceSolved, ChooseFollowers, PlaceFollowers, PlaceIdle, Rescue,
         Ask, Tick, Overdue
  <2> QED BY <1>1, <1>3, <2>1, ServerQuiet
<1>4. ASSUME NEW r \in Solver, JoinSolver(r) PROVE conn'[s] \in {"away", "up"} /\ Quiet(cmds'[s])
  BY <1>0, <1>1, <1>4 DEF JoinSolver, TypeOK
<1>5. ASSUME NEW r \in Solver, CloseSolver(r) \/ Dies(r) PROVE FALSE
  BY <1>5 DEF CloseSolver, Dies, Peace
<1>6. ASSUME NEW r \in Solver, TakeCommand(r)
      PROVE  conn'[s] \in {"away", "up"} /\ Quiet(cmds'[s])
  <2>1. /\ conn' = conn /\ cmds[r] # <<>> /\ cmds' = [cmds EXCEPT ![r] = Tail(@)]
    BY <1>6 DEF TakeCommand, Peace
  <2>2. CASE s # r BY <1>0, <1>1, <2>1, <2>2 DEF TypeOK
  <2>3. CASE s = r
    <3>1. cmds[s] \in Seq(Cmd) /\ cmds[s] # <<>> /\ cmds'[s] = Tail(cmds[s])
      BY <1>0, <2>1, <2>3 DEF TypeOK
    <3>2. /\ Len(cmds[s]) \in Nat /\ Len(Tail(cmds[s])) = Len(cmds[s]) - 1
          /\ \A i \in 1..Len(Tail(cmds[s])) : Tail(cmds[s])[i] = cmds[s][i + 1]
      BY <3>1, HeadTailProperties
    <3>3. \A i \in 1..Len(Tail(cmds[s])) : i + 1 \in 1..Len(cmds[s]) BY <3>2
    <3>4. Quiet(Tail(cmds[s])) BY <1>1, <3>2, <3>3 DEF Quiet
    <3> QED BY <1>1, <2>1, <3>1, <3>4
  <2> QED BY <2>2, <2>3
<1>7. \A r \in Solver : DropReport(r) \/ ReadStatus(r) \/ ReadParts(r) \/ Answers(r) \/ Restarts(r)
                        \/ AnswersParts(r) => UNCHANGED <<conn, cmds>>
  BY DEF DropReport, ReadStatus, ReadParts, Answers, Restarts, AnswersParts
<1>8. UNCHANGED vars => UNCHANGED <<conn, cmds>> BY DEF vars
<1> QED BY <1>2, <1>3, <1>4, <1>5, <1>6, <1>7, <1>8 DEF Next, Halted, Wakeup, Client

\* A partitioner that found no part says so as a status: SizedReports is kept.
LEMMA SizedStep ==
  ASSUME SearchInv, AllowEmpty = FALSE, SizedReports, [Next]_vars
  PROVE  SizedReports'
<1> USE DEF treeVars, solverVars, jobVars, localVars, clientVars
<1>0. reports \in [Solver -> Seq(Answer)] /\ pos \in [Solver -> Node \cup {None}]
  BY DEF SearchInv, TypeOK
<1> SUFFICES ASSUME NEW s \in Solver, NEW i \in 1..Len(reports'[s]), reports'[s][i].kind = "parts"
             PROVE  reports'[s][i].size > 0
  BY DEF SizedReports
<1>1. CASE reports'[s] = reports[s] BY <1>1 DEF SizedReports
<1>2. CASE reports[s] # <<>> /\ reports'[s] = Tail(reports[s])
  <2>1. /\ Len(reports[s]) \in Nat /\ Len(Tail(reports[s])) = Len(reports[s]) - 1
        /\ \A j \in 1..Len(Tail(reports[s])) : Tail(reports[s])[j] = reports[s][j + 1]
    BY <1>0, <1>2, HeadTailProperties
  <2>2. i + 1 \in 1..Len(reports[s]) /\ reports'[s][i] = reports[s][i + 1] BY <1>2, <2>1
  <2> QED BY <2>2 DEF SizedReports
<1>3. ASSUME NEW a \in Answer, reports'[s] = Append(reports[s], a), a.kind = "parts" => a.size > 0
      PROVE  reports'[s][i].size > 0
  <2>1. reports[s] \in Seq(Answer) BY <1>0
  <2>2. reports'[s][i] = a \/ (i \in 1..Len(reports[s]) /\ reports'[s][i] = reports[s][i])
    BY <1>3, <2>1, AppendElements
  <2> QED BY <1>3, <2>2 DEF SizedReports
<1>4. ASSUME NEW r \in Solver, Receives(r) PROVE reports'[s][i].size > 0
  <2>1. reports[r] # <<>> /\ reports' = [reports EXCEPT ![r] = Tail(@)] BY <1>4 DEF Receives
  <2> QED BY <1>0, <1>1, <1>2, <2>1
<1>5. ASSUME NEW r \in Solver, Answers(r) PROVE reports'[s][i].size > 0
  <2> DEFINE a == [kind |-> Truth(pos[r]), node |-> pos[r]]
  <2>1. a \in Answer /\ a.kind # "parts" BY <1>0, <1>5 DEF Answers, Answer, Truth
  <2>2. reports' = [reports EXCEPT ![r] = Append(@, a)] BY <1>5 DEF Answers, Report
  <2> HIDE DEF a
  <2> QED BY <1>0, <1>1, <1>3, <2>1, <2>2
<1>6. ASSUME NEW r \in Solver, AnswersParts(r) PROVE reports'[s][i].size > 0
  <2>1. \/ \E m \in 0..K : m # 0 /\ Report(r, [kind |-> "parts", node |-> pos[r], size |-> m])
        \/ Report(r, [kind |-> "sat", node |-> pos[r]])
    BY <1>6 DEF AnswersParts
  <2>2. pos[r] \in Node BY <1>0, <1>6 DEF AnswersParts
  <2>3. ASSUME NEW m \in 0..K, m # 0, Report(r, [kind |-> "parts", node |-> pos[r], size |-> m])
        PROVE  reports'[s][i].size > 0
    <3> DEFINE a == [kind |-> "parts", node |-> pos[r], size |-> m]
    <3>1. a \in Answer /\ a.size > 0 BY <2>2, <2>3, SchedulerAssumption DEF Answer
    <3>2. reports' = [reports EXCEPT ![r] = Append(@, a)] BY <2>3 DEF Report
    <3> HIDE DEF a
    <3> QED BY <1>0, <1>1, <1>3, <3>1, <3>2
  <2>4. ASSUME Report(r, [kind |-> "sat", node |-> pos[r]]) PROVE reports'[s][i].size > 0
    <3> DEFINE a == [kind |-> "sat", node |-> pos[r]]
    <3>1. a \in Answer /\ a.kind # "parts" BY <2>2 DEF Answer
    <3>2. reports' = [reports EXCEPT ![r] = Append(@, a)] BY <2>4 DEF Report
    <3> HIDE DEF a
    <3> QED BY <1>0, <1>1, <1>3, <3>1, <3>2
  <2> QED BY <2>1, <2>3, <2>4
<1>7. Handler \/ Tick \/ Overdue \/ UNCHANGED vars => reports' = reports
  BY DEF Handler, Raise, TerminateAll, PrintVerdict, PlaceNewcomer, StartScan, Scan, ScanUnsat,
         ScanExpired, ScanRunning, PlaceSolved, ChooseFollowers, PlaceFollowers, PlaceIdle, Rescue,
         Ask, Tick, Overdue, vars
<1>8. \A r \in Solver : JoinSolver(r) \/ CloseSolver(r) \/ TakeCommand(r) \/ Restarts(r) \/ Dies(r)
                        => reports' = reports
  BY DEF JoinSolver, CloseSolver, TakeCommand, Restarts, Dies
<1>9. \A r \in Solver : DropReport(r) \/ ReadStatus(r) \/ ReadParts(r) => Receives(r)
  BY DEF DropReport, ReadStatus, ReadParts
<1> QED BY <1>1, <1>4, <1>5, <1>6, <1>7, <1>8, <1>9 DEF Next, Halted, Wakeup, Client

\* The books of the server in an open instance, without its solver processes.
Books == TargetOpen /\ ProcessedIdle /\ ClosedSeen /\ PartsFresh /\ OwedFresh

\* A solver is moved to an open node that no scan is done with.
LEMMA MoveBooks ==
  ASSUME TypeOK, Books, NEW r \in Solver, NEW n \in Node, Unknown(n), n \notin processed,
         Move(r, n), UNCHANGED <<tree, status, processed, target, got>>,
         idle \ {r} \subseteq idle', moving \ {r} \subseteq moving',
         \/ UNCHANGED <<phase, scan>>
         \/ phase = "received" /\ phase' \in {"received", "ask"}
  PROVE  Books'
<1>1. at' = [at EXCEPT ![r] = n] /\ orWaiting' = orWaiting \ {r} BY DEF Move, Assign
<1>2. at'[r] = n /\ \A s \in Solver \ {r} : at'[s] = at[s] BY <1>1 DEF TypeOK
<1>3. TargetOpen' BY DEF Books, TargetOpen, Unknown
<1>4. ProcessedIdle' BY <1>2 DEF Books, ProcessedIdle
<1>5. ClosedSeen' BY <1>2 DEF Books, ClosedSeen, Unknown
<1>6. PartsFresh'
  <2>1. UnknownParts(got)' = UnknownParts(got) /\ Parts(got)' = Parts(got)
    BY DEF UnknownParts, Parts, Unknown
  <2>2. \A c \in Parts(got) : Parts(c)' = Parts(c) BY DEF Parts
  <2> QED BY <2>1, <2>2 DEF Books, PartsFresh
<1>7. OwedFresh' BY <1>1, <1>2 DEF Books, OwedFresh, TypeOK
<1> QED BY <1>3, <1>4, <1>5, <1>6, <1>7 DEF Books

\* When the tree, the nodes and the solvers stay as they are.
LEMMA SameBooks ==
  ASSUME Books, UNCHANGED <<tree, status, processed, at>>,
         target' \in {target, None}, got' \in {got, None},
         \A s \in orWaiting' : s \in orWaiting \/ at[s] \notin processed,
         idle \subseteq idle', moving \subseteq moving',
         \/ UNCHANGED <<phase, scan>>
         \/ phase' \in {"raise", "settle"}
         \/ phase \notin {"raise", "settle", "scan"}
  PROVE  Books'
<1>1. TargetOpen' BY DEF Books, TargetOpen, Unknown
<1>2. ProcessedIdle' BY DEF Books, ProcessedIdle
<1>3. ClosedSeen' BY DEF Books, ClosedSeen, Unknown
<1>4. PartsFresh'
  <2>1. UnknownParts(got)' = UnknownParts(got) \/ got' = None
    BY DEF UnknownParts, Parts, Unknown
  <2>2. got' # None => UnknownParts(got)' = UnknownParts(got) /\ Parts(got)' = Parts(got)
    BY <2>1 DEF Parts
  <2>3. \A c \in Parts(got) : Parts(c)' = Parts(c) BY DEF Parts
  <2> QED BY <2>2, <2>3 DEF Books, PartsFresh
<1>5. OwedFresh' BY DEF Books, OwedFresh
<1> QED BY <1>1, <1>2, <1>3, <1>4, <1>5 DEF Books

\* The handler ends when nothing is left to be moved.
LEMMA EndBooks ==
  ASSUME Books, EndHandler, moving = {}, phase \in {"received", "ask"},
         UNCHANGED <<tree, status, processed, at, idle>>,
         \A s \in orWaiting' : s \in orWaiting \/ at[s] \notin processed
  PROVE  Books'
<1>1. target' = None /\ got' = None /\ moving' = {} /\ phase' = "select"
  BY DEF EndHandler, ResetLocals
<1> QED BY <1>1, SameBooks

\* One turn of a distribution, where nobody is dead and there is a receiver.
LEMMA HandOutMove ==
  ASSUME TypeOK, Peace, NEW receivers, NEW places, HandOut(receivers, places), receivers # {}
  PROVE  \E c \in receivers \cup round : \E r \in moving, n \in places[c] :
           /\ Move(r, n) /\ moving' = moving \ {r}
           /\ UNCHANGED <<phase, cursor, scan, target, rescue, got>>
<1>1. \A r \in moving : ~MoveRaises(r) BY DEF Peace, MoveRaises, TypeOK
<1> QED BY <1>1 DEF HandOut

\* A scan visits its first node and goes on with those after it.
LEMMA ScanVisits ==
  ASSUME TypeOK, NEW n \in Node, Scanning(n), NEW m \in Left, m # n
  PROVE  m \in Rest(n)
<1>1. m \in scan /\ m \in Node /\ n <= m BY DEF Scanning, IsFirst, Left, TypeOK
<1> QED BY <1>1 DEF Rest, Node

\* What the scan finds of a closed node.
LEMMA ScanUnsatBooks ==
  ASSUME SearchInv, WorkInv, Books, NEW n \in Node, ScanUnsat(n)
  PROVE  Books'
<1>0. TypeOK /\ TreeShape /\ Requests /\ Whereabouts BY DEF SearchInv
<1>1. /\ phase = "scan" /\ n \in tree /\ n \in Left
      /\ status[n] = "unsat" /\ Scanning(n)
      /\ idle' = idle \ Freed(n) /\ moving' = moving \cup Freed(n)
      /\ processed' = processed \cup Closed(n) /\ scan' = Rest(n)
      /\ UNCHANGED <<tree, status, at, orWaiting, target, got, phase>>
  BY <1>0 DEF ScanUnsat, Scanning, IsFirst, Left, Whereabouts, LeaveIdle, solverVars
<1>2. ASSUME NEW s \in Solver, at[s] \in Closed(n) PROVE s \in Freed(n)
  BY <1>2 DEF Freed, At
<1>3. TargetOpen'
  <2> SUFFICES ASSUME target # None, target \in Closed(n) PROVE FALSE
    BY <1>1 DEF Books, TargetOpen, Unknown
  <2>1. target \notin partitioning /\ Unknown(target) BY <1>0 DEF Requests, Books, TargetOpen
  <2>2. n # target BY <1>1, <2>1 DEF Unknown
  <2>3. target = Parent(n) /\ n # Root BY <2>2 DEF Closed
  <2> QED BY <1>0, <1>1, <2>1, <2>3 DEF TreeShape
<1>4. ProcessedIdle' BY <1>1, <1>2 DEF Books, ProcessedIdle
<1>5. ClosedSeen'
  <2> SUFFICES ASSUME NEW s \in Solver, at[s] # None, ~Unknown(at[s]), at[s] \notin processed'
               PROVE  at[s] \in Rest(n)
    BY <1>1 DEF ClosedSeen, Unknown
  <2>1. at[s] \in scan /\ at[s] \notin processed /\ at[s] \notin Closed(n)
    BY <1>1 DEF Books, ClosedSeen
  <2>2. at[s] \in Left /\ at[s] # n BY <2>1 DEF Left, Closed
  <2> QED BY <1>0, <1>1, <2>2, ScanVisits
<1>6. PartsFresh'
  <2>1. UnknownParts(got)' = UnknownParts(got) /\ \A c : Parts(c)' = Parts(c)
    BY <1>1 DEF UnknownParts, Parts, Unknown
  <2> QED BY <1>1, <2>1 DEF Books, PartsFresh
<1>7. OwedFresh' BY <1>0, <1>1, <1>2 DEF Books, OwedFresh, TypeOK
<1> QED BY <1>3, <1>4, <1>5, <1>6, <1>7 DEF Books

\* What the scan finds of an open node.
LEMMA ScanOpenBooks ==
  ASSUME SearchInv, WorkInv, Books, NEW n \in Node, ScanExpired(n) \/ ScanRunning(n)
  PROVE  Books'
<1>0. TypeOK /\ TreeShape /\ Requests /\ Whereabouts BY DEF SearchInv
<1>1. /\ phase = "scan" /\ n \in Left /\ Unknown(n) /\ Scanning(n) /\ scan' = Rest(n)
      /\ UNCHANGED <<tree, status, at, orWaiting, got, phase, moving>>
      /\ idle \subseteq idle'
  BY <1>0 DEF ScanExpired, ScanRunning, Scanning, IsFirst, solverVars
<1>2. \/ processed' = processed
      \/ /\ processed' = processed \cup {n} /\ HasParts(n) /\ At(n) \subseteq idle'
         /\ target' = target
  BY DEF ScanExpired, ScanRunning
<1>3. target' = target \/ (target' = n /\ n \notin processed')
  BY <1>1 DEF ScanExpired, ScanRunning, Consider, Left
<1>4. TargetOpen'
  <2>1. target # None => target \notin partitioning BY <1>0 DEF Requests
  <2> QED BY <1>1, <1>2, <1>3, <2>1 DEF Books, TargetOpen, Unknown, HasParts
<1>5. ProcessedIdle' BY <1>1, <1>2 DEF Books, ProcessedIdle, At
<1>6. ClosedSeen'
  <2> SUFFICES ASSUME NEW s \in Solver, at[s] # None, ~Unknown(at[s]), at[s] \notin processed'
               PROVE  at[s] \in Rest(n)
    BY <1>1 DEF ClosedSeen, Unknown
  <2>1. at[s] \in scan /\ at[s] \notin processed /\ at[s] # n
    BY <1>1, <1>2 DEF Books, ClosedSeen
  <2>2. at[s] \in Left BY <2>1 DEF Left
  <2> QED BY <1>0, <1>1, <2>1, <2>2, ScanVisits
<1>7. PartsFresh'
  <2>1. UnknownParts(got)' = UnknownParts(got) /\ \A c : Parts(c)' = Parts(c)
    BY <1>1 DEF UnknownParts, Parts, Unknown
  <2> QED BY <1>1, <2>1 DEF Books, PartsFresh
<1>8. OwedFresh'
  <2> SUFFICES ASSUME NEW s \in orWaiting, HasParts(n), at[s] = n PROVE FALSE
    BY <1>1, <1>2 DEF Books, OwedFresh
  <2> QED BY <1>0 DEF Requests, HasParts
<1> QED BY <1>4, <1>5, <1>6, <1>7, <1>8 DEF Books

\* The parts of an open node are new, open, and have no parts themselves.
LEMMA ArrivalSplits ==
  ASSUME SearchInv, WorkInv, Books, SizedReports, NEW s \in Solver, ReadParts(s), s \in orWaiting
  PROVE  /\ at[s] \in tree /\ got' = at[s]
         /\ UnknownParts(at[s])' # {} /\ \A c \in Parts(at[s])' : Parts(c)' = {}
<1> DEFINE n == at[s]
<1>0. TypeOK /\ TreeShape /\ Requests /\ Whereabouts BY DEF SearchInv
<1>1. phase = "select" /\ Receives(s) /\ Current(s) /\ Incoming(s).kind = "parts" /\ got' = n
  BY DEF ReadParts, Receives
<1>2. n \in tree /\ n \in Node /\ Parts(n) = {} /\ n # None
  BY <1>0 DEF Requests, Whereabouts, TypeOK
<1>3. moving = {} BY <1>1 DEF WorkInv, HandlerShape
<1>4. Unknown(n)
  <2>1. n \notin processed BY <1>3 DEF Books, OwedFresh
  <2> QED BY <1>1, <1>2, <2>1 DEF Books, ClosedSeen
<1>5. Incoming(s).size > 0
  <2>1. reports[s] \in Seq(Answer) /\ reports[s] # <<>> BY <1>0, <1>1 DEF TypeOK, Receives
  <2>2. 1 \in 1..Len(reports[s]) /\ Incoming(s) = reports[s][1] BY <2>1 DEF Incoming
  <2> QED BY <1>1, <2>2 DEF SizedReports
<1> DEFINE new == {Part(n, i) : i \in 1..Incoming(s).size}
<1>6. tree' = tree \cup new /\ status' = status BY <1>4 DEF ReadParts
<1>7. 1 \in 1..Incoming(s).size
  <2>1. Incoming(s) \in Answer BY <1>1, IncomingTrue
  <2> QED BY <1>1, <1>5, <2>1, SchedulerAssumption DEF Answer
<1>8. Part(n, 1) \in tree' BY <1>6, <1>7
<1>9. Part(n, 1) \in Nat /\ Part(n, 1) > n /\ Parent(Part(n, 1)) = n
  <2>1. n \in Nat /\ 1 \in 1..K BY <1>2, SchedulerAssumption DEF Node
  <2> QED BY <2>1, PartParent
<1>10. Part(n, 1) \notin tree
  <2>1. Part(n, 1) # Root BY <1>2, <1>9 DEF Root, Node
  <2> QED BY <1>2, <1>9, <2>1 DEF Parts
<1>11. ~UNCHANGED <<tree, models>> BY <1>8, <1>10
<1>12. PICK size \in 1..K :
         LET parts == {Part(n, i) : i \in 1..size} IN
         /\ parts \subseteq Node \ {Root} /\ parts \cap tree = {} /\ parts # {}
         /\ \A c \in parts : Parent(c) = n
         /\ tree' = tree \cup parts
  BY <1>11, NewParts
<1> DEFINE parts == {Part(n, i) : i \in 1..size}
<1>13. /\ parts \subseteq Node \ {Root} /\ parts \cap tree = {} /\ parts # {}
       /\ \A c \in parts : Parent(c) = n
       /\ tree' = tree \cup parts
  BY <1>12
<1> HIDE DEF parts
<1>14. at' = at /\ Parts(n)' = parts
  <2>1. at' = at BY DEF ReadParts
  <2> QED BY <1>2, <1>13, <2>1 DEF Parts
<1>15. \A c \in parts : Unknown(c)' BY <1>0, <1>6, <1>13 DEF TreeShape, Unknown
<1>16. UnknownParts(n)' # {} BY <1>13, <1>14, <1>15 DEF UnknownParts
<1>17. \A c \in parts : Parts(c)' = {}
  <2> SUFFICES ASSUME NEW c \in parts, NEW d \in tree' \ {Root}, Parent(d) = c PROVE FALSE
    BY DEF Parts
  <2>1. CASE d \in tree BY <1>0, <1>13, <2>1 DEF TreeShape
  <2>2. CASE d \in parts BY <1>2, <1>13, <2>2
  <2> QED BY <1>13, <2>1, <2>2
<1>18. UnknownParts(at[s])' # {} /\ \A c \in Parts(at[s])' : Parts(c)' = {}
  BY <1>14, <1>16, <1>17
<1> QED BY <1>1, <1>2, <1>18

\* So the books are right when parts arrive.
LEMMA ArrivalBooks ==
  ASSUME SearchInv, WorkInv, Books, SizedReports, NEW s \in Solver, ReadParts(s)
  PROVE  Books'
<1>1. /\ UNCHANGED <<status, processed, at, idle, moving, target>>
      /\ phase' = "settle" /\ orWaiting' \subseteq orWaiting
  BY DEF ReadParts
<1>2. CASE s \in orWaiting
  <2>1. at[s]' = at[s] BY <1>1
  <2>2. PartsFresh' BY <1>2, <2>1, ArrivalSplits DEF PartsFresh
  <2>3. TargetOpen' /\ ProcessedIdle' /\ ClosedSeen' /\ OwedFresh'
    BY <1>1 DEF Books, TargetOpen, ProcessedIdle, ClosedSeen, OwedFresh, Unknown
  <2> QED BY <2>2, <2>3 DEF Books
<1>3. CASE s \notin orWaiting
  <2>1. UNCHANGED <<tree, got>> BY <1>3 DEF ReadParts
  <2> QED BY <1>1, <2>1, SameBooks
<1> QED BY <1>2, <1>3

\* And when a status arrives, or climbs: the scan that follows finds the solvers
\* it closes.
LEMMA StatusBooks ==
  ASSUME SearchInv, WorkInv, Books, Raise \/ \E s \in Solver : ReadStatus(s)
  PROVE  Books'
<1>1. /\ UNCHANGED <<tree, processed, at, idle, moving, target, got>>
      /\ phase' \in {"raise", "settle"} /\ orWaiting' \subseteq orWaiting
      /\ phase \in {"raise", "select"}
  BY DEF Raise, ReadStatus, Receives, solverVars, jobVars
<1>2. target = None /\ got = None BY <1>1 DEF WorkInv, HandlerShape
<1> QED
  BY <1>1, <1>2 DEF Books, TargetOpen, ProcessedIdle, ClosedSeen, PartsFresh, OwedFresh

\* A newcomer starts on the root.
LEMMA NewcomerBooks ==
  ASSUME SearchInv, WorkInv, Peace, Books, NEW s \in Solver, PlaceNewcomer(s)
  PROVE  Books'
<1>0. TypeOK /\ Requests BY DEF SearchInv
<1>1. /\ at[s] = None /\ conn[s] # "dead" /\ phase = "settle"
      /\ at' = [at EXCEPT ![s] = Root]
      /\ UNCHANGED <<tree, status, processed, orWaiting, idle>>
  BY DEF PlaceNewcomer, Unplaced, Peace
<1>2. UNCHANGED <<phase, moving, target, got>> BY <1>1 DEF PlaceNewcomer, localVars
<1>3. at'[s] = Root /\ \A r \in Solver \ {s} : at'[r] = at[r] BY <1>0, <1>1 DEF TypeOK
<1>4. s \notin orWaiting BY <1>0, <1>1 DEF Requests
<1>5. TargetOpen' BY <1>1, <1>2 DEF Books, TargetOpen, Unknown
<1>6. ProcessedIdle' BY <1>1, <1>2, <1>3 DEF Books, ProcessedIdle
<1>7. ClosedSeen' BY <1>1, <1>2 DEF ClosedSeen
<1>8. PartsFresh'
  <2>1. UnknownParts(got)' = UnknownParts(got) /\ \A c : Parts(c)' = Parts(c)
    BY <1>1, <1>2 DEF UnknownParts, Parts, Unknown
  <2> QED BY <1>2, <2>1 DEF Books, PartsFresh
<1>9. OwedFresh' BY <1>0, <1>1, <1>2, <1>3, <1>4 DEF Books, OwedFresh, TypeOK
<1> QED BY <1>5, <1>6, <1>7, <1>8, <1>9 DEF Books

\* The solvers freed by closed nodes go to open leaves that no scan is done with.
LEMMA PlaceSolvedMoves ==
  ASSUME SearchInv, ClimbInv, WorkInv, Peace, PlaceSolved
  PROVE  \E r \in moving, n \in Node :
           /\ Unknown(n) /\ n \notin processed /\ Move(r, n) /\ moving' = moving \ {r}
           /\ UNCHANGED <<phase, cursor, scan, target, rescue, got>>
<1> DEFINE receivers == {c \in UnknownParts(Root) : ActiveBelow(c) # {}}
           places == [c \in Node |-> LeastLoaded(ActiveBelow(c))]
<1>0. TypeOK BY DEF SearchInv
<1>1. HandOut(receivers, places) BY DEF PlaceSolved
<1>2. receivers # {} BY ReceiversExist
<1>3. receivers \cup round \subseteq Node BY <1>0 DEF TypeOK, UnknownParts, Parts
<1> HIDE DEF receivers, places
<1>4. PICK c \in receivers \cup round : \E r \in moving, n \in places[c] :
        /\ Move(r, n) /\ moving' = moving \ {r}
        /\ UNCHANGED <<phase, cursor, scan, target, rescue, got>>
  BY <1>0, <1>1, <1>2, HandOutMove
<1>5. PICK r \in moving, n \in places[c] :
        /\ Move(r, n) /\ moving' = moving \ {r}
        /\ UNCHANGED <<phase, cursor, scan, target, rescue, got>>
  BY <1>4
<1>6. n \in ActiveBelow(c) BY <1>3 DEF places, LeastLoaded
<1>7. n \in Node /\ Unknown(n) /\ n \notin processed
  BY <1>0, <1>6 DEF ActiveBelow, Active, Below, TypeOK
<1> QED BY <1>5, <1>7

\* The followers go to the parts that just arrived.
LEMMA PlaceFollowersMoves ==
  ASSUME SearchInv, WorkInv, Peace, Books, PlaceFollowers
  PROVE  \E r \in moving, n \in Node :
           /\ Unknown(n) /\ n \notin processed /\ Move(r, n) /\ moving' = moving \ {r}
           /\ UNCHANGED <<phase, cursor, scan, target, rescue, got>>
<1> DEFINE receivers == UnknownParts(got)
           places == [c \in Node |-> {c}]
<1>0. TypeOK BY DEF SearchInv
<1>1. HandOut(receivers, places) /\ phase = "received" /\ moving # {} BY DEF PlaceFollowers
<1>2. got # None /\ round \subseteq receivers BY <1>1 DEF WorkInv, HandlerShape
<1>3. receivers # {} /\ receivers \subseteq Node
  BY <1>0, <1>2 DEF Books, PartsFresh, TypeOK, UnknownParts, Parts
<1>4. \A c \in receivers : Unknown(c) /\ Parts(c) = {}
  BY <1>2 DEF Books, PartsFresh, UnknownParts
<1> HIDE DEF receivers, places
<1>5. PICK c \in receivers \cup round : \E r \in moving, n \in places[c] :
        /\ Move(r, n) /\ moving' = moving \ {r}
        /\ UNCHANGED <<phase, cursor, scan, target, rescue, got>>
  BY <1>0, <1>1, <1>3, HandOutMove
<1>6. places[c] = {c} /\ c \in Node /\ c \in receivers BY <1>2, <1>3 DEF places
<1>7. Unknown(c) /\ c \notin processed BY <1>4, <1>6 DEF WorkInv, ProcessedSplit
<1> QED BY <1>5, <1>6, <1>7

\* The steps of a distribution.
LEMMA DistributionBooks ==
  ASSUME SearchInv, ClimbInv, WorkInv, Peace, Books,
         PlaceSolved \/ PlaceFollowers \/ PlaceIdle \/ Rescue
  PROVE  Books'
<1> USE DEF treeVars, solverVars, jobVars, localVars, clientVars
<1>0. TypeOK BY DEF SearchInv
<1>1. UNCHANGED <<tree, status, processed>> BY DEF PlaceSolved, PlaceFollowers, PlaceIdle, Rescue
<1>2. \A r \in Solver : ~MoveRaises(r) BY DEF Peace, MoveRaises
<1>3. CASE PlaceSolved \/ PlaceFollowers
  <2>1. PICK r \in moving, n \in Node :
          /\ Unknown(n) /\ n \notin processed /\ Move(r, n) /\ moving' = moving \ {r}
          /\ UNCHANGED <<phase, cursor, scan, target, rescue, got>>
    BY <1>3, PlaceSolvedMoves, PlaceFollowersMoves
  <2>2. idle' = idle /\ r \in Solver BY <1>0, <1>3 DEF PlaceSolved, PlaceFollowers, TypeOK
  <2> QED BY <1>0, <1>1, <2>1, <2>2, MoveBooks
<1>4. CASE PlaceIdle
  <2>1. phase = "received" /\ moving = {} BY <1>4 DEF PlaceIdle
  <2>2. PICK n \in Unattempted :
     \/ \E s \in idle : LeaveIdle({s})
             /\ \/ Move(s, n) /\ UNCHANGED <<phase, moving, target, got>>
                \/ MoveRaises(s)
     \/ EndHandler /\ UNCHANGED <<idle, at, orWaiting>>
     \/ UNCHANGED <<idle, at, orWaiting, phase, moving, target, got>>
    BY <1>4 DEF PlaceIdle
  <2>3. n \in Node /\ Unknown(n) /\ n \notin processed /\ idle \subseteq Solver
    BY <1>0 DEF TypeOK, Unattempted, Active
  <2>4. ASSUME NEW s \in idle, LeaveIdle({s}), Move(s, n), UNCHANGED <<phase, moving, target, got>>
        PROVE  Books'
    BY <1>0, <1>1, <2>1, <2>3, <2>4, MoveBooks DEF LeaveIdle
  <2>5. CASE EndHandler /\ UNCHANGED <<idle, at, orWaiting>> BY <1>1, <2>1, <2>5, EndBooks
  <2>6. CASE UNCHANGED <<idle, at, orWaiting, phase, moving, target, got>>
    BY <1>1, <2>1, <2>6, SameBooks
  <2> QED BY <1>2, <2>2, <2>3, <2>4, <2>5, <2>6
<1>5. CASE Rescue
  <2>1. phase = "received" /\ moving = {} /\ target # None /\ idle \subseteq Solver
    BY <1>0, <1>5 DEF Rescue, Placed, SearchInv, Whereabouts, TypeOK
  <2>2. target \in Node /\ Unknown(target) /\ target \notin processed
    BY <1>0, <2>1 DEF TypeOK, Books, TargetOpen
  <2>3. \/ EndHandler /\ UNCHANGED <<idle, at, orWaiting>>
        \/ phase' = "ask" /\ UNCHANGED <<idle, at, orWaiting, moving, target, got>>
        \/ \E s \in idle : /\ Move(s, target) /\ LeaveIdle({s}) /\ phase' = "ask"
                           /\ UNCHANGED <<moving, target, got>>
        \/ \E s \in idle : MoveRaises(s)
    BY <1>5 DEF Rescue
  <2>4. CASE EndHandler /\ UNCHANGED <<idle, at, orWaiting>> BY <1>1, <2>1, <2>4, EndBooks
  <2>5. CASE phase' = "ask" /\ UNCHANGED <<idle, at, orWaiting, moving, target, got>>
    BY <1>1, <2>1, <2>5, SameBooks
  <2>6. ASSUME NEW s \in idle, Move(s, target), LeaveIdle({s}), phase' = "ask",
               UNCHANGED <<moving, target, got>>
        PROVE  Books'
    BY <1>0, <1>1, <2>1, <2>2, <2>6, MoveBooks DEF LeaveIdle
  <2> QED BY <1>2, <2>1, <2>3, <2>4, <2>5, <2>6
<1> QED BY <1>3, <1>4, <1>5

\* Every step of an open instance keeps the books right.
LEMMA BooksStep ==
  ASSUME SearchInv, ClimbInv, WorkInv, ~Settled, Peace, SizedReports, Books, [Next]_vars
  PROVE  Books'
<1> USE DEF treeVars, solverVars, jobVars, localVars, clientVars
<1>0. TypeOK BY DEF SearchInv
<1>1. CASE StartScan
  <2>1. /\ phase' = "scan" /\ scan' = tree
        /\ UNCHANGED <<tree, status, processed, at, target, got, orWaiting, idle, moving>>
    BY <1>1 DEF StartScan
  <2>2. \A s \in Solver : at[s] # None => at[s] \in tree BY DEF SearchInv, Whereabouts
  <2>3. ClosedSeen' BY <2>1, <2>2 DEF ClosedSeen
  <2>4. PartsFresh'
    <3>1. UnknownParts(got)' = UnknownParts(got) /\ \A c : Parts(c)' = Parts(c)
      BY <2>1 DEF UnknownParts, Parts, Unknown
    <3> QED BY <2>1, <3>1 DEF Books, PartsFresh
  <2> QED BY <2>1, <2>3, <2>4
    DEF Books, TargetOpen, ProcessedIdle, OwedFresh, Unknown
<1>2. CASE ChooseFollowers
  <2>1. /\ phase = "scan" /\ Left = {} /\ moving = {} /\ phase' = "received"
        /\ UNCHANGED <<tree, status, processed, at, target, got, orWaiting, idle>>
    BY <1>2 DEF ChooseFollowers, ScanDone
  <2>2. ClosedSeen' BY <2>1 DEF Books, ClosedSeen, Left, Unknown
  <2>3. PartsFresh'
    <3>1. UnknownParts(got)' = UnknownParts(got) /\ \A c : Parts(c)' = Parts(c)
      BY <2>1 DEF UnknownParts, Parts, Unknown
    <3> QED BY <2>1, <3>1 DEF Books, PartsFresh
  <2> QED BY <2>1, <2>2, <2>3
    DEF Books, TargetOpen, ProcessedIdle, OwedFresh, Unknown
<1>3. CASE Ask
  <2>1. /\ phase \in {"received", "ask"} /\ moving = {} /\ EndHandler
        /\ UNCHANGED <<tree, status, processed, at, idle>>
    BY <1>3 DEF Ask, Placed, WorkInv, HandlerShape
  <2>2. \A s \in orWaiting' : s \in orWaiting \/ (target # None /\ at[s] = target)
    BY <1>3 DEF Ask, At
  <2>3. \A s \in orWaiting' : s \in orWaiting \/ at[s] \notin processed
    BY <2>2 DEF Books, TargetOpen
  <2> QED BY <2>1, <2>3, EndBooks
<1>4. CASE Tick \/ Overdue
  BY <1>4, SameBooks DEF Tick, Overdue
<1>5. ASSUME NEW s \in Solver, JoinSolver(s) \/ DropReport(s) PROVE Books'
  <2>1. /\ UNCHANGED <<tree, status, processed, at, target, got, orWaiting, idle, moving, scan>>
        /\ phase' \in {"select", "settle"} /\ phase = "select"
    BY <1>5 DEF JoinSolver, DropReport, Receives
  <2> QED BY <2>1, SameBooks
<1>6. ASSUME NEW s \in Solver, Client(s) PROVE Books'
  <2>1. UNCHANGED <<tree, status, processed, at, target, got, orWaiting, idle, moving, scan, phase>>
    BY <1>6 DEF Client, TakeCommand, Answers, Restarts, AnswersParts, Dies
  <2> QED BY <2>1, SameBooks
<1>7. CASE UNCHANGED vars
  <2>1. UNCHANGED <<tree, status, processed, at, target, got, orWaiting, idle, moving, scan, phase>>
    BY <1>7 DEF vars
  <2> QED BY <2>1, SameBooks
<1>8. \A s \in Solver : ~CloseSolver(s) BY DEF CloseSolver, Peace
<1>9. ~TerminateAll /\ ~PrintVerdict BY DEF TerminateAll, PrintVerdict
<1> QED
  BY <1>1, <1>2, <1>3, <1>4, <1>5, <1>6, <1>7, <1>8, <1>9, NewcomerBooks, ScanUnsatBooks,
     ScanOpenBooks, DistributionBooks, StatusBooks, ArrivalBooks
  DEF Next, Handler, Halted, Scan, Wakeup

\* Where no process dies on its own and no report of parts is empty, CalmInv is an
\* invariant.
THEOREM CalmInvariant ==
  ASSUME Mortal = {}, AllowEmpty = FALSE
  PROVE  Spec => []CalmInv
<1>1. Init => CalmInv
  <2> SUFFICES ASSUME Init PROVE CalmInv OBVIOUS
  <2>1. SizedReports BY DEF Init, SizedReports
  <2>2. Peace BY DEF Init, Peace
  <2>3. TargetOpen /\ ProcessedIdle /\ PartsFresh /\ OwedFresh
    BY DEF Init, TargetOpen, ProcessedIdle, PartsFresh, OwedFresh
  <2>4. ClosedSeen BY RootIsNode DEF Init, ClosedSeen, Unknown
  <2> QED BY <2>1, <2>2, <2>3, <2>4 DEF CalmInv
<1>2. SearchInv /\ ClimbInv /\ WorkInv /\ CalmInv /\ [Next]_vars => CalmInv'
  <2> SUFFICES ASSUME SearchInv, ClimbInv, WorkInv, CalmInv, [Next]_vars PROVE CalmInv' OBVIOUS
  <2>1. SizedReports' BY SizedStep DEF CalmInv
  <2>2. ASSUME ~Settled' PROVE Peace' /\ Books'
    <3>1. ~Settled BY <2>2, Grown
    <3> QED BY <3>1, PeaceStep, BooksStep DEF CalmInv, Books
  <2> QED BY <2>1, <2>2 DEF CalmInv, Books
<1> QED BY <1>1, <1>2, SearchInvariant, ClimbInvariant, WorkInvariant, PTL DEF Spec

\* No handler hangs, then: neither loop of entrust is entered without a receiver.
THEOREM NoHandlerHangs ==
  ASSUME Mortal = {}, AllowEmpty = FALSE
  PROVE  Spec => []LoopsEnd
<1>1. Init => LoopsEnd BY DEF Init, LoopsEnd
<1>2. SearchInv /\ ClimbInv /\ WorkInv /\ CalmInv /\ LoopsEnd /\ [Next]_vars => LoopsEnd'
  <2> SUFFICES ASSUME SearchInv, ClimbInv, WorkInv, CalmInv, phase # "hung", [Next]_vars
               PROVE  phase' # "hung"
    BY DEF LoopsEnd
  <2> USE DEF treeVars, solverVars, jobVars, localVars, clientVars
  <2>1. CASE PlaceSolved \/ PlaceFollowers
    <3>1. ~Settled BY <2>1 DEF WorkInv, HandlerShape, PlaceSolved, PlaceFollowers, ScanDone
    <3>2. Peace /\ Books BY <3>1 DEF CalmInv, Books
    <3>3. phase' = phase BY <2>1, <3>2, PlaceSolvedMoves, PlaceFollowersMoves
    <3> QED BY <3>3
  <2>2. Raise \/ TerminateAll \/ PrintVerdict \/ StartScan \/ ChooseFollowers \/ Tick \/ Overdue
        \/ PlaceIdle \/ Rescue \/ Ask \/ Scan \/ UNCHANGED vars
        => phase' # "hung"
    BY DEF Raise, TerminateAll, PrintVerdict, StartScan, ChooseFollowers, Tick, Overdue, PlaceIdle,
           Rescue, Ask, Scan, ScanUnsat, ScanExpired, ScanRunning, vars, EndHandler, MoveRaises
  <2>3. \A s \in Solver : PlaceNewcomer(s) \/ Wakeup(s) \/ Client(s) => phase' # "hung"
    BY DEF PlaceNewcomer, Wakeup, JoinSolver, CloseSolver, DropReport, ReadStatus, ReadParts, Client,
           TakeCommand, Answers, Restarts, AnswersParts, Dies, EndHandler
  <2> QED BY <2>1, <2>2, <2>3 DEF Next, Handler, Halted
<1> QED
  BY <1>1, <1>2, SearchInvariant, ClimbInvariant, WorkInvariant, CalmInvariant, PTL DEF Spec

\* Between two handlers of an open instance, a solver that is not listed idle works
\* on an open node: however its node was closed, a scan saw it and moved the solver.
THEOREM SolversWorkOnOpenNodes ==
  ASSUME Mortal = {}, AllowEmpty = FALSE
  PROVE  Spec => []BusyIsUseful
<1>1. SearchInv /\ WorkInv /\ CalmInv => BusyIsUseful
  <2> SUFFICES ASSUME SearchInv, WorkInv, CalmInv, Running,
                      NEW s \in Solver \ idle, at[s] # None, ~Unknown(at[s])
               PROVE  FALSE
    BY DEF BusyIsUseful
  <2>1. phase = "select" /\ ~Settled /\ Unknown(Root) BY DEF Running, Between, Settled
  <2>2. moving = {} BY <2>1 DEF WorkInv, HandlerShape
  <2>3. at[s] \in processed BY <2>1 DEF CalmInv, ClosedSeen
  <2>4. at[s] = Root BY <2>1, <2>2, <2>3 DEF CalmInv, ProcessedIdle
  <2> QED BY <2>1, <2>4
<1> QED BY <1>1, SearchInvariant, WorkInvariant, CalmInvariant, PTL

-----------------------------------------------------------------------------
(* OwnInv: who owes the parts of a node, and who is idle.  Here            *)
(* config.portfolio_min is set: without it all solvers follow the parts of *)
(* one node, those that owe parts elsewhere included.                      *)

\* A solver is moved that owes no parts, or owes them for a node that needs none.
LEMMA MoveOwn ==
  ASSUME TypeOK, Owed, MovingFree, IdleSeen, NEW r \in Solver, NEW n \in Node, Move(r, n),
         UNCHANGED <<tree, status, partitioning, timedOut, processed>>,
         r \notin orWaiting \/ ~Unknown(at[r]) \/ Parts(at[r]) # {},
         r \notin idle', idle' \subseteq idle, moving' \subseteq moving \ {r},
         phase' = "scan" => phase = "scan"
  PROVE  Owed' /\ MovingFree' /\ IdleSeen'
<1>1. at' = [at EXCEPT ![r] = n] /\ orWaiting' = orWaiting \ {r} BY DEF Move, Assign
<1>2. \A s \in Solver \ {r} : at'[s] = at[s] BY <1>1 DEF TypeOK
<1>3. \A m : Parts(m)' = Parts(m) /\ Unknown(m)' = Unknown(m) BY DEF Parts, Unknown
<1>4. Owed'
  <2> SUFFICES ASSUME NEW m \in partitioning, Unknown(m), Parts(m) = {}
               PROVE  \E s \in orWaiting' : at'[s] = m
    BY <1>3 DEF Owed
  <2>1. PICK s \in orWaiting : at[s] = m BY DEF Owed
  <2> QED BY <1>1, <1>2, <2>1 DEF TypeOK
<1>5. MovingFree' BY <1>2, <1>3 DEF MovingFree, TypeOK
<1>6. IdleSeen' BY <1>2 DEF IdleSeen, TypeOK
<1> QED BY <1>4, <1>5, <1>6

\* When the nodes and the solvers stay as they are.
LEMMA SameOwn ==
  ASSUME Owed, MovingFree, IdleSeen,
         UNCHANGED <<tree, status, partitioning, timedOut, processed, at, idle, orWaiting>>,
         moving' = {} \/ (moving' = moving /\ (phase' = "scan" => phase = "scan"))
  PROVE  Owed' /\ MovingFree' /\ IdleSeen'
<1>1. \A m : Parts(m)' = Parts(m) /\ Unknown(m)' = Unknown(m) BY DEF Parts, Unknown
<1>2. Owed' BY <1>1 DEF Owed
<1>3. MovingFree' BY <1>1 DEF MovingFree
<1> QED BY <1>2, <1>3 DEF IdleSeen

\* What a scan frees is closed or has parts, and what it finds idle timed out.
LEMMA ScanOwn ==
  ASSUME SearchInv, Owed, MovingFree, IdleSeen, NEW n \in Node,
         ScanUnsat(n) \/ ScanExpired(n) \/ ScanRunning(n)
  PROVE  Owed' /\ MovingFree' /\ IdleSeen'
<1>0. TypeOK /\ TreeShape /\ Whereabouts BY DEF SearchInv
<1>1. /\ UNCHANGED <<tree, status, partitioning, at, orWaiting, phase>> /\ phase = "scan"
      /\ n \in tree /\ n \notin processed
  BY <1>0 DEF ScanUnsat, ScanExpired, ScanRunning, Scanning, IsFirst, Left, Whereabouts, solverVars
<1>2. \A m : Parts(m)' = Parts(m) /\ Unknown(m)' = Unknown(m) BY <1>1 DEF Parts, Unknown
<1>3. Owed' BY <1>1, <1>2 DEF Owed
<1>4. CASE ScanUnsat(n)
  <2>1. /\ ~Unknown(n) /\ timedOut' = timedOut
        /\ idle' = idle \ Freed(n) /\ moving' = moving \cup Freed(n)
        /\ processed' = processed \cup Closed(n)
    BY <1>4 DEF ScanUnsat, LeaveIdle, Unknown
  <2>2. ASSUME NEW m \in Closed(n) PROVE m \in Node /\ (~Unknown(m) \/ Parts(m) # {})
    <3>1. n # Root => n \in Parts(Parent(n)) /\ Parent(n) \in Node
      BY <1>1, ParentBelow DEF Parts
    <3> QED BY <2>1, <2>2, <3>1 DEF Closed
  <2>3. \A s \in Freed(n) : at[s] \in Closed(n) BY DEF Freed, At
  <2>4. MovingFree'
    <3> SUFFICES ASSUME NEW s \in moving \cup Freed(n)
                 PROVE  /\ at[s] # None /\ s \notin idle \ Freed(n)
                        /\ ~Unknown(at[s]) \/ Parts(at[s]) # {}
                        /\ at[s] \in processed \cup Closed(n)
      BY <1>1, <1>2, <2>1 DEF MovingFree
    <3>1. CASE s \in Freed(n) BY <2>2, <2>3, <3>1, RootIsNode
    <3>2. CASE s \in moving BY <1>1, <3>2 DEF MovingFree
    <3> QED BY <3>1, <3>2
  <2>5. IdleSeen' BY <1>1, <2>1 DEF IdleSeen
  <2> QED BY <1>3, <2>4, <2>5
<1>5. CASE ScanExpired(n) \/ ScanRunning(n)
  <2>1. /\ moving' = moving /\ idle' \subseteq idle \cup At(n)
        /\ timedOut \subseteq timedOut' /\ processed \subseteq processed'
        /\ idle' = idle \/ n \in timedOut' \cup processed'
    BY <1>5 DEF ScanExpired, ScanRunning
  <2>2. \A s \in moving : s \notin At(n) BY <1>1 DEF MovingFree, At
  <2>3. MovingFree' BY <1>1, <1>2, <2>1, <2>2 DEF MovingFree
  <2>4. IdleSeen'
    <3> SUFFICES ASSUME NEW s \in idle' PROVE at[s] \in timedOut' \cup processed'
      BY <1>1 DEF IdleSeen
    <3> QED BY <2>1 DEF IdleSeen, At
  <2> QED BY <1>3, <2>3, <2>4
<1> QED BY <1>4, <1>5

\* The solvers that follow new parts come from the path of the node that has them.
LEMMA FollowersOwn ==
  ASSUME SearchInv, WorkInv, Books, PortfolioMin # 0, Owed, MovingFree, IdleSeen, ChooseFollowers
  PROVE  Owed' /\ MovingFree' /\ IdleSeen'
<1>0. TypeOK /\ TreeShape BY DEF SearchInv
<1>1. /\ phase' = "received" /\ moving = {}
      /\ UNCHANGED <<tree, status, partitioning, timedOut, processed, at, idle, orWaiting>>
  BY DEF ChooseFollowers, ScanDone, treeVars, solverVars, jobVars
<1>2. CASE got = None BY <1>1, <1>2, SameOwn DEF ChooseFollowers
<1>3. CASE got # None
  <2>1. MayFollow(got, moving') BY <1>3 DEF ChooseFollowers
  <2>2. got \in tree /\ Parts(got) # {}
    <3>1. PICK c \in Parts(got) : TRUE BY <1>3 DEF Books, PartsFresh, UnknownParts
    <3> QED BY <1>0, <3>1 DEF Parts, TreeShape
  <2>3. ASSUME NEW s \in moving' PROVE at[s] # None /\ s \notin idle /\ Parts(at[s]) # {}
    <3>1. PICK a \in Path[got] : at[s] = a BY <2>1, <2>3 DEF MayFollow
    <3>2. a \in Node /\ (a = got \/ Parts(a) # {}) BY <1>0, <2>2, PathSplit DEF Path, TypeOK
    <3>3. s \notin idle BY <2>1, <2>3 DEF MayFollow
    <3> QED BY <2>2, <3>1, <3>2, <3>3, RootIsNode
  <2>4. \A m : Parts(m)' = Parts(m) /\ Unknown(m)' = Unknown(m) BY <1>1 DEF Parts, Unknown
  <2>5. MovingFree' BY <1>1, <2>3, <2>4 DEF MovingFree
  <2> QED BY <1>1, <2>4, <2>5 DEF Owed, IdleSeen
<1> QED BY <1>2, <1>3

\* A distribution moves no solver whose parts are still needed.
LEMMA DistributionOwn ==
  ASSUME SearchInv, ClimbInv, WorkInv, Peace, Books, Owed, MovingFree, IdleSeen,
         PlaceSolved \/ PlaceFollowers \/ PlaceIdle \/ Rescue
  PROVE  Owed' /\ MovingFree' /\ IdleSeen'
<1>0. TypeOK /\ TreeShape /\ Requests /\ Whereabouts BY DEF SearchInv
<1>1. UNCHANGED <<tree, status, partitioning, timedOut, processed>>
  BY DEF PlaceSolved, PlaceFollowers, PlaceIdle, Rescue
<1>2. \A r \in Solver : ~MoveRaises(r) BY DEF Peace, MoveRaises
<1>3. CASE PlaceSolved \/ PlaceFollowers
  <2>1. PICK r \in moving, n \in Node :
          /\ Unknown(n) /\ n \notin processed /\ Move(r, n) /\ moving' = moving \ {r}
          /\ UNCHANGED <<phase, cursor, scan, target, rescue, got>>
    BY <1>3, PlaceSolvedMoves, PlaceFollowersMoves
  <2>2. idle' = idle /\ r \in Solver
    BY <1>0, <1>3 DEF PlaceSolved, PlaceFollowers, jobVars, TypeOK
  <2>3. r \notin idle /\ (~Unknown(at[r]) \/ Parts(at[r]) # {}) BY DEF MovingFree
  <2> QED BY <1>0, <1>1, <2>1, <2>2, <2>3, MoveOwn
<1>4. CASE PlaceIdle
  <2>1. phase = "received" /\ moving = {} BY <1>4 DEF PlaceIdle
  <2>2. PICK n \in Unattempted :
     \/ \E s \in idle : LeaveIdle({s}) /\ Fits(s, n)
             /\ \/ Move(s, n) /\ UNCHANGED <<phase, moving>>
                \/ MoveRaises(s)
     \/ EndHandler /\ UNCHANGED <<idle, at, orWaiting>>
     \/ UNCHANGED <<idle, at, orWaiting, phase, moving>>
    BY <1>4 DEF PlaceIdle
  <2>3. /\ n \in Node /\ n \in tree /\ n \notin partitioning /\ idle \subseteq Solver
    BY <1>0 DEF TypeOK, Unattempted, Whereabouts
  <2>4. ASSUME NEW s \in idle, LeaveIdle({s}), Fits(s, n), Move(s, n), UNCHANGED <<phase, moving>>
        PROVE  Owed' /\ MovingFree' /\ IdleSeen'
    <3>1. s \in orWaiting => Parts(at[s]) # {}
      <4> SUFFICES ASSUME s \in orWaiting PROVE Parts(at[s]) # {} OBVIOUS
      <4>1. at[s] \in partitioning BY <1>0 DEF Requests
      <4>2. at[s] \in Path[n] /\ at[s] # n BY <2>3, <2>4, <4>1 DEF Fits, IsAncestor
      <4> QED BY <1>0, <2>3, <4>2, PathSplit
    <3>2. idle' = idle \ {s} BY <2>4 DEF LeaveIdle
    <3> QED BY <1>0, <1>1, <2>1, <2>3, <2>4, <3>1, <3>2, MoveOwn
  <2>5. CASE EndHandler /\ UNCHANGED <<idle, at, orWaiting>>
    BY <1>1, <2>5, SameOwn DEF EndHandler, ResetLocals
  <2>6. CASE UNCHANGED <<idle, at, orWaiting, phase, moving>> BY <1>1, <2>6, SameOwn
  <2> QED BY <1>2, <2>2, <2>3, <2>4, <2>5, <2>6
<1>5. CASE Rescue
  <2>1. phase = "received" /\ moving = {} /\ target \in Node /\ idle \subseteq Solver
    BY <1>0, <1>5 DEF Rescue, Placed, Whereabouts, TypeOK
  <2>2. \/ EndHandler /\ UNCHANGED <<idle, at, orWaiting>>
        \/ phase' = "ask" /\ UNCHANGED <<idle, at, orWaiting, moving>>
        \/ \E s \in idle : /\ s \notin orWaiting /\ Move(s, target) /\ LeaveIdle({s})
                           /\ phase' = "ask" /\ moving' = moving
        \/ \E s \in idle : MoveRaises(s)
    BY <1>5 DEF Rescue, localVars
  <2>3. CASE EndHandler /\ UNCHANGED <<idle, at, orWaiting>>
    BY <1>1, <2>3, SameOwn DEF EndHandler, ResetLocals
  <2>4. CASE phase' = "ask" /\ UNCHANGED <<idle, at, orWaiting, moving>>
    BY <1>1, <2>4, SameOwn
  <2>5. ASSUME NEW s \in idle, s \notin orWaiting, Move(s, target), LeaveIdle({s}),
               phase' = "ask", moving' = moving
        PROVE  Owed' /\ MovingFree' /\ IdleSeen'
    BY <1>0, <1>1, <2>1, <2>5, MoveOwn DEF LeaveIdle
  <2> QED BY <1>2, <2>1, <2>2, <2>3, <2>4, <2>5
<1> QED BY <1>3, <1>4, <1>5

\* What a report settles is no longer owed.
LEMMA ReportOwn ==
  ASSUME SearchInv, WorkInv, Books, SizedReports, Owed, MovingFree, IdleSeen, [Next]_vars,
         Raise \/ \E s \in Solver : ReadStatus(s) \/ ReadParts(s)
  PROVE  Owed' /\ MovingFree' /\ IdleSeen'
<1>0. TypeOK /\ TypeOK' /\ Whereabouts BY TypeStep DEF SearchInv
<1>1. /\ UNCHANGED <<partitioning, timedOut, processed, at, idle, moving>>
      /\ phase \in {"select", "raise"}
  BY DEF Raise, ReadStatus, ReadParts, Receives, solverVars, jobVars
<1>2. moving' = {} BY <1>1 DEF WorkInv, HandlerShape
<1>3. Owed'
  <2> SUFFICES ASSUME NEW n \in partitioning, Unknown(n)', Parts(n)' = {}
               PROVE  \E r \in orWaiting' : at[r] = n
    BY <1>1 DEF Owed
  <2>1. n \in Node /\ Unknown(n) /\ Parts(n) = {} BY <1>0, Grown DEF TypeOK
  <2>2. PICK r \in orWaiting : at[r] = n BY <2>1 DEF Owed
  <2>3. CASE Raise BY <2>2, <2>3 DEF Raise, solverVars
  <2>4. ASSUME NEW s \in Solver, ReadStatus(s) PROVE r \in orWaiting'
    <3>1. orWaiting' = orWaiting \ {s} /\ Incoming(s).kind # "parts"
          /\ \A m \in Node : m = at[s] => status'[m] = Incoming(s).kind
      BY <2>4 DEF ReadStatus
    <3>2. Receives(s) BY <2>4 DEF ReadStatus
    <3>3. Incoming(s).kind # "unknown" BY <3>2, IncomingTrue DEF Answer
    <3>4. n # at[s] BY <2>1, <3>1, <3>3 DEF Unknown
    <3> QED BY <2>2, <3>1, <3>4
  <2>5. ASSUME NEW s \in Solver, ReadParts(s) PROVE r \in orWaiting'
    <3>1. CASE s \notin orWaiting BY <2>2, <2>5, <3>1 DEF ReadParts
    <3>2. CASE s \in orWaiting
      <4>1. orWaiting' = orWaiting \ {s} BY <2>5, <3>2 DEF ReadParts
      <4>2. UnknownParts(at[s])' # {} BY <2>5, <3>2, ArrivalSplits
      <4>3. at[s]' = at[s] BY <1>1
      <4>4. n # at[s] BY <4>2, <4>3 DEF UnknownParts
      <4> QED BY <2>2, <4>1, <4>4
    <3> QED BY <3>1, <3>2
  <2> QED BY <2>2, <2>3, <2>4, <2>5
<1>4. MovingFree' BY <1>2 DEF MovingFree
<1>5. IdleSeen' BY <1>1 DEF IdleSeen
<1> QED BY <1>3, <1>4, <1>5

\* Every step of an open instance keeps OwnInv.
LEMMA OwnStep ==
  ASSUME SearchInv, ClimbInv, WorkInv, PortfolioMin # 0, ~Settled, Peace, SizedReports, Books,
         Owed, MovingFree, IdleSeen, [Next]_vars
  PROVE  Owed' /\ MovingFree' /\ IdleSeen'
<1> USE DEF treeVars, solverVars, jobVars, localVars, clientVars
<1>0. TypeOK /\ Requests BY DEF SearchInv
<1>1. CASE StartScan
  <2>1. /\ moving' = {}
        /\ UNCHANGED <<tree, status, partitioning, timedOut, processed, at, idle, orWaiting>>
    BY <1>1 DEF StartScan, WorkInv, HandlerShape
  <2> QED BY <2>1, SameOwn
<1>2. CASE Ask
  <2>1. /\ moving' = {} /\ UNCHANGED <<tree, status, timedOut, processed, at, idle>>
        /\ \/ UNCHANGED <<orWaiting, partitioning>>
           \/ \E s \in Solver : /\ at[s] = target /\ orWaiting' = orWaiting \cup {s}
                                /\ partitioning' = partitioning \cup {target}
    BY <1>2 DEF Ask, At, EndHandler, ResetLocals
  <2>2. \A m : Parts(m)' = Parts(m) /\ Unknown(m)' = Unknown(m) BY <2>1 DEF Parts, Unknown
  <2>3. Owed' BY <2>1, <2>2 DEF Owed
  <2> QED BY <2>1, <2>3 DEF MovingFree, IdleSeen
<1>3. ASSUME NEW s \in Solver, PlaceNewcomer(s) PROVE Owed' /\ MovingFree' /\ IdleSeen'
  <2>1. /\ at[s] = None /\ phase = "settle" /\ at' = [at EXCEPT ![s] = Root]
        /\ UNCHANGED <<tree, status, partitioning, timedOut, processed, idle, orWaiting>>
    BY <1>3 DEF PlaceNewcomer, Unplaced
  <2>2. moving' = {}
    BY <1>3, <2>1 DEF PlaceNewcomer, WorkInv, HandlerShape, EndHandler, ResetLocals
  <2>3. s \notin orWaiting /\ s \notin idle
    BY <1>0, <2>1, RootIsNode DEF Requests, IdleSeen, TypeOK
  <2>4. \A r \in Solver \ {s} : at'[r] = at[r] BY <1>0, <2>1 DEF TypeOK
  <2>5. \A m : Parts(m)' = Parts(m) /\ Unknown(m)' = Unknown(m) BY <2>1 DEF Parts, Unknown
  <2>6. Owed'
    <3> SUFFICES ASSUME NEW n \in partitioning, Unknown(n), Parts(n) = {}
                 PROVE  \E r \in orWaiting : at'[r] = n
      BY <2>1, <2>5 DEF Owed
    <3>1. PICK r \in orWaiting : at[r] = n BY DEF Owed
    <3> QED BY <1>0, <2>3, <2>4, <3>1 DEF TypeOK
  <2>7. IdleSeen' BY <1>0, <2>1, <2>3, <2>4 DEF IdleSeen, TypeOK
  <2> QED BY <2>2, <2>6, <2>7 DEF MovingFree
<1>4. CASE Tick \/ Overdue
  <2>1. /\ UNCHANGED <<tree, status, partitioning, timedOut, processed, at, idle, orWaiting, moving>>
        /\ phase' # "scan"
    BY <1>4 DEF Tick, Overdue
  <2> QED BY <2>1, SameOwn
<1>5. ASSUME NEW s \in Solver, JoinSolver(s) \/ DropReport(s) \/ Client(s)
      PROVE  Owed' /\ MovingFree' /\ IdleSeen'
  <2>1. /\ UNCHANGED <<tree, status, partitioning, timedOut, processed, at, idle, orWaiting, moving>>
        /\ phase' = "scan" => phase = "scan"
    BY <1>5 DEF JoinSolver, DropReport, Client, TakeCommand, Answers, Restarts, AnswersParts, Dies
  <2> QED BY <2>1, SameOwn
<1>6. CASE UNCHANGED vars
  <2>1. /\ UNCHANGED <<tree, status, partitioning, timedOut, processed, at, idle, orWaiting, moving>>
        /\ phase' = "scan" => phase = "scan"
    BY <1>6 DEF vars
  <2> QED BY <2>1, SameOwn
<1>7. \A s \in Solver : ~CloseSolver(s) BY DEF CloseSolver, Peace
<1>8. ~TerminateAll /\ ~PrintVerdict BY DEF TerminateAll, PrintVerdict
<1>9. Scan => Owed' /\ MovingFree' /\ IdleSeen' BY ScanOwn DEF Scan
<1> QED
  BY <1>1, <1>2, <1>3, <1>4, <1>5, <1>6, <1>7, <1>8, <1>9, FollowersOwn, DistributionOwn, ReportOwn
  DEF Next, Handler, Halted, Wakeup

\* Where, besides, config.portfolio_min is set, OwnInv is an invariant.
THEOREM OwnInvariant ==
  ASSUME Mortal = {}, AllowEmpty = FALSE, PortfolioMin # 0
  PROVE  Spec => []OwnInv
<1>1. Init => OwnInv
  <2> SUFFICES ASSUME Init PROVE Owed /\ MovingFree /\ IdleSeen BY DEF OwnInv
  <2> QED BY DEF Init, Owed, MovingFree, IdleSeen
<1>2. SearchInv /\ ClimbInv /\ WorkInv /\ CalmInv /\ OwnInv /\ [Next]_vars => OwnInv'
  <2> SUFFICES ASSUME SearchInv, ClimbInv, WorkInv, CalmInv, OwnInv, [Next]_vars, ~Settled'
               PROVE  Owed' /\ MovingFree' /\ IdleSeen'
    BY DEF OwnInv
  <2>1. ~Settled BY Grown
  <2> QED BY <2>1, OwnStep DEF CalmInv, Books, OwnInv
<1> QED
  BY <1>1, <1>2, SearchInvariant, ClimbInvariant, WorkInvariant, CalmInvariant, PTL DEF Spec

\* A node asked for parts that is open and has none has a solver that owes them, so
\* that its request is never forgotten, and nobody owes parts elsewhere or twice.
THEOREM PartsAreOwed ==
  ASSUME Mortal = {}, AllowEmpty = FALSE, PortfolioMin # 0
  PROVE  Spec => []PartitionOwned
<1>1. SearchInv /\ OwnInv => PartitionOwned
  <2> SUFFICES ASSUME SearchInv, OwnInv, Running PROVE PartitionOwned BY DEF PartitionOwned
  <2>1. Owed /\ Requests BY DEF Running, OwnInv, Settled, SearchInv
  <2>2. \A n \in tree : (n \in partitioning /\ Unknown(n) /\ Parts(n) = {}) =>
          \E s \in orWaiting : at[s] = n
    BY <2>1 DEF Owed
  <2>3. \A s, r \in orWaiting : at[s] \in partitioning /\ (s # r => at[s] # at[r])
    BY <2>1 DEF Requests
  <2> QED BY <2>2, <2>3 DEF PartitionOwned
<1> QED BY <1>1, SearchInvariant, OwnInvariant, PTL

\* A solver is listed idle only where a scan found its node timed out or done with.
THEOREM IdleForAReason ==
  ASSUME Mortal = {}, AllowEmpty = FALSE, PortfolioMin # 0
  PROVE  Spec => []IdleIsTimedOut
<1>1. OwnInv => IdleIsTimedOut BY DEF Running, OwnInv, Settled, IdleSeen, IdleIsTimedOut
<1> QED BY <1>1, OwnInvariant, PTL

\* The three parts together: the inductive strengthening that the runs check.
THEOREM ProgressInvariant ==
  ASSUME Mortal = {}, AllowEmpty = FALSE, PortfolioMin # 0
  PROVE  Spec => []ProgressInv
<1>1. WorkInv /\ CalmInv /\ OwnInv => ProgressInv BY DEF ProgressInv
<1> QED BY <1>1, WorkInvariant, CalmInvariant, OwnInvariant, PTL

=============================================================================
