------------------------------- MODULE Search -------------------------------
(***************************************************************************)
(* What the SMTS server promises about one instance, whatever its          *)
(* scheduling does: it splits an open problem into parts that cover it,    *)
(* records facts that are true and never takes one back, and announces the *)
(* recorded fact about the whole instance, or "unknown" when the time is   *)
(* up.                                                                     *)
(***************************************************************************)
EXTENDS Integers

CONSTANTS K, MaxNode

Node == 0..MaxNode
Root == 0

VARIABLES tree, models, status, late, verdict
vars == <<tree, models, status, late, verdict>>

Init ==
  /\ tree = {Root}
  /\ models \in {{}, {Root}}
  /\ status = [n \in Node |-> "unknown"]
  /\ late = FALSE
  /\ verdict = "none"

\* An open node gets its parts, one of them satisfiable iff the node is.
Split(n) ==
  /\ n \in tree /\ status[n] = "unknown"
  /\ \E m \in 1..K :
       LET new == {K * n + i : i \in 1..m} IN
       /\ new \subseteq Node /\ new \cap tree = {}
       /\ tree' = tree \cup new
       /\ \E yes \in SUBSET new : /\ n \in models <=> yes # {}
                                 /\ models' = models \cup yes
  /\ UNCHANGED <<status, late, verdict>>

\* Some open nodes are found out to be what they are.
Learn ==
  /\ status' \in [Node -> {"unknown", "sat", "unsat"}]
  /\ \A n \in Node : status'[n] # status[n] =>
       /\ n \in tree /\ status[n] = "unknown"
       /\ status'[n] = IF n \in models THEN "sat" ELSE "unsat"
  /\ UNCHANGED <<tree, models, late, verdict>>

Expire == late' = TRUE /\ UNCHANGED <<tree, models, status, verdict>>

Announce ==
  /\ verdict \in {"none", "unknown"}
  /\ status[Root] = "unknown" => late
  /\ verdict' = status[Root]
  /\ UNCHANGED <<tree, models, status, late>>

Next == (\E n \in Node : Split(n)) \/ Learn \/ Expire \/ Announce

Spec == Init /\ [][Next]_vars
=============================================================================
