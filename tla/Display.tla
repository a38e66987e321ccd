------------------------------ MODULE Display ------------------------------
(***************************************************************************)
(* The visual tree (config.visualize_tree): the server collects the reports *)
(* it passes on in a dictionary (collectData_vTree) and draws it in the     *)
(* handler that ends the instance, before the verdict (render_vTree).       *)
(*                                                                         *)
(* Moves is extended with the way back: what the processes report, which   *)
(* of it Solver.read passes on, and what is drawn.  How far a status       *)
(* climbs is a choice here (it is decided in Scheduler), and so is the time *)
(* when an instance ends that is not solved.                                *)
(***************************************************************************)
EXTENDS Moves

CONSTANTS
  Log,         \* config.enableLog: the processes report moves
  MaxReports,  \* bound: reports under way from a process
  MaxRank      \* bound: statuses that are drawn

ASSUME DisplayAssumption == Log \in BOOLEAN /\ {MaxReports, MaxRank} \subseteq Nat

VARIABLES
  out,         \* per process: reports under way
  forked,      \* per process: its partitioner runs
  asked,       \* the nodes flagged partitioning
  waiting,     \* per solver: or_waiting is not empty
  solved,      \* the nodes with a status
  keys,        \* the keys of node_dict, in their order
  entry,       \* node_dict
  rank,        \* self.rank
  stale        \* ghost: a report was drawn that came after the end of its instance

wayBack == <<out, forked, asked, waiting, solved>>
drawing == <<keys, entry, rank, stale>>
displayVars == <<vars, wayBack, drawing>>

DisplayInit ==
  /\ Init /\ out = [s \in Solver |-> <<>>] /\ forked = [s \in Solver |-> FALSE]
  /\ asked = {} /\ waiting = [s \in Solver |-> FALSE] /\ solved = {}
  /\ keys = <<>> /\ entry = <<>> /\ rank = 0 /\ stale = FALSE

-----------------------------------------------------------------------------
(* The picture. *)

Blank == [colour |-> "white", rank |-> 0, parts |-> <<>>]
Key(k) == \E i \in 1..Len(keys) : keys[i] = k
With(ks, k) == IF \E i \in 1..Len(ks) : ks[i] = k THEN ks ELSE Append(ks, k)

\* collectData_vTree of a report about node to; the text of a move names where it came
\* from, and for all other reports from is the root.  parts is the number it brings.
Mut_Ranked(says) == rank
Ranked(says) == IF says = "status" THEN rank + 1 ELSE rank
Collect(says, from, to, parts) ==
  /\ keys' = With(With(keys, to), from) /\ rank' = Ranked(says)
  /\ entry' = [k \in {keys'[i] : i \in 1..Len(keys')} |->
       LET e == IF Key(k) THEN entry[k] ELSE Blank IN
       IF k # to THEN e
       ELSE [colour |-> IF says = "status" THEN "green" ELSE "none", rank |-> rank',
             parts |-> IF parts = 0 THEN e.parts ELSE Append(e.parts, parts)]]

\* render_vTree: a key needs an alias, which the root has and a key that is drawn gives
\* to its parts.  A key without one raises, now and whenever the end is tried again.
PartsDrawn(k) ==
  UNION {{k \o <<j - 1, x>> : x \in 0..entry[k].parts[j] - 1} : j \in 1..Len(entry[k].parts)}
Drawable ==
  \A i \in 1..Len(keys) :
    keys[i] = <<>> \/ \E j \in 1..i - 1 : keys[i] \in PartsDrawn(keys[j])
Highlighted(k) ==
  /\ entry[k].colour = "green"
  /\ \A i \in 1..Len(keys) : entry[keys[i]].colour = "green" => entry[keys[i]].rank <= entry[k].rank

-----------------------------------------------------------------------------
(* The server sends. *)

\* The root has a status: the handler goes on to the end of the instance.
Ending == root # None /\ <<>> \in solved
Entrusts == ~Ending /\ UNCHANGED <<out, forked, drawing>>

\* A name is used again only when nothing about its first use is under way.
Forgotten(i) ==
  \A s \in Solver : /\ at[s] # None => at[s][1] # i
                    /\ \A k \in 1..Len(chan[s]) : chan[s][k].of # i
                    /\ \A k \in 1..Len(out[s]) : out[s][k].of # i
Begins(i) ==
  /\ Parse(i) /\ Forgotten(i) /\ UNCHANGED <<out, forked, drawing>>
  /\ asked' = {} /\ solved' = {} /\ UNCHANGED waiting
Starts(s) == Solve(s) /\ Entrusts /\ UNCHANGED <<asked, waiting, solved>>
Goes(s) ==
  /\ \E n \in tree \ solved : Move(s, n)
  /\ waiting' = [waiting EXCEPT ![s] = FALSE]
  /\ Entrusts /\ UNCHANGED <<asked, solved>>
Asks(s) ==
  /\ Ask(s) /\ node[s] \notin asked \cup solved
  /\ asked' = asked \cup {node[s]} /\ waiting' = [waiting EXCEPT ![s] = TRUE]
  /\ Entrusts /\ UNCHANGED solved

\* The end: the picture is drawn and cleared first.
Mut_Cleared == rank' = 0 /\ UNCHANGED <<keys, entry>>
Cleared == rank' = 0 /\ keys' = <<>> /\ entry' = <<>>
Ends ==
  /\ End /\ Drawable /\ Cleared /\ stale' = FALSE
  /\ asked' = {} /\ solved' = {} /\ waiting' = [s \in Solver |-> FALSE]
  /\ UNCHANGED <<out, forked>>

-----------------------------------------------------------------------------
(* The processes report. *)

Says(s, w, from, to) ==
  /\ Len(out[s]) < MaxReports
  /\ out' = [out EXCEPT ![s] = Append(@, [says |-> w, of |-> at'[s][1], from |-> from, to |-> to])]

\* It reports the start of SOLVE, and a move with the header of the command, whose
\* NODE is the node it comes from.  A move kills the partitioner.
Obeys(s) ==
  /\ Obey(s)
  /\ LET m == Head(chan[s]) IN
       /\ forked' = [forked EXCEPT ![s] = m.op = "partition"]
       /\ CASE m.op = "solve" -> Says(s, "start", <<>>, m.to)
            [] m.op = "incremental" /\ Log -> Says(s, "move", m.from, m.to)
            [] OTHER -> UNCHANGED out
  /\ UNCHANGED <<asked, waiting, solved, drawing>>

Finds(s) ==
  /\ at[s] # None /\ UNCHANGED vars /\ Says(s, "status", at[s][2], at[s][2])
  /\ UNCHANGED <<forked, asked, waiting, solved, drawing>>
Splinters(s) ==
  /\ forked[s] /\ UNCHANGED vars /\ Says(s, "partitions", at[s][2], at[s][2])
  /\ forked' = [forked EXCEPT ![s] = FALSE]
  /\ UNCHANGED <<asked, waiting, solved, drawing>>

\* A process is lost, with what is not read yet of its reports.
Leaves(s) ==
  /\ Replace(s) /\ out' = [out EXCEPT ![s] = <<>>] /\ UNCHANGED <<asked, solved, drawing>>
  /\ forked' = [forked EXCEPT ![s] = FALSE] /\ waiting' = [waiting EXCEPT ![s] = FALSE]

-----------------------------------------------------------------------------
(* The server reads. *)

\* NODE of a report is its node, and for a move where it came from.
Accepts(s, m) == node[s] = None \/ (m.of = root /\ m.from = node[s])
Reads(s) ==
  /\ ~(Ending /\ Drawable) /\ out[s] # <<>>
  /\ out' = [out EXCEPT ![s] = Tail(@)] /\ UNCHANGED <<forked, asked>>
Passes(s, w) ==
  /\ Reads(s) /\ Head(out[s]).says \in w /\ Accepts(s, Head(out[s]))
  /\ stale' = (stale \/ node[s] = None)
Drops(s) ==
  /\ Reads(s) /\ ~Accepts(s, Head(out[s])) /\ UNCHANGED <<vars, waiting, solved, drawing>>

\* A status: sat climbs to the root, unsat closes all below the node it climbs to.
Closes(n) ==
  \/ solved' = solved \cup {m \in tree : IsAncestor(m, n)}
  \/ \E a \in tree : IsAncestor(a, n) /\ solved' = solved \cup {m \in tree : IsAncestor(a, m)}
ReadStatus(s) ==
  /\ Passes(s, {"status"}) /\ rank < MaxRank
  /\ Collect("status", <<>>, Head(out[s]).to, 0)
  /\ IF node[s] = None THEN UNCHANGED solved ELSE Closes(node[s])
  /\ waiting' = [waiting EXCEPT ![s] = FALSE]
  /\ UNCHANGED vars

\* The parts that were asked for; those of a solved node are dropped again, but drawn.
ReadParts(s) ==
  /\ Passes(s, {"partitions"}) /\ waiting[s]
  /\ LET to == Head(out[s]).to IN
       \/ node[s] \notin solved /\ Expand(node[s])
          /\ Collect("parts", <<>>, to, Cardinality(tree' \ tree))
       \/ \E c \in 0..K : (c = 0 \/ node[s] \in solved) /\ UNCHANGED vars
                          /\ Collect("parts", <<>>, to, c)
  /\ waiting' = [waiting EXCEPT ![s] = FALSE] /\ UNCHANGED solved

\* Other reports change the picture only.
ReadOther(s) ==
  /\ Passes(s, {"start", "move", "partitions"}) /\ UNCHANGED <<vars, waiting, solved>>
  /\ LET m == Head(out[s]) IN
       CASE m.says = "move" -> Collect("move", m.from, m.to, 0)
         [] m.says = "start" -> Collect("start", <<>>, m.to, 0)
         [] OTHER -> ~waiting[s] /\ Collect("other", <<>>, m.to, 0)

DisplayNext ==
  \/ \E i \in Instance : Begins(i)
  \/ \E s \in Solver : \/ Starts(s) \/ Goes(s) \/ Asks(s)
                       \/ Obeys(s) \/ Finds(s) \/ Splinters(s) \/ Leaves(s)
                       \/ Drops(s) \/ ReadStatus(s) \/ ReadParts(s) \/ ReadOther(s)
  \/ Ends
DisplaySpec == DisplayInit /\ [][DisplayNext]_displayVars

-----------------------------------------------------------------------------
(* Properties. *)

\* The picture of an instance can be drawn and shows its tree: every key is a node of it,
\* and an open node has the parts that are drawn (collectData_vTree, render_vTree);
\* unless a report came after the end of the instance before, when its solver had no
\* node and Solver.read passed it on.
PictureTrue ==
  ~stale =>
    /\ Drawable
    /\ \A i \in 1..Len(keys) :
         /\ keys[i] \in tree
         /\ kind.type = "smt" /\ keys[i] \notin solved =>
              PartsDrawn(keys[i]) = {m \in tree : Len(m) = Len(keys[i]) + 2 /\ IsAncestor(keys[i], m)}

\* The picture of an instance that a report decided highlights the node of that report,
\* and no other (lines 716-729, 766): what comes between would take its colour.  Here too
\* a report after the end of the instance before is left out: it may keep the picture
\* from being drawn until others are read, and these take the colour of the decider.
DeciderShown ==
  (Ending /\ ~stale) =>
    \E i \in 1..Len(keys) :
      /\ Highlighted(keys[i]) /\ entry[keys[i]].rank = rank
      /\ \A j \in 1..Len(keys) : Highlighted(keys[j]) => j = i
=============================================================================
