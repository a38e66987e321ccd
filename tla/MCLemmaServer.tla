--------------------------- MODULE MCLemmaServer ---------------------------
(* The lemma server and two solver processes, for TLC. *)
EXTENDS LemmaServer, TLC

Symmetry == Permutations(Client)
=============================================================================
