--------------------------- MODULE MCSolverClient ---------------------------
(* Small instances of the solver process for TLC.                          *)
EXTENDS SolverClientProps
=============================================================================
