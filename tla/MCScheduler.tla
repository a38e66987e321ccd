---------------------------- MODULE MCScheduler ----------------------------
(* Small instances of the scheduler for TLC.                               *)
EXTENDS SchedulerProps, TLC

SolverSymmetry == Permutations(Solver)
=============================================================================
