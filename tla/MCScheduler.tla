---------------------------- MODULE MCScheduler ----------------------------
(***************************************************************************)
(* Instances of the scheduler for TLC.                                     *)
(***************************************************************************)
EXTENDS SchedulerRefinement, TLC

\* The workers are interchangeable; Main is not.
WorkerSymmetry == Permutations(Thread \ {Main})
=============================================================================
