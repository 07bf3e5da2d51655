-------------------------------- MODULE Sync --------------------------------
(***************************************************************************)
(* The synchronization objects of the system call layer that keep lists of *)
(* waiting threads: the mutants, and a semaphore, over the same threads    *)
(* and the same CPU.                                                       *)
(***************************************************************************)
EXTENDS Mutants

CONSTANTS Releasers, Amounts, MaxCount, MaxUnits

VARIABLES count, list, waiting, pc, rel, sum, released, granted, clean

S == INSTANCE Semaphores WITH queue <- list

ASSUME SemaphoreAssumption == S!SemaphoresAssumption

-----------------------------------------------------------------------------
(* What Semaphores promises, by the same names.                            *)

\* Units are neither made nor lost.
UnitsConserved == S!UnitsConserved

\* No one waits while there are units.
NoWaiterWithUnits == S!NoWaiterWithUnits
=============================================================================
