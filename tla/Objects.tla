------------------------------ MODULE Objects -------------------------------
(***************************************************************************)
(* What programs hold handles to: files and pipes, the objects of the      *)
(* object manager, and processes.  They are tables of their own.           *)
(***************************************************************************)
EXTENDS Files

CONSTANTS
  Object, Type, ObjectName, LongPath, Cut, Handles, Entries, MaxRefs, NULL, Careful

VARIABLES header, handles, namespace, held

O == INSTANCE ObjectManager WITH Name <- ObjectName

ASSUME ObjectsAssumption == O!ObjectManagerAssumption

CONSTANTS
  AnyThread, Main, Process, Owner, Started, Waiters, Waitable, Enders, Creators, Killers,
  Targets, RegSize, CountModulus

VARIABLES
  current, state, ready, born, registry, count, exited, waiters, WaitNext, waitsFor, local,
  killed

P == INSTANCE Processes WITH Thread <- AnyThread

-----------------------------------------------------------------------------
(* What ObjectManager and Processes promise, by the same names.            *)

\* Every reference is accounted for.
RefsAccounted == O!RefsAccounted

\* A dead object has no name.
NamesOfLiving == O!NamesOfLiving

\* The death of one object takes no name from another.
NamesKept == O!NamesKept

\* A wait returns only when the process has exited.
WaitMeansExited == P!WaitMeansExited

\* A process that nobody has killed has exited only when its threads have ended.
ExitedMeansEnded == P!ExitedMeansEnded
=============================================================================
