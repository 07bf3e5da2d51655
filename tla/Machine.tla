------------------------------- MODULE Machine -------------------------------
(***************************************************************************)
(* What the machine gives to everything above it: physical pages, and the  *)
(* way into the kernel and back to ring 3.                                 *)
(***************************************************************************)
EXTENDS PhysicalMemory

CONSTANTS Thread, Space, ProcessOf, Place, NULL, Raisers

VARIABLES
  current, pc, user, on, stack, iflag, inService, rsp0, scratch, space, gs, handler, pending, due

K == INSTANCE KernelEntry

ASSUME EntryAssumption == K!KernelEntryAssumption

-----------------------------------------------------------------------------
(* What KernelEntry promises, by the same names.                           *)

\* No two threads are on one kernel stack.
KernelStackPrivate == K!KernelStackPrivate

\* A thread goes on in ring 3 where it was interrupted.
ResumesWhereItLeft == K!ResumesWhereItLeft
=============================================================================
