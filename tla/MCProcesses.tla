---------------------------- MODULE MCProcesses ----------------------------
(***************************************************************************)
(* Instances of the processes for TLC: Main and two threads w and x in the *)
(* System process, a program App with threads among a, b, u and v, and     *)
(* another program Other with one thread o.                                *)
(***************************************************************************)
EXTENDS Processes

CONSTANTS System, App, Other, w, x, a, b, u, v, o

MCOwner ==
  [t \in Thread |-> IF t \in {a, b, u, v} THEN App ELSE IF t = o THEN Other ELSE System]
=============================================================================
