------------------------------ MODULE MCEvents ------------------------------
(***************************************************************************)
(* The events for TLC: MCEvents.cfg gives the constants their values.      *)
(***************************************************************************)
EXTENDS Events
=============================================================================
