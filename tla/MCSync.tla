------------------------------- MODULE MCSync -------------------------------
(***************************************************************************)
(* The mutants and the semaphore for TLC.  One of them at a time is        *)
(* examined, the one in `use`; the other stays as it begins.               *)
(***************************************************************************)
EXTENDS Sync

VARIABLE use

sVars == <<count, list, waiting, pc, rel, sum, released, granted, clean>>

SyncInit ==
  /\ use \in {"mutants", "semaphore"}
  /\ Init /\ S!Init
  /\ count = 0
  /\ use = "semaphore" => \A m \in Mutant : owner[m] = NULL

SyncNext ==
  /\ UNCHANGED use
  /\ \/ use = "mutants" /\ Next /\ UNCHANGED sVars
     \/ use = "semaphore" /\ S!Next /\ UNCHANGED mutantVars

\* The fairness of Mutants, for its own behaviours.
SyncFairness ==
  /\ \A t \in Thread : WF_vars(use = "mutants" /\ Switch(t))
  /\ \A t \in Thread, m \in Mutant :
       /\ SF_vars(use = "mutants" /\ ReleaseMutant(t, m))
       /\ SF_vars(use = "mutants" /\ depth[m] = 1 /\ ReleaseMutant(t, m))

SyncSpec == SyncInit /\ [][SyncNext]_<<use, vars, sVars>> /\ SyncFairness

=============================================================================
