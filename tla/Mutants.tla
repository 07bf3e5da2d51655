------------------------------ MODULE Mutants ------------------------------
(***************************************************************************)
(* The mutants of the system call layer (syscall.cpp): an owner, a depth   *)
(* of recursive acquisitions, and a FIFO list of waiting threads, to whose *)
(* head a release hands the mutant over.  Waits ignore their timeout.      *)
(*                                                                         *)
(* Threads may also end while they own a mutant or wait for one: nothing   *)
(* releases it for them or takes them out of the list.                     *)
(***************************************************************************)
EXTENDS Cpu

CONSTANTS
  Mutant,     \* the mutants in use
  NULL,       \* the null pointer
  Mortal,     \* the threads that KillProcess may hit or that end by themselves
  MaxDepth    \* bound: no thread acquires a mutant more often

ASSUME MutantsAssumption ==
  /\ NULL \notin Thread /\ NULL \notin Mutant
  /\ Mortal \subseteq Thread \ {Main}
  /\ MaxDepth \in Nat \ {0}

VARIABLES
  owner,      \* KMutant.owner
  depth,      \* KMutant.depth
  queue,      \* the list from KMutant.head to KMutant.tail
  waitsFor,   \* the mutant a thread has blocked on and not come back from
  holds       \* waits a thread has made on a mutant, less its releases

mutantVars == <<owner, depth, queue, waitsFor, holds>>

vars == <<cpuVars, mutantVars>>

\* NtCreateMutant, owned by its creator or by no one.
Init ==
  /\ CpuInit
  /\ owner \in [Mutant -> {NULL, Main}]
  /\ depth = [m \in Mutant |-> IF owner[m] = NULL THEN 0 ELSE 1]
  /\ queue = [m \in Mutant |-> <<>>]
  /\ waitsFor = [t \in Thread |-> NULL]
  /\ holds = [t \in Thread |-> [m \in Mutant |-> IF owner[m] = t THEN 1 ELSE 0]]

\* A thread that comes back from its wait takes the mutant for acquired.
Switch(t) ==
  /\ SwitchTo(t)
  /\ waitsFor' = [waitsFor EXCEPT ![t] = NULL]
  /\ UNCHANGED <<owner, depth, queue, holds>>

\* NtWaitForSingleObject on a mutant.
WaitFree(t, m) ==
  /\ owner[m] = NULL
  /\ owner' = [owner EXCEPT ![m] = t]
  /\ depth' = [depth EXCEPT ![m] = 1]
  /\ UNCHANGED <<cpuVars, queue, waitsFor>>

WaitOwned(t, m) ==
  /\ owner[m] = t
  /\ depth' = [depth EXCEPT ![m] = @ + 1]
  /\ UNCHANGED <<cpuVars, owner, queue, waitsFor>>

\* Mutant of WaitBlocked: the thread joins the head of the list.
WaitBlockedFirst(t, m) ==
  /\ owner[m] \notin {NULL, t}
  /\ t # Main
  /\ queue' = [queue EXCEPT ![m] = <<t>> \o @]
  /\ waitsFor' = [waitsFor EXCEPT ![t] = m]
  /\ Block
  /\ UNCHANGED <<owner, depth>>

WaitBlocked(t, m) ==
  /\ owner[m] \notin {NULL, t}
  /\ t # Main
  /\ queue' = [queue EXCEPT ![m] = Append(@, t)]
  /\ waitsFor' = [waitsFor EXCEPT ![t] = m]
  /\ Block
  /\ UNCHANGED <<owner, depth>>

WaitSingle(t, m) ==
  /\ Running(t)
  /\ holds[t][m] < MaxDepth
  /\ WaitFree(t, m) \/ WaitOwned(t, m) \/ WaitBlocked(t, m)
  /\ holds' = [holds EXCEPT ![t][m] = @ + 1]

\* Mutants of HandOver: the old owner stays; the mutant is freed and the
\* woken thread left to find it so.
HandOverInName(m) ==
  /\ queue[m] # <<>>
  /\ depth' = [depth EXCEPT ![m] = 1]
  /\ queue' = [queue EXCEPT ![m] = Tail(@)]
  /\ Unblock(Head(queue[m]))
  /\ UNCHANGED owner

HandOverFreed(m) ==
  /\ queue[m] # <<>>
  /\ owner' = [owner EXCEPT ![m] = NULL]
  /\ depth' = [depth EXCEPT ![m] = 0]
  /\ queue' = [queue EXCEPT ![m] = Tail(@)]
  /\ Unblock(Head(queue[m]))

\* The last release of a mutant with waiters gives it to the first of them.
HandOver(m) ==
  /\ queue[m] # <<>>
  /\ owner' = [owner EXCEPT ![m] = Head(queue[m])]
  /\ depth' = [depth EXCEPT ![m] = 1]
  /\ queue' = [queue EXCEPT ![m] = Tail(@)]
  /\ Unblock(Head(queue[m]))

\* Mutant of MayRelease: anyone may release an owned mutant.
MayReleaseOwned(t, m) == owner[m] # NULL

\* STATUS_MUTANT_NOT_OWNED for everyone but the owner, checked with interrupts on.
MayRelease(t, m) == owner[m] = t

\* NtReleaseMutant.
ReleaseMutant(t, m) ==
  /\ Running(t)
  /\ MayRelease(t, m)
  /\ \/ /\ depth[m] > 1
        /\ depth' = [depth EXCEPT ![m] = @ - 1]
        /\ UNCHANGED <<cpuVars, owner, queue>>
     \/ /\ depth[m] = 1
        /\ HandOver(m)
     \/ /\ depth[m] = 1
        /\ queue[m] = <<>>
        /\ owner' = [owner EXCEPT ![m] = NULL]
        /\ depth' = [depth EXCEPT ![m] = 0]
        /\ UNCHANGED <<cpuVars, queue>>
  /\ holds' = [holds EXCEPT ![t][m] = @ - 1]
  /\ UNCHANGED waitsFor

\* A thread ends, by NtTerminateThread or by a KillProcess of another thread.
End(t) ==
  /\ t \in Mortal
  /\ state[t] # "TERMINATED"
  /\ state' = [state EXCEPT ![t] = "TERMINATED"]
  /\ UNCHANGED <<current, ready, mutantVars>>

Next ==
  \/ \E t \in Thread : Switch(t) \/ End(t)
  \/ \E t \in Thread, m \in Mutant : WaitSingle(t, m) \/ ReleaseMutant(t, m)

Spec == Init /\ [][Next]_vars

(***************************************************************************)
(* Ready threads get their turn (RoundRobin in Scheduler).  The rest is    *)
(* assumed of the programs: they release what they own, and do not go on   *)
(* acquiring and releasing recursively for ever without a last release.    *)
(***************************************************************************)
Fairness ==
  /\ \A t \in Thread : WF_vars(Switch(t))
  /\ \A t \in Thread, m \in Mutant :
       /\ SF_vars(ReleaseMutant(t, m))
       /\ SF_vars(depth[m] = 1 /\ ReleaseMutant(t, m))

FairSpec == Spec /\ Fairness
-----------------------------------------------------------------------------
(* Properties.                                                             *)

\* Every variable holds a value of its kind.
TypeOK ==
  /\ CpuTypeOK
  /\ owner \in [Mutant -> Thread \cup {NULL}]
  /\ depth \in [Mutant -> Nat]
  /\ queue \in [Mutant -> Seq(Thread)]
  /\ waitsFor \in [Thread -> Mutant \cup {NULL}]
  /\ holds \in [Thread -> [Mutant -> Nat]]

\* t has come back from a wait on m and not released it as often.
Inside(t, m) == holds[t][m] > 0 /\ waitsFor[t] # m

\* Two threads never both believe that they own a mutant, also when threads
\* end while they own it or wait for it.
MutualExclusion ==
  \A m \in Mutant : \A t, u \in Thread : Inside(t, m) /\ Inside(u, m) => t = u

\* The owner's depth is the number of releases it owes, so that its last
\* release, and no earlier one, gives the mutant away; and a mutant that
\* someone waits for is owned.
DepthOwed ==
  \A m \in Mutant :
    /\ owner[m] # NULL => depth[m] > 0 /\ depth[m] = holds[owner[m]][m]
    /\ owner[m] = NULL => queue[m] = <<>> /\ \A t \in Thread : holds[t][m] = 0

\* A thread that waits for a mutant will own it, unless a thread ends: a mutant
\* whose owner has ended stays owned.
WaiterServed ==
  \A t \in Thread, m \in Mutant :
    waitsFor[t] = m ~> Inside(t, m) \/ \E u \in Thread : state[u] = "TERMINATED"
=============================================================================
