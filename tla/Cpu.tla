-------------------------------- MODULE Cpu --------------------------------
(***************************************************************************)
(* The CPU as the code outside ps/scheduler.cpp meets it: one thread runs, *)
(* some are ready, and with interrupts on any ready thread may take over.  *)
(* It is the Dispatcher without queues and priorities, so what holds here  *)
(* holds for any order the ready queues produce.  The modules that extend  *)
(* it make one action of what the code does with interrupts off, and one   *)
(* of each access to shared state it makes with interrupts on.             *)
(***************************************************************************)
EXTENDS Integers, Sequences, FiniteSets

CONSTANTS
  Thread,   \* the threads, Main included
  Main      \* the boot thread, ending as the idle loop: it never blocks

ASSUME CpuAssumption == Main \in Thread /\ IsFiniteSet(Thread)

VARIABLES
  current,  \* s_current
  state,    \* KThread.State
  ready     \* the threads in the ready queues

cpuVars == <<current, state, ready>>

CpuState == {"READY", "RUNNING", "BLOCKED", "TERMINATED"}

CpuTypeOK ==
  /\ current \in Thread
  /\ state \in [Thread -> CpuState]
  /\ ready \subseteq Thread

\* All threads have been added, and Main is running.
CpuInit ==
  /\ current = Main
  /\ state = [t \in Thread |-> IF t = Main THEN "RUNNING" ELSE "READY"]
  /\ ready = Thread \ {Main}

(***************************************************************************)
(* ScheduleInternal popping t, from a tick or from Schedule().  A thread   *)
(* that has blocked is always followed by such a step: between its sti and *)
(* Schedule's cli it touches nothing that another thread may read.         *)
(***************************************************************************)
SwitchTo(t) ==
  /\ t \in ready
  /\ current' = t
  /\ ready' = (ready \ {t}) \cup (IF state[current] = "RUNNING" THEN {current} ELSE {})
  /\ state' = [state EXCEPT ![current] = IF @ = "RUNNING" THEN "READY" ELSE @,
                            ![t] = "RUNNING"]

\* BlockCurrentThread.
Block ==
  /\ state' = [state EXCEPT ![current] = "BLOCKED"]
  /\ UNCHANGED <<current, ready>>

\* Mutant of Unblock: only a BLOCKED thread is queued.
UnblockBlocked(t) ==
  /\ IF state[t] # "BLOCKED"
     THEN UNCHANGED <<state, ready>>
     ELSE /\ state' = [state EXCEPT ![t] = "READY"]
          /\ ready' = ready \cup {t}
  /\ UNCHANGED current

\* UnblockThread(t).
Unblock(t) ==
  /\ IF state[t] = "TERMINATED"
     THEN UNCHANGED <<state, ready>>
     ELSE /\ state' = [state EXCEPT ![t] = "READY"]
          /\ ready' = ready \cup {t}
  /\ UNCHANGED current

\* t has the CPU and has not given it up.
Running(t) == current = t /\ state[t] = "RUNNING"
=============================================================================
