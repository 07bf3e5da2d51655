---------------------------- MODULE Dispatcher -----------------------------
(***************************************************************************)
(* What the scheduler promises, with no lists, ticks, quanta or sleeping:  *)
(* threads become ready and join the tail of the queue of their priority;  *)
(* a switch gives the CPU to the head of the highest non-empty queue, and  *)
(* the thread that had it goes to the tail of its own queue unless it gave *)
(* the CPU up.  A thread is in at most one queue, at most once, and never  *)
(* while it has the CPU; a finished thread never comes back.               *)
(***************************************************************************)
EXTENDS Integers, Sequences, FiniteSets

CONSTANTS Thread, Main, Priority, LowPriority, UsualPriority

VARIABLES
  running,    \* the thread that has the CPU
  willing,    \* whether it still wants it
  rank,       \* the priority of each thread
  queues,     \* priority -> the threads that wait for the CPU
  finished    \* the threads that have ended

dvars == <<running, willing, rank, queues, finished>>

Members(s) == {s[i] : i \in DOMAIN s}

Queued == UNION {Members(queues[p]) : p \in Priority}

DispatcherInit ==
  /\ running = Main
  /\ willing = TRUE
  /\ rank = [t \in Thread |-> IF t = Main THEN LowPriority ELSE UsualPriority]
  /\ queues = [p \in Priority |-> <<>>]
  /\ finished = {}

\* A new thread, a sleeper or a waiter becomes ready.
BecomeReady(t) ==
  /\ t \notin Queued \cup finished \cup {running}
  /\ queues' = [queues EXCEPT ![rank[t]] = Append(@, t)]
  /\ UNCHANGED <<running, willing, rank, finished>>

\* The running thread will wait, sleep, or (if it ends) never run again.
GiveUp(ends) ==
  /\ willing
  /\ willing' = FALSE
  /\ finished' = IF ends THEN finished \cup {running} ELSE finished
  /\ UNCHANGED <<running, rank, queues>>

SetRank(p) ==
  /\ rank' = [rank EXCEPT ![running] = p]
  /\ UNCHANGED <<running, willing, queues, finished>>

Dispatch ==
  \E p \in Priority :
    /\ queues[p] # <<>>
    /\ \A r \in Priority : r > p => queues[r] = <<>>
    /\ LET rest == [queues EXCEPT ![p] = Tail(@)]
       IN queues' = IF willing
                    THEN [rest EXCEPT ![rank[running]] = Append(@, running)]
                    ELSE rest
    /\ running' = Head(queues[p])
    /\ willing' = TRUE
    /\ UNCHANGED <<rank, finished>>

DispatcherNext ==
  \/ \E t \in Thread : BecomeReady(t)
  \/ \E ends \in BOOLEAN : GiveUp(ends)
  \/ \E p \in Priority : SetRank(p)
  \/ Dispatch

DispatcherSpec == DispatcherInit /\ [][DispatcherNext]_dvars
=============================================================================
