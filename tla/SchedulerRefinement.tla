------------------------ MODULE SchedulerRefinement ------------------------
(***************************************************************************)
(* The ready queues read as sequences, and the scheduler shown to be an    *)
(* implementation of the Dispatcher: pushing, popping and unlinking nodes  *)
(* of three circular lists amounts to one FIFO queue per priority.         *)
(***************************************************************************)
EXTENDS Scheduler

(***************************************************************************)
(* The threads on the queue of p, by following Next from its sentinel (for *)
(* as many steps as there are threads, in case the list is no circle).     *)
(***************************************************************************)
QueueOf(q, p) ==
  LET at[i \in 1 .. Cardinality(Thread)] ==
        LET n == IF i = 1 THEN p ELSE at[i - 1]
        IN IF n \in Thread \/ i = 1 THEN q[n].nxt ELSE n
  IN [i \in {j \in 1 .. Cardinality(Thread) : at[j] \in Thread} |-> at[i]]

\* A thread that is linked can be reached from the sentinel of one queue, once:
\* no push or pop cuts a part of a queue off.
QueuesReachable ==
  \A t \in Thread : Linked(link, t) =>
    \E p \in Priority : \E i \in DOMAIN QueueOf(link, p) :
      /\ QueueOf(link, p)[i] = t
      /\ \A r \in Priority : \A j \in DOMAIN QueueOf(link, r) :
           QueueOf(link, r)[j] = t => r = p /\ j = i

\* The scheduler keeps the promises of the abstract dispatcher.
Abstract == INSTANCE Dispatcher WITH
  running  <- current,
  willing  <- state[current] = "RUNNING",
  rank     <- priority,
  queues   <- [p \in Priority |-> QueueOf(link, p)],
  finished <- {t \in Thread : state[t] = "TERMINATED"},
  LowPriority <- LOW,
  UsualPriority <- NORMAL

ImplementsDispatcher == Abstract!DispatcherSpec
=============================================================================
