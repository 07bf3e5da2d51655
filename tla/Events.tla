------------------------------- MODULE Events -------------------------------
(***************************************************************************)
(* The events of sync/event.cpp: a signal, automatically reset by the      *)
(* thread it releases or not, and a list of waiting threads.  EventSet     *)
(* takes a waiter off the list with interrupts off, then switches them on  *)
(* and calls UnblockThread: other threads may run in between.              *)
(***************************************************************************)
EXTENDS Cpu

CONSTANTS
  Event,      \* the events in use
  AutoReset,  \* those created with auto_reset
  NULL,       \* the null pointer
  Timeouts,   \* the timeouts waits are made with: "zero", "finite" or "infinite"
  MaxSets     \* bound: no event is set more often

ASSUME EventsAssumption ==
  /\ NULL \notin Thread /\ NULL \notin Event
  /\ AutoReset \subseteq Event
  /\ Timeouts \subseteq {"zero", "finite", "infinite"}
  /\ MaxSets \in Nat

VARIABLES
  signaled,   \* KEvent.signaled
  waiters,    \* the list at KEvent.waiters, head first
  waitsFor,   \* the event a thread has blocked on and not come back from
  limit,      \* the timeout of that wait
  waking,     \* the waiter that a thread in EventSet will unblock
  sets,       \* EventSet calls on each event
  passes      \* EventWait calls on each auto-reset event that returned STATUS_SUCCESS

eventVars == <<signaled, waiters, waitsFor, limit, waking, sets, passes>>

vars == <<cpuVars, eventVars>>

\* EventInit of each event, signaled or not.
Init ==
  /\ CpuInit
  /\ signaled \in [Event -> BOOLEAN]
  /\ waiters = [e \in Event |-> <<>>]
  /\ waitsFor = [t \in Thread |-> NULL]
  /\ limit = [t \in Thread |-> "infinite"]
  /\ waking = [t \in Thread |-> NULL]
  /\ sets = [e \in Event |-> IF signaled[e] THEN 1 ELSE 0]
  /\ passes = [e \in Event |-> 0]

Count(e) == passes' = [passes EXCEPT ![e] = IF e \in AutoReset THEN @ + 1 ELSE 0]

\* A thread that gets the CPU after it blocked returns STATUS_SUCCESS.
Switch(t) ==
  /\ SwitchTo(t)
  /\ IF waitsFor[t] = NULL
     THEN UNCHANGED <<waitsFor, passes>>
     ELSE /\ waitsFor' = [waitsFor EXCEPT ![t] = NULL]
          /\ Count(waitsFor[t])
  /\ UNCHANGED <<signaled, waiters, limit, waking, sets>>

\* t runs outside EventSet and EventWait.
Free(t) == Running(t) /\ waking[t] = NULL

\* Mutant of TakeSignal: the signal is not consumed.
TakeSignalKept(e) == signaled[e] /\ UNCHANGED signaled

\* EventWait's fast path consumes the signal of an auto-reset event.
TakeSignal(e) ==
  /\ signaled[e]
  /\ signaled' = [signaled EXCEPT ![e] = e \notin AutoReset]

\* Mutant of EventWait's blocking path: not BLOCKED yet when interrupts are on.
EnqueueRunning(t, e, d) ==
  /\ waiters' = [waiters EXCEPT ![e] = <<t>> \o @]
  /\ waitsFor' = [waitsFor EXCEPT ![t] = e]
  /\ limit' = [limit EXCEPT ![t] = d]
  /\ UNCHANGED cpuVars

\* The blocking path up to EnableInterrupts: the new waiter becomes the head
\* of the list.  A timeout other than zero plays no part from here on.
Enqueue(t, e, d) ==
  /\ waiters' = [waiters EXCEPT ![e] = <<t>> \o @]
  /\ waitsFor' = [waitsFor EXCEPT ![t] = e]
  /\ limit' = [limit EXCEPT ![t] = d]
  /\ Block

EventWait(t, e, d) ==
  /\ Free(t)
  /\ \/ /\ TakeSignal(e)
        /\ Count(e)
        /\ UNCHANGED <<cpuVars, waiters, waitsFor, limit>>
     \/ /\ ~signaled[e]
        /\ d # "zero"
        /\ t # Main
        /\ Enqueue(t, e, d)
        /\ UNCHANGED <<signaled, passes>>
  /\ UNCHANGED <<waking, sets>>

\* Mutant of PassOn: the signal stays for one more.
PassOnAndKeep(e) == signaled' = [signaled EXCEPT ![e] = TRUE]

\* The waiter consumes the signal of an auto-reset event.
PassOn(e) == signaled' = [signaled EXCEPT ![e] = @ \/ e \notin AutoReset]

\* EventSet up to EnableInterrupts.
EventSet(t, e) ==
  /\ Free(t)
  /\ sets[e] < MaxSets
  /\ sets' = [sets EXCEPT ![e] = @ + 1]
  /\ IF waiters[e] = <<>>
     THEN /\ signaled' = [signaled EXCEPT ![e] = TRUE]
          /\ UNCHANGED <<state, waiters, waking>>
     ELSE /\ waiters' = [waiters EXCEPT ![e] = Tail(@)]
          /\ PassOn(e)
          /\ state' = [state EXCEPT ![Head(waiters[e])] = "READY"]
          /\ waking' = [waking EXCEPT ![t] = Head(waiters[e])]
  /\ UNCHANGED <<current, ready, waitsFor, limit, passes>>

\* EventSet's call of UnblockThread.
FinishSet(t) ==
  /\ Running(t)
  /\ waking[t] # NULL
  /\ Unblock(waking[t])
  /\ waking' = [waking EXCEPT ![t] = NULL]
  /\ UNCHANGED <<signaled, waiters, waitsFor, limit, sets, passes>>

EventReset(t, e) ==
  /\ Free(t)
  /\ signaled' = [signaled EXCEPT ![e] = FALSE]
  /\ UNCHANGED <<cpuVars, waiters, waitsFor, limit, waking, sets, passes>>

Next ==
  \/ \E t \in Thread : Switch(t) \/ FinishSet(t)
  \/ \E t \in Thread, e \in Event, d \in Timeouts : EventWait(t, e, d)
  \/ \E t \in Thread, e \in Event : EventSet(t, e) \/ EventReset(t, e)

Spec == Init /\ [][Next]_vars

(***************************************************************************)
(* Ready threads get their turn (RoundRobin in Scheduler), and a turn lasts*)
(* longer than the few instructions EventSet has left.  No thread has to   *)
(* wait, set or reset.                                                     *)
(***************************************************************************)
Fairness ==
  \A t \in Thread : WF_vars(Switch(t)) /\ SF_vars(FinishSet(t))

FairSpec == Spec /\ Fairness
-----------------------------------------------------------------------------
(* Properties.                                                             *)

\* Every variable holds a value of its kind.
TypeOK ==
  /\ CpuTypeOK
  /\ signaled \in [Event -> BOOLEAN]
  /\ waiters \in [Event -> Seq(Thread)]
  /\ waitsFor \in [Thread -> Event \cup {NULL}]
  /\ limit \in [Thread -> {"zero", "finite", "infinite"}]
  /\ waking \in [Thread -> Thread \cup {NULL}]
  /\ sets \in [Event -> 0 .. MaxSets + 1]
  /\ passes \in [Event -> 0 .. MaxSets + 1]

\* The threads on their way out of a wait for e: taken off the list, and not
\* yet back from Schedule.
Released(e) ==
  {t \in Thread : waitsFor[t] = e /\ \A i \in 1 .. Len(waiters[e]) : waiters[e][i] # t}

\* One EventSet of an auto-reset event lets at most one EventWait succeed.
OneWaitPerSet ==
  \A e \in AutoReset :
    passes[e] + Cardinality(Released(e)) + (IF signaled[e] THEN 1 ELSE 0) <= sets[e]

\* No thread stays blocked on an auto-reset event that is signaled.
NoWaiterMissesSignal == \A e \in AutoReset : signaled[e] => waiters[e] = <<>>

\* Every variable holds a value of its kind, and a waiting thread is once in
\* the list of its event and nowhere else, or exactly one EventSet is about to
\* unblock it, or it is ready.
WaitersKept ==
  /\ TypeOK
  /\ \A t \in Thread : waitsFor[t] # NULL =>
       LET here   == {i \in 1 .. Len(waiters[waitsFor[t]]) : waiters[waitsFor[t]][i] = t}
           wakers == {u \in Thread : waking[u] = t}
       IN Cardinality(here) + Cardinality(wakers) + (IF t \in ready THEN 1 ELSE 0) = 1

\* A thread that EventSet takes off a list comes back from its wait, even if
\* the setter is preempted halfway.
ReleasedReturns ==
  \A t \in Thread, e \in Event : t \in Released(e) ~> waitsFor[t] # e

\* "Wait for the event to become signaled": sync.h:35.
SignalEndsWait == \A e \in Event : signaled[e] => waiters[e] = <<>>

\* "Returns STATUS_SUCCESS on signal, STATUS_TIMEOUT on timeout": sync.h:38.
FiniteWaitEnds ==
  \A t \in Thread, e \in Event : (waitsFor[t] = e /\ limit[t] = "finite") ~> waitsFor[t] # e
=============================================================================
