----------------------------- MODULE Scheduler -----------------------------
(***************************************************************************)
(* The preemptive scheduler of the MicroNT kernel (ps/scheduler.cpp) on    *)
(* its single CPU: three ready queues kept as circular doubly linked lists *)
(* with a sentinel each, the sleep list, the quantum and the timer tick.   *)
(*                                                                         *)
(* An action is one section the code runs with interrupts off, or one step *)
(* of the current thread between two of them.  The timer interrupt may     *)
(* arrive between any two actions of a thread; the interrupt itself runs   *)
(* with interrupts off and is taken in several steps (isr = "wake"), which *)
(* nothing else interleaves with.                                          *)
(*                                                                         *)
(* The thread calling into the scheduler does so for the kernel's callers: *)
(* Wait and PopWaiter stand for the cli..sti sections of the event,        *)
(* mutant, semaphore and process waits, whose own state is left to other   *)
(* modules.                                                                *)
(***************************************************************************)
EXTENDS Integers, Sequences, FiniteSets

CONSTANTS
  Thread,          \* every thread that may exist, Main included
  Main,            \* the boot thread, which ends as the idle loop
  NULL,            \* the null pointer
  Quantum,         \* QUANTUM_TICKS, 5 in the code
  SleepTicks,      \* the durations, in ticks, that callers pass to Sleep
  PriorityChoices  \* the priorities NtSetInformationThread is called with

LOW    == 0
NORMAL == 1
HIGH   == 2
Priority == {LOW, NORMAL, HIGH}

\* A list node is a thread or the sentinel of a priority.
Node == Thread \cup Priority

ASSUME SchedulerAssumption ==
  /\ Main \in Thread
  /\ NULL \notin Node
  /\ Thread \cap Priority = {}
  /\ Quantum \in Nat \ {0}
  /\ SleepTicks \subseteq Nat \ {0}
  /\ PriorityChoices \subseteq Priority

VARIABLES
  current,    \* s_current
  state,      \* KThread.State
  priority,   \* KThread.Priority
  link,       \* KThread.Next and KThread.Prev, and those of the sentinels
  quantum,    \* s_quantum
  sleepers,   \* the list at s_sleep_head, head first
  sleepLeft,  \* SleepUntil - PitTicks() of a sleeping thread
  waiters,    \* threads linked into the wait list of some object
  pc,         \* where each thread is in its kernel code
  waking,     \* the thread a waker has unlinked and not yet unblocked
  isr,        \* "wake" while the timer interrupt runs WakeSleepers
  struck      \* a tick has hit the gap the current thread is in

vars == <<current, state, priority, link, quantum, sleepers, sleepLeft,
          waiters, pc, waking, isr, struck>>

ThreadState == {"READY", "RUNNING", "BLOCKED", "TERMINATED"}

(***************************************************************************)
(* "run": anywhere outside the scheduler.  "gap": the thread has set its   *)
(* State and enabled interrupts again, and has not reached Schedule's cli. *)
(* "wake": it is about to call UnblockThread.  "halt": the CpuHalt after   *)
(* Schedule in TerminateCurrentThread.                                     *)
(***************************************************************************)
Location == {"unborn", "run", "gap", "wake", "halt"}

-----------------------------------------------------------------------------
(* The ready queues.                                                       *)

Linked(q, t) == q[t].nxt # NULL

\* Mutants of QueuePushBack: the old tail still points to the sentinel; the
\* thread joins the head of the queue.
PushWithoutTail(q, t, p) ==
  [q EXCEPT ![t] = [nxt |-> p, prv |-> q[p].prv],
            ![p].prv = t]

PushFront(q, t, p) ==
  [q EXCEPT ![t] = [nxt |-> q[p].nxt, prv |-> p],
            ![q[p].nxt].prv = t,
            ![p].nxt = t]

QueuePushBack(q, t, p) ==
  [q EXCEPT ![t] = [nxt |-> p, prv |-> q[p].prv],
            ![q[p].prv].nxt = t,
            ![p].prv = t]

\* Mutants of QueueRemove: the successor keeps its Prev; the thread keeps its links.
RemoveForwardOnly(q, t) ==
  [q EXCEPT ![q[t].prv].nxt = q[t].nxt,
            ![t] = [nxt |-> NULL, prv |-> NULL]]

RemoveKeepingLinks(q, t) ==
  [q EXCEPT ![q[t].prv].nxt = q[t].nxt,
            ![q[t].nxt].prv = q[t].prv]

QueueRemove(q, t) ==
  IF q[t].nxt = NULL \/ q[t].prv = NULL
  THEN q
  ELSE [q EXCEPT ![q[t].prv].nxt = q[t].nxt,
                 ![q[t].nxt].prv = q[t].prv,
                 ![t] = [nxt |-> NULL, prv |-> NULL]]

NonEmpty(q) == {p \in Priority : q[p].nxt # p}

\* Mutant of Highest: the scan goes upwards.
Lowest(q) == CHOOSE p \in NonEmpty(q) : \A r \in NonEmpty(q) : p <= r

\* The priority QueuePop finds first: it scans from HIGH to LOW.
Highest(q) == CHOOSE p \in NonEmpty(q) : \A r \in NonEmpty(q) : r <= p

QueuePop(q) == q[Highest(q)].nxt

-----------------------------------------------------------------------------

\* After Sched::Init and Sched::Start: Main runs, nothing is queued.
Init ==
  /\ current = Main
  /\ state = [t \in Thread |-> IF t = Main THEN "RUNNING" ELSE "READY"]
  /\ priority = [t \in Thread |-> IF t = Main THEN LOW ELSE NORMAL]
  /\ link = [n \in Node |-> IF n \in Priority THEN [nxt |-> n, prv |-> n]
                                              ELSE [nxt |-> NULL, prv |-> NULL]]
  /\ quantum = Quantum
  /\ sleepers = <<>>
  /\ sleepLeft = [t \in Thread |-> 0]
  /\ waiters = {}
  /\ pc = [t \in Thread |-> IF t = Main THEN "run" ELSE "unborn"]
  /\ waking = [t \in Thread |-> NULL]
  /\ isr = "idle"
  /\ struck = FALSE

\* Mutants of Requeued: the State is not looked at; a preempted thread is dropped.
RequeuedAlways(q) == QueuePushBack(q, current, priority[current])

RequeuedNever(q) == q

\* A thread that is still RUNNING when it is switched away from stays ready.
Requeued(q) ==
  IF state[current] = "RUNNING" THEN QueuePushBack(q, current, priority[current]) ELSE q

(***************************************************************************)
(* ScheduleInternal: switch to the first thread of the highest non-empty   *)
(* queue.  An empty queue leaves everything alone, the quantum included.   *)
(* Popping the current thread itself puts it back and goes on running it.  *)
(***************************************************************************)
ScheduleInternal ==
  IF NonEmpty(link) = {}
  THEN UNCHANGED <<current, state, link, quantum>>
  ELSE LET next   == QueuePop(link)
           popped == QueueRemove(link, next)
       IN /\ quantum' = Quantum
          /\ current' = next
          /\ IF next = current
             THEN /\ link' = QueuePushBack(popped, next, priority[next])
                  /\ UNCHANGED state
             ELSE /\ link' = Requeued(popped)
                  /\ state' = [state EXCEPT ![current] = IF @ = "RUNNING" THEN "READY" ELSE @,
                                            ![next] = "RUNNING"]

(***************************************************************************)
(* What Sleep's callers must respect for its gap to be harmless: a thread  *)
(* woken by the tick that hits it between Sleep's EnableInterrupts and     *)
(* Schedule's cli is queued while it is still current.                     *)
(***************************************************************************)
LongSleeps == \A d \in SleepTicks : d >= 2

\* The current thread runs with interrupts on and is at l.
At(l) == isr = "idle" /\ pc[current] = l

\* AddThread, by the thread that created t.
AddThread(t) ==
  /\ At("run")
  /\ pc[t] = "unborn"
  /\ state' = [state EXCEPT ![t] = "READY"]
  /\ link' = QueuePushBack(link, t, priority[t])
  /\ pc' = [pc EXCEPT ![t] = "run"]
  /\ UNCHANGED <<current, priority, quantum, sleepers, sleepLeft, waiters,
                 waking, isr, struck>>

\* A voluntary Schedule(), as the boot code and the idle loop make.
Yield ==
  /\ At("run")
  /\ ScheduleInternal
  /\ UNCHANGED <<priority, sleepers, sleepLeft, waiters, pc, waking, isr, struck>>

\* The Schedule() that ends Sleep, a wait and TerminateCurrentThread.
SwitchAway ==
  /\ At("gap")
  /\ ScheduleInternal
  /\ pc' = [pc EXCEPT ![current] = IF state[current] = "TERMINATED"
                                   THEN "halt" ELSE "run"]
  /\ struck' = FALSE
  /\ UNCHANGED <<priority, sleepers, sleepLeft, waiters, waking, isr>>

\* Sleep up to its EnableInterrupts.  The idle loop never sleeps.
Sleep(d) ==
  /\ At("run")
  /\ current # Main
  /\ sleepers' = <<current>> \o sleepers
  /\ sleepLeft' = [sleepLeft EXCEPT ![current] = d]
  /\ state' = [state EXCEPT ![current] = "BLOCKED"]
  /\ pc' = [pc EXCEPT ![current] = "gap"]
  /\ UNCHANGED <<current, priority, link, quantum, waiters, waking, isr, struck>>

\* A wait up to its sti: link into the object's list, BlockCurrentThread.
Wait ==
  /\ At("run")
  /\ current # Main
  /\ waiters' = waiters \cup {current}
  /\ state' = [state EXCEPT ![current] = "BLOCKED"]
  /\ pc' = [pc EXCEPT ![current] = "gap"]
  /\ UNCHANGED <<current, priority, link, quantum, sleepers, sleepLeft, waking,
                 isr, struck>>

(***************************************************************************)
(* A waker unlinks t from an object's list.  EventSet also writes READY at *)
(* this point, the other primitives leave t BLOCKED for UnblockThread.     *)
(***************************************************************************)
PopWaiter(t) ==
  /\ At("run")
  /\ t \in waiters
  /\ waiters' = waiters \ {t}
  /\ \E s \in {"READY", state[t]} : state' = [state EXCEPT ![t] = s]
  /\ waking' = [waking EXCEPT ![current] = t]
  /\ pc' = [pc EXCEPT ![current] = "wake"]
  /\ UNCHANGED <<current, priority, link, quantum, sleepers, sleepLeft, isr, struck>>

UnblockThread ==
  /\ At("wake")
  /\ LET t == waking[current]
     IN IF state[t] = "TERMINATED"
        THEN UNCHANGED <<state, link>>
        ELSE /\ state' = [state EXCEPT ![t] = "READY"]
             /\ link' = QueuePushBack(link, t, priority[t])
  /\ waking' = [waking EXCEPT ![current] = NULL]
  /\ pc' = [pc EXCEPT ![current] = "run"]
  /\ UNCHANGED <<current, priority, quantum, sleepers, sleepLeft, waiters, isr, struck>>

\* NtSetInformationThread: the caller's own priority, with no requeueing.
SetPriority(p) ==
  /\ At("run")
  /\ current # Main
  /\ priority' = [priority EXCEPT ![current] = p]
  /\ UNCHANGED <<current, state, link, quantum, sleepers, sleepLeft, waiters, pc,
                 waking, isr, struck>>

\* TerminateCurrentThread up to its Schedule().
TerminateCurrentThread ==
  /\ At("run")
  /\ current # Main
  /\ state' = [state EXCEPT ![current] = "TERMINATED"]
  /\ pc' = [pc EXCEPT ![current] = "gap"]
  /\ UNCHANGED <<current, priority, link, quantum, sleepers, sleepLeft, waiters,
                 waking, isr, struck>>

-----------------------------------------------------------------------------
(* The timer interrupt.                                                    *)

(***************************************************************************)
(* TimerHandler advances s_ticks, so every sleeper is one tick nearer its  *)
(* deadline.  The gap is a few instructions and a period is 10 ms, so one  *)
(* stay in the gap is hit by at most one tick: struck records the hit.     *)
(***************************************************************************)
TimerHandler ==
  /\ isr = "idle"
  /\ ~struck
  /\ isr' = "wake"
  /\ sleepLeft' = [t \in Thread |-> IF sleepLeft[t] = 0 THEN 0 ELSE sleepLeft[t] - 1]
  /\ struck' = (pc[current] = "gap")
  /\ UNCHANGED <<current, state, priority, link, quantum, sleepers, waiters, pc, waking>>

\* Mutant of Due: only the head of the list is looked at.
DueHead(i) == i = 1 /\ sleepLeft[sleepers[1]] = 0

Due(i) == sleepLeft[sleepers[i]] = 0

Without(s, i) == [j \in 1 .. Len(s) - 1 |-> IF j < i THEN s[j] ELSE s[j + 1]]

\* WakeSleepers: the first sleeper of the list whose deadline has passed.
WakeSleeper(i) ==
  /\ isr = "wake"
  /\ Due(i)
  /\ \A j \in 1 .. i - 1 : ~Due(j)
  /\ sleepers' = Without(sleepers, i)
  /\ state' = [state EXCEPT ![sleepers[i]] = "READY"]
  /\ link' = QueuePushBack(link, sleepers[i], priority[sleepers[i]])
  /\ UNCHANGED <<current, priority, quantum, sleepLeft, waiters, pc, waking, isr, struck>>

\* Mutants of UseQuantum: a used up quantum wraps; nothing is switched.
UseQuantumUnguarded ==
  IF quantum = 1 /\ NonEmpty(link) # {} THEN ScheduleInternal
  ELSE quantum' = quantum - 1 /\ UNCHANGED <<current, state, link>>

UseQuantumUp ==
  /\ quantum' = IF quantum = 0 THEN 0 ELSE quantum - 1
  /\ UNCHANGED <<current, state, link>>

\* One tick of the quantum, and a switch when that uses it up.
UseQuantum ==
  CASE quantum = 0 -> UNCHANGED <<current, state, link, quantum>>
    [] quantum = 1 -> IF NonEmpty(link) = {}
                      THEN quantum' = 0 /\ UNCHANGED <<current, state, link>>
                      ELSE ScheduleInternal
    [] OTHER       -> quantum' = quantum - 1 /\ UNCHANGED <<current, state, link>>

\* The rest of Tick, once WakeSleepers is through.
Tick ==
  /\ isr = "wake"
  /\ \A i \in 1 .. Len(sleepers) : ~Due(i)
  /\ isr' = "idle"
  /\ UseQuantum
  /\ struck' = (struck /\ current' = current)
  /\ UNCHANGED <<priority, sleepers, sleepLeft, waiters, pc, waking>>

-----------------------------------------------------------------------------

Next ==
  \/ \E t \in Thread : AddThread(t) \/ PopWaiter(t)
  \/ Yield
  \/ SwitchAway
  \/ \E d \in SleepTicks : Sleep(d)
  \/ Wait
  \/ UnblockThread
  \/ \E p \in PriorityChoices : SetPriority(p)
  \/ TerminateCurrentThread
  \/ TimerHandler
  \/ \E i \in 1 .. Len(sleepers) : WakeSleeper(i)
  \/ Tick

Spec == Init /\ [][Next]_vars

(***************************************************************************)
(* Interrupts keep arriving and are handled to the end (WF).  They leave   *)
(* the current thread most of each period, so it does not stay for ever    *)
(* before a step it is about to take: leaving its gap, unblocking a thread *)
(* it has unlinked, the idle loop's Schedule().  Interrupts disable these  *)
(* steps again and again, hence SF.  Nothing else is fair: a thread may    *)
(* keep the CPU for as long as it is not preempted.                        *)
(***************************************************************************)
Fairness ==
  /\ WF_vars(TimerHandler)
  /\ WF_vars(\E i \in 1 .. Len(sleepers) : WakeSleeper(i))
  /\ WF_vars(Tick)
  /\ SF_vars(SwitchAway)
  /\ SF_vars(UnblockThread)
  /\ SF_vars(current = Main /\ Yield)

FairSpec == Spec /\ Fairness
-----------------------------------------------------------------------------
(* Properties.                                                             *)

\* Every variable holds a value of its kind.
TypeOK ==
  /\ current \in Thread
  /\ state \in [Thread -> ThreadState]
  /\ priority \in [Thread -> Priority]
  /\ link \in [Node -> [nxt : Node \cup {NULL}, prv : Node \cup {NULL}]]
  /\ quantum \in 0 .. Quantum
  /\ sleepers \in Seq(Thread)
  /\ sleepLeft \in [Thread -> Nat]
  /\ waiters \subseteq Thread
  /\ pc \in [Thread -> Location]
  /\ waking \in [Thread -> Thread \cup {NULL}]
  /\ isr \in {"idle", "wake"}
  /\ struck \in BOOLEAN

OnList(s, t) == \E i \in 1 .. Len(s) : s[i] = t

Asleep(t) == OnList(sleepers, t)

\* Next and Prev are inverse of each other, and a node has both or neither:
\* what every unlink in the middle of a ready queue relies on.
Coupled(q) ==
  \A n \in Node :
    /\ q[n].nxt = NULL <=> q[n].prv = NULL
    /\ n \in Priority => q[n].nxt # NULL
    /\ q[n].nxt # NULL => /\ q[q[n].nxt].prv = n
                          /\ q[q[n].prv].nxt = n

LinksMatch == Coupled(link)

(***************************************************************************)
(* Every thread that has begun and not ended has exactly one of: the CPU,  *)
(* a place in a ready queue, in the sleep list or in a wait list, a waker  *)
(* about to queue it.  Losing a thread or holding it twice breaks this.    *)
(***************************************************************************)
PlaceKinds == {"cpu", "ready", "asleep", "waiting"} \X {NULL} \cup {"waking"} \X Thread

Holds(t, place) ==
  CASE place[1] = "cpu"     -> current = t /\ state[t] = "RUNNING"
    [] place[1] = "ready"   -> Linked(link, t)
    [] place[1] = "asleep"  -> Asleep(t)
    [] place[1] = "waiting" -> t \in waiters
    [] place[1] = "waking"  -> waking[place[2]] = t

Alive(t) == pc[t] # "unborn" /\ state[t] # "TERMINATED"

NoThreadLost ==
  \A t \in Thread :
    /\ Alive(t) => \E place \in PlaceKinds : Holds(t, place)
    /\ \A here, there \in PlaceKinds :
         Holds(t, here) /\ Holds(t, there) => Alive(t) /\ here = there

Distinct(s) == \A i, j \in 1 .. Len(s) : s[i] = s[j] => i = j

\* No thread is in the sleep list twice, or left there with its deadline gone by.
SleepListSound ==
  /\ Distinct(sleepers)
  /\ isr = "idle" => \A t \in Thread : Asleep(t) => sleepLeft[t] > 0

\* "The thread is not in the ready queue (it's s_current)": scheduler.cpp:197.
CurrentNotQueued == ~Linked(link, current)

(***************************************************************************)
(* ScheduleInternal leaves a used up quantum at 0 when no thread is ready, *)
(* and Tick never preempts from 0.  Only the idle loop, which calls        *)
(* Schedule() by itself, may ever be in that state (scheduler.cpp:108).    *)
(***************************************************************************)
OnlyIdleUnpreemptible ==
  (quantum = 0 \/ NonEmpty(link) = {}) => current = Main

\* A thread that has terminated is never made ready, run or blocked again.
DeadStaysDead ==
  [][\A t \in Thread : state[t] = "TERMINATED" => state'[t] = "TERMINATED"]_vars

\* A thread that sleeps is given the CPU again.
SleeperReturns == \A t \in Thread : Asleep(t) ~> (current = t)

\* While no one is above NORMAL, a queued NORMAL thread gets the CPU: the
\* quantum and the tails of the queues make the threads take turns.
RoundRobin ==
  \A t \in Thread \ {Main} : Linked(link, t) ~> (current = t)

=============================================================================
