----------------------------- MODULE Processes -----------------------------
(***************************************************************************)
(* The life of threads and processes (ps/process.cpp and the process part  *)
(* of NtWaitForSingleObject): creation, exit of the last thread, waits for *)
(* that exit, and KillProcess.  All of it runs with interrupts on, but for *)
(* the lines that link a waiter and block it, so a step here is one access *)
(* to the state that threads share, and a switch may follow each of them.  *)
(***************************************************************************)
EXTENDS Cpu, SequencesExt

CONSTANTS
  Process,     \* the processes
  NULL,        \* the null pointer
  Owner,       \* KThread.Process: the process of each thread
  Started,     \* the threads that exist at the start, Main included
  Waiters,     \* the threads that wait for processes
  Waitable,    \* the processes in s_proc_table, which can be waited for
  Enders,      \* the threads that end themselves
  Creators,    \* the threads that create others
  Killers,     \* the threads that call KillProcess
  Targets,     \* the processes they kill
  RegSize,     \* the size of s_thread_reg: 64 in the code
  CountModulus \* thread_count is kept modulo this: 2^32 in the code

ProcessesAssumption ==
  /\ NULL \notin Thread
  /\ Owner \in [Thread -> Process]
  /\ Main \in Started /\ Started \subseteq Thread
  /\ Waiters \subseteq Thread \ {Main} /\ Enders \subseteq Thread \ {Main}
  /\ Creators \subseteq Thread /\ Killers \subseteq Thread
  /\ Waitable \subseteq Process /\ Targets \subseteq Process
  /\ RegSize \in Nat
  /\ CountModulus \in Nat \ {0} /\ CountModulus > Cardinality(Thread)

VARIABLES
  born,       \* the threads that have been created
  registry,   \* s_thread_reg, in the order of creation
  count,      \* KProcess.thread_count
  exited,     \* KProcess.exited
  waiters,    \* KProcess.exit_waiters
  WaitNext,   \* KThread.WaitNext
  waitsFor,   \* the processes a thread has blocked on and not come back from
  local,      \* where each thread is in the code, and its local variables there
  killed      \* the processes on which KillProcess has been called

shared == <<born, registry, count, exited, waiters, WaitNext>>

vars == <<cpuVars, shared, waitsFor, local, killed>>

(***************************************************************************)
(* Where a thread is: "out", in user mode or in other code; "store",       *)
(* "register", "add" in CreateUserThread and after it; "enqueue" in the    *)
(* wait, past its test of exited; "test", "load", "drop" in                *)
(* TerminateCurrentThread; "mark" in KillProcess; "exit" up to "ready" in  *)
(* either; and "ended" past all of TerminateCurrentThread but its call of  *)
(* Schedule.                                                               *)
(***************************************************************************)
Location == {"out", "store", "register", "add", "enqueue", "test", "load", "drop",
             "mark", "exit", "take", "clear", "wake", "unlink", "unblock", "ready",
             "ended"}

\* The locals: the thread created, the process dealt with, the thread_count
\* read, the index into s_thread_reg, the pointers w and nxt into the list, and
\* where the wake loop ends.
Local == [pc : Location, thread : Thread, process : Process, loaded : Nat,
          index : Nat, w : Thread \cup {NULL}, nxt : Thread \cup {NULL}, back : Location]

Members(p) == {t \in born : Owner[t] = p}

Init ==
  /\ current = Main
  /\ state = [t \in Thread |-> IF t = Main THEN "RUNNING" ELSE "READY"]
  /\ ready = Started \ {Main}
  /\ born = Started
  /\ registry \in SetToSeqs(Started \ {Main})
  /\ count = [p \in Process |-> Cardinality(Members(p))]
  /\ exited = [p \in Process |-> FALSE]
  /\ waiters = [p \in Process |-> NULL]
  /\ WaitNext = [t \in Thread |-> NULL]
  /\ waitsFor = [t \in Thread |-> {}]
  /\ local = [t \in Thread |-> [pc |-> "out", thread |-> t, process |-> Owner[t],
                                loaded |-> 0, index |-> 1, w |-> NULL, nxt |-> NULL, back |-> "out"]]
  /\ killed = {}

\* t has the CPU and executes at l: also after its State has become TERMINATED.
At(t, l) == current = t /\ state[t] # "BLOCKED" /\ local[t].pc = l

\* t goes to l.
Go(t, l) == local' = [local EXCEPT ![t].pc = l]

Switch(t) ==
  /\ SwitchTo(t)
  /\ waitsFor' = [waitsFor EXCEPT ![t] = {}]
  /\ UNCHANGED <<shared, local, killed>>

-----------------------------------------------------------------------------
(* NtCreateThread, and NtCreateProcess for the first thread of a process.  *)

\* CreateUserThread up to the load of thread_count++.
CreateUserThread(t, u) ==
  /\ At(t, "out")
  /\ t \in Creators
  /\ u \notin born
  /\ Owner[u] = Owner[t] \/ Members(Owner[u]) = {}
  /\ born' = born \cup {u}
  /\ local' = [local EXCEPT ![t].pc = "store", ![t].thread = u,
                            ![t].loaded = count[Owner[u]]]
  /\ UNCHANGED <<cpuVars, registry, count, exited, waiters, WaitNext, waitsFor, killed>>

\* The store of thread_count++.
CountThread(t) ==
  /\ At(t, "store")
  /\ count' = [count EXCEPT
                 ![Owner[local[t].thread]] = (local[t].loaded + 1) % CountModulus]
  /\ Go(t, "register")
  /\ UNCHANGED <<cpuVars, born, registry, exited, waiters, WaitNext, waitsFor, killed>>

SlotLeft == Len(registry) < RegSize

\* The thread is registered, if there is room (in one step: the race of two
\* creators for one slot is left out).
RegisterThread(t) ==
  /\ At(t, "register")
  /\ registry' = IF SlotLeft THEN Append(registry, local[t].thread) ELSE registry
  /\ Go(t, "add")
  /\ UNCHANGED <<cpuVars, born, count, exited, waiters, WaitNext, waitsFor, killed>>

\* Sched::AddThread.
AddThread(t) ==
  /\ At(t, "add")
  /\ state' = [state EXCEPT ![local[t].thread] = "READY"]
  /\ ready' = ready \cup {local[t].thread}
  /\ Go(t, "out")
  /\ UNCHANGED <<current, shared, waitsFor, killed>>

-----------------------------------------------------------------------------
(* NtWaitForSingleObject on a process, with any timeout but 0.             *)

WaitProcess(t, p) ==
  /\ At(t, "out")
  /\ t \in Waiters /\ p \in Waitable
  /\ ~exited[p]
  /\ local' = [local EXCEPT ![t].pc = "enqueue", ![t].process = p]
  /\ UNCHANGED <<cpuVars, shared, waitsFor, killed>>

\* Mutant of Link: the old list is not linked to the new head.
LinkAlone(t, p) ==
  /\ waiters' = [waiters EXCEPT ![p] = t]
  /\ UNCHANGED WaitNext

Link(t, p) ==
  /\ WaitNext' = [WaitNext EXCEPT ![t] = waiters[p]]
  /\ waiters' = [waiters EXCEPT ![p] = t]

Enqueue(t) ==
  /\ At(t, "enqueue")
  /\ Link(t, local[t].process)
  /\ waitsFor' = [waitsFor EXCEPT ![t] = {local[t].process}]
  /\ Block
  /\ Go(t, "out")
  /\ UNCHANGED <<born, registry, count, exited, killed>>

-----------------------------------------------------------------------------
(* TerminateCurrentThread up to the decision that the process has exited.  *)

Terminate(t) ==
  /\ At(t, "out")
  /\ t \in Enders
  /\ state' = [state EXCEPT ![t] = "TERMINATED"]
  /\ local' = [local EXCEPT ![t].pc = "test", ![t].process = Owner[t],
                            ![t].back = "ended"]
  /\ UNCHANGED <<current, ready, shared, waitsFor, killed>>

TestCount(t) ==
  /\ At(t, "test")
  /\ Go(t, IF count[Owner[t]] > 0 THEN "load" ELSE "ended")
  /\ UNCHANGED <<cpuVars, shared, waitsFor, killed>>

\* --thread_count is a load and, later, a store.
LoadCount(t) ==
  /\ At(t, "load")
  /\ local' = [local EXCEPT ![t].pc = "drop", ![t].loaded = count[Owner[t]]]
  /\ UNCHANGED <<cpuVars, shared, waitsFor, killed>>

\* Mutant of IsLast: one thread short of 0.
IsLastEarly(n) == n = 2

\* The decremented count is 0.
IsLast(n) == n = 1

DropThread(t) ==
  /\ At(t, "drop")
  /\ count' = [count EXCEPT ![Owner[t]] = (local[t].loaded - 1) % CountModulus]
  /\ Go(t, IF IsLast(local[t].loaded) THEN "exit" ELSE "ended")
  /\ UNCHANGED <<cpuVars, born, registry, exited, waiters, WaitNext, waitsFor, killed>>

-----------------------------------------------------------------------------
(* KillProcess up to thread_count = 0.                                     *)

\* The process is found by its Pid, unless it has exited.
KillProcess(t, p) ==
  /\ At(t, "out")
  /\ t \in Killers /\ p \in Targets
  /\ ~exited[p]
  /\ killed' = killed \cup {p}
  /\ local' = [local EXCEPT ![t].pc = "mark", ![t].process = p, ![t].index = 1,
                            ![t].back = "out"]
  /\ UNCHANGED <<cpuVars, shared, waitsFor>>

\* One turn of the loop over s_thread_reg.  A marked thread stays in the
\* ready queue or in the list it waits in.
MarkThread(t) ==
  LET i == local[t].index IN
  /\ At(t, "mark")
  /\ i <= Len(registry)
  /\ state' = IF Owner[registry[i]] = local[t].process
              THEN [state EXCEPT ![registry[i]] = "TERMINATED"] ELSE state
  /\ local' = [local EXCEPT ![t].index = i + 1]
  /\ UNCHANGED <<current, ready, shared, waitsFor, killed>>

ZeroCount(t) ==
  /\ At(t, "mark")
  /\ local[t].index > Len(registry)
  /\ count' = [count EXCEPT ![local[t].process] = 0]
  /\ Go(t, "exit")
  /\ UNCHANGED <<cpuVars, born, registry, exited, waiters, WaitNext, waitsFor, killed>>

-----------------------------------------------------------------------------
(* The end of both: the process has exited, its waiters are unblocked.     *)

\* Mutant of SetExited: the flag is left alone.
SetExitedNever(t) == UNCHANGED exited

SetExited(t) == exited' = [exited EXCEPT ![local[t].process] = TRUE]

Exit(t) ==
  /\ At(t, "exit")
  /\ SetExited(t)
  /\ Go(t, "take")
  /\ UNCHANGED <<cpuVars, born, registry, count, waiters, WaitNext, waitsFor, killed>>

\* The head of the list is read ...
TakeWaiters(t) ==
  /\ At(t, "take")
  /\ local' = [local EXCEPT ![t].pc = "clear", ![t].w = waiters[local[t].process]]
  /\ UNCHANGED <<cpuVars, shared, waitsFor, killed>>

\* ... and cleared.
ClearWaiters(t) ==
  /\ At(t, "clear")
  /\ waiters' = [waiters EXCEPT ![local[t].process] = NULL]
  /\ Go(t, "wake")
  /\ UNCHANGED <<cpuVars, born, registry, count, exited, WaitNext, waitsFor, killed>>

\* while (w) nxt = w->WaitNext
NextWaiter(t) ==
  /\ At(t, "wake")
  /\ local[t].w # NULL
  /\ local' = [local EXCEPT ![t].pc = "unlink", ![t].nxt = WaitNext[local[t].w]]
  /\ UNCHANGED <<cpuVars, shared, waitsFor, killed>>

UnlinkWaiter(t) ==
  /\ At(t, "unlink")
  /\ WaitNext' = [WaitNext EXCEPT ![local[t].w] = NULL]
  /\ Go(t, "unblock")
  /\ UNCHANGED <<cpuVars, born, registry, count, exited, waiters, waitsFor, killed>>

\* UnblockThread tests the State with interrupts on; w = nxt follows.
SkipEnded(t) ==
  /\ At(t, "unblock")
  /\ IF state[local[t].w] = "TERMINATED"
     THEN local' = [local EXCEPT ![t].pc = "wake", ![t].w = local[t].nxt]
     ELSE Go(t, "ready")
  /\ UNCHANGED <<cpuVars, shared, waitsFor, killed>>

UnblockWaiter(t) ==
  /\ At(t, "ready")
  /\ state' = [state EXCEPT ![local[t].w] = "READY"]
  /\ ready' = ready \cup {local[t].w}
  /\ local' = [local EXCEPT ![t].pc = "wake", ![t].w = local[t].nxt]
  /\ UNCHANGED <<current, shared, waitsFor, killed>>

\* KillProcess returns; TerminateCurrentThread goes on to call Schedule.
WakeDone(t) ==
  /\ At(t, "wake")
  /\ local[t].w = NULL
  /\ Go(t, local[t].back)
  /\ UNCHANGED <<cpuVars, shared, waitsFor, killed>>

Next ==
  \E t \in Thread :
    \/ Switch(t)
    \/ \E u \in Thread : CreateUserThread(t, u)
    \/ CountThread(t) \/ RegisterThread(t) \/ AddThread(t)
    \/ \E p \in Process : WaitProcess(t, p) \/ KillProcess(t, p)
    \/ Enqueue(t)
    \/ Terminate(t) \/ TestCount(t) \/ LoadCount(t) \/ DropThread(t)
    \/ MarkThread(t) \/ ZeroCount(t)
    \/ Exit(t) \/ TakeWaiters(t) \/ ClearWaiters(t)
    \/ NextWaiter(t) \/ UnlinkWaiter(t) \/ SkipEnded(t) \/ UnblockWaiter(t)
    \/ WakeDone(t)

Spec == Init /\ [][Next]_vars
-----------------------------------------------------------------------------
(* Properties.                                                             *)

\* Every variable holds a value of its kind.
TypeOK ==
  /\ CpuTypeOK
  /\ born \subseteq Thread
  /\ registry \in Seq(born) /\ Len(registry) <= RegSize
  /\ count \in [Process -> 0 .. CountModulus - 1]
  /\ exited \in [Process -> BOOLEAN]
  /\ waiters \in [Process -> Thread \cup {NULL}]
  /\ WaitNext \in [Thread -> Thread \cup {NULL}]
  /\ waitsFor \in [Thread -> SUBSET Process]
  /\ local \in [Thread -> Local]
  /\ killed \subseteq Process

\* The n-th node of the list of waiters of p, from 0.
Waiter(p, n) ==
  LET node[i \in Nat] == IF i = 0 THEN waiters[p]
                         ELSE IF node[i - 1] = NULL THEN NULL ELSE WaitNext[node[i - 1]]
  IN  node[n]

\* Every variable holds a value of its kind, and a thread that waits for a
\* process that has not exited is on that process's list, and the list ends.
WaitersReachable ==
  /\ TypeOK
  /\ \A p \in Process : ~exited[p] =>
       /\ Waiter(p, Cardinality(Thread)) = NULL
       /\ \A t \in Thread : state[t] = "BLOCKED" /\ p \in waitsFor[t] =>
            \E n \in 0 .. Cardinality(Thread) - 1 : Waiter(p, n) = t

\* A wait returns only when the process has exited.
WaitMeansExited ==
  \A t \in Thread : \A p \in waitsFor[t] :
    state[t] \in {"READY", "RUNNING"} => exited[p]

\* A process that nobody has killed has exited only when all its threads have
\* ended, as long as no two threads create threads for it.
ExitedMeansEnded ==
  \A p \in Process \ killed : exited[p] =>
    \A t \in Members(p) : state[t] = "TERMINATED"

\* "Block until process exits": once a process has exited and its waiters have
\* been unblocked, no thread is blocked on it.
NoWaiterLeft ==
  \A p \in Process :
    exited[p] /\ (\A t \in Thread : local[t].process = p =>
                    local[t].pc \notin {"take", "clear", "wake", "unlink", "unblock", "ready"})
      => \A t \in Thread : p \in waitsFor[t] => state[t] # "BLOCKED"

\* "notify process exit when last thread terminates": when all threads of a
\* process have ended, and none of them has the CPU any more, it has exited.
LastThreadNotifies ==
  \A p \in Process :
    Members(p) # {} /\ (\A t \in Members(p) : state[t] = "TERMINATED" /\ t # current)
      => exited[p]

\* KillProcess marks "the process as exited and all its threads as TERMINATED".
KilledThreadsEnded ==
  \A p \in killed : exited[p] => \A t \in Members(p) : state[t] = "TERMINATED"
=============================================================================
