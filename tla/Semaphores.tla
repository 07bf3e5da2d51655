----------------------------- MODULE Semaphores -----------------------------
(***************************************************************************)
(* The semaphores of the system call layer (syscall.cpp): a count up to a  *)
(* maximum and a FIFO list of waiting threads.  NtReleaseSemaphore starts  *)
(* with interrupts off, but the first UnblockThread switches them on, and  *)
(* the rest of the call (its loop over the list, and reading and writing   *)
(* the count) can be interrupted anywhere.                                 *)
(***************************************************************************)
EXTENDS Cpu

CONSTANTS
  Releasers,  \* the threads that call NtReleaseSemaphore
  Amounts,    \* the numbers of units they release at a time
  MaxCount,   \* KSema.max_count
  MaxUnits    \* bound: no more units are released

SemaphoresAssumption ==
  /\ Releasers \subseteq Thread
  /\ Amounts \subseteq Nat \ {0}
  /\ MaxCount \in Nat \ {0}
  /\ MaxUnits \in Nat

VARIABLES
  count,      \* KSema.count
  queue,      \* the list from KSema.head to KSema.tail
  waiting,    \* the threads that have blocked and not come back from their wait
  pc,         \* where a thread is in NtReleaseSemaphore
  rel,        \* its rel: the units it has yet to hand out
  sum,        \* its s.count + rel, capped, once it has read s.count
  released,   \* units released within the maximum
  granted,    \* units taken by waits, at once or after blocking
  clean       \* no release so far has run its loop with interrupts on, and
              \* units left, nor overlapped with another release

semaVars == <<count, queue, waiting, pc, rel, sum, released, granted, clean>>

vars == <<cpuVars, semaVars>>

Location == {"out", "loop", "pop", "read", "write"}

\* NtCreateSemaphore, with any initial count up to the maximum.
Init ==
  /\ CpuInit
  /\ count \in 0 .. MaxCount
  /\ queue = <<>>
  /\ waiting = {}
  /\ pc = [t \in Thread |-> "out"]
  /\ rel = [t \in Thread |-> 0]
  /\ sum = [t \in Thread |-> 0]
  /\ released = count
  /\ granted = 0
  /\ clean = TRUE

Switch(t) ==
  /\ SwitchTo(t)
  /\ waiting' = waiting \ {t}
  /\ granted' = granted + (IF t \in waiting THEN 1 ELSE 0)
  /\ UNCHANGED <<count, queue, pc, rel, sum, released, clean>>

At(t, l) == Running(t) /\ pc[t] = l

\* NtWaitForSingleObject, returning STATUS_TIMEOUT with a timeout of 0.
WaitSingle(t) ==
  /\ At(t, "out")
  /\ \/ /\ count > 0
        /\ count' = count - 1
        /\ granted' = granted + 1
        /\ UNCHANGED <<cpuVars, queue, waiting>>
     \/ /\ count = 0
        /\ t # Main
        /\ queue' = Append(queue, t)
        /\ waiting' = waiting \cup {t}
        /\ Block
        /\ UNCHANGED <<count, granted>>
  /\ UNCHANGED <<pc, rel, sum, released, clean>>

\* Mutant of Capped: max_count is ignored.
Uncapped(n) == n

Capped(n) == IF n > MaxCount THEN MaxCount ELSE n

(***************************************************************************)
(* NtReleaseSemaphore as far as interrupts stay off: all of it if no one   *)
(* waits, else up to the end of the first UnblockThread.                   *)
(***************************************************************************)
ReleaseToNoOne(t, n) ==
  /\ queue = <<>>
  /\ count' = Capped(count + n)
  /\ released' = released + (count' - count)
  /\ UNCHANGED <<cpuVars, queue, pc, rel>>

\* Mutant of ReleaseToFirst: the waiter leaves the list without its unit.
ReleaseToFirstKept(t, n) ==
  /\ queue # <<>>
  /\ queue' = Tail(queue)
  /\ Unblock(Head(queue))
  /\ pc' = [pc EXCEPT ![t] = "loop"]
  /\ rel' = [rel EXCEPT ![t] = n]
  /\ released' = released + n
  /\ UNCHANGED count

ReleaseToFirst(t, n) ==
  /\ queue # <<>>
  /\ queue' = Tail(queue)
  /\ Unblock(Head(queue))
  /\ pc' = [pc EXCEPT ![t] = "loop"]
  /\ rel' = [rel EXCEPT ![t] = n - 1]
  /\ released' = released + n
  /\ UNCHANGED count

Release(t, n) ==
  /\ t \in Releasers
  /\ At(t, "out")
  /\ released + n <= MaxUnits
  /\ ReleaseToNoOne(t, n) \/ ReleaseToFirst(t, n)
  /\ clean' = (clean /\ (n = 1 \/ queue = <<>>) /\ \A u \in Thread : pc[u] = "out")
  /\ UNCHANGED <<waiting, sum, granted>>

(***************************************************************************)
(* The rest runs with interrupts on.  Loop reads s.head for its test; Pop  *)
(* reads it again, and goes wrong if somebody emptied the list in between  *)
(* (the model stops there); Write stores a count computed from what Read   *)
(* saw.  Pop is coarser than the code, which unlinks in four assignments:  *)
(* nothing is claimed any more of a semaphore for which it happens.        *)
(***************************************************************************)
Loop(t) ==
  /\ At(t, "loop")
  /\ pc' = [pc EXCEPT ![t] = IF rel[t] > 0 /\ queue # <<>> THEN "pop" ELSE "read"]
  /\ UNCHANGED <<cpuVars, count, queue, waiting, rel, sum, released, granted, clean>>

Pop(t) ==
  /\ At(t, "pop")
  /\ queue # <<>>
  /\ queue' = Tail(queue)
  /\ Unblock(Head(queue))
  /\ rel' = [rel EXCEPT ![t] = @ - 1]
  /\ pc' = [pc EXCEPT ![t] = "loop"]
  /\ UNCHANGED <<count, waiting, sum, released, granted, clean>>

Read(t) ==
  /\ At(t, "read")
  /\ sum' = [sum EXCEPT ![t] = Capped(count + rel[t])]
  /\ pc' = [pc EXCEPT ![t] = "write"]
  /\ UNCHANGED <<cpuVars, count, queue, waiting, rel, released, granted, clean>>

Write(t) ==
  /\ At(t, "write")
  /\ count' = sum[t]
  /\ pc' = [pc EXCEPT ![t] = "out"]
  /\ UNCHANGED <<cpuVars, queue, waiting, rel, sum, released, granted, clean>>

Next ==
  \E t \in Thread :
    \/ Switch(t) \/ WaitSingle(t) \/ Loop(t) \/ Pop(t) \/ Read(t) \/ Write(t)
    \/ \E n \in Amounts : Release(t, n)

Spec == Init /\ [][Next]_vars
-----------------------------------------------------------------------------
(* Properties.                                                             *)

\* Every variable holds a value of its kind.
TypeOK ==
  /\ CpuTypeOK
  /\ count \in 0 .. MaxCount
  /\ queue \in Seq(Thread)
  /\ waiting \subseteq Thread
  /\ pc \in [Thread -> Location]
  /\ rel \in [Thread -> Nat]
  /\ sum \in [Thread -> 0 .. MaxCount]
  /\ released \in Nat
  /\ granted \in Nat

Queued == {queue[i] : i \in 1 .. Len(queue)}

\* As long as no release has been interrupted with units left to hand out, and
\* no two have overlapped, units are neither made nor lost: those released are
\* in the count, taken by waits that returned, or on their way to a thread that
\* has been woken.
UnitsConserved ==
  clean => released = count + granted + Cardinality(waiting \ Queued)

\* No one waits while there are units, as long as no release has been interrupted
\* with units left to hand out.
NoWaiterWithUnits == clean /\ queue # <<>> => count = 0
=============================================================================
