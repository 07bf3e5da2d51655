--------------------------- MODULE SyncProofs -----------------------------
(***************************************************************************)
(* Theorems about the two synchronization objects of the system call layer *)
(* that keep lists of waiting threads: the mutants, for any number of      *)
(* threads and mutants, any depth, and any threads that end at any time;   *)
(* then the semaphores, an instance over the same threads, for any counts  *)
(* and any amounts released at a time.                                     *)
(***************************************************************************)
EXTENDS Sync, FiniteSetTheorems, TLAPS

Listed(q, t) == \E i \in 1 .. Len(q) : q[i] = t

Distinct(q) == \A i, j \in 1 .. Len(q) : q[i] = q[j] => i = j

-----------------------------------------------------------------------------
(***************************************************************************)
(* The mutants.                                                            *)
(*                                                                         *)
(* The inductive invariant.  A thread is woken only by being made owner:   *)
(* one that is listed cannot come back, one that waits and is listed no    *)
(* more is the owner already.                                              *)
(***************************************************************************)
CurrentNotReady == current \notin ready

RunnerWaitsForNothing == \A t \in Thread : Running(t) => waitsFor[t] = NULL

InsideOwns == \A t \in Thread, m \in Mutant : Inside(t, m) => owner[m] = t

ListedWait ==
  \A t \in Thread, m \in Mutant : Listed(queue[m], t) =>
    waitsFor[t] = m /\ holds[t][m] = 1 /\ t \notin ready

WaitersListed ==
  \A t \in Thread, m \in Mutant : waitsFor[t] = m => Listed(queue[m], t) \/ owner[m] = t

ListedOnce == \A m \in Mutant : Distinct(queue[m])

OwnerOwes ==
  \A m \in Mutant : owner[m] # NULL => depth[m] > 0 /\ depth[m] = holds[owner[m]][m]

FreeHasNoWaiter == \A m \in Mutant : owner[m] = NULL => queue[m] = <<>>

IInv ==
  /\ TypeOK
  /\ CurrentNotReady
  /\ RunnerWaitsForNothing
  /\ InsideOwns
  /\ ListedWait
  /\ WaitersListed
  /\ ListedOnce
  /\ OwnerOwes
  /\ FreeHasNoWaiter

LEMMA ListedAppend ==
  ASSUME NEW q \in Seq(Thread), NEW t \in Thread
  PROVE  /\ Append(q, t) \in Seq(Thread)
         /\ \A u \in Thread : Listed(Append(q, t), u) <=> Listed(q, u) \/ u = t
         /\ Distinct(q) /\ ~Listed(q, t) => Distinct(Append(q, t))
<1>1. /\ Append(q, t) \in Seq(Thread)
      /\ Len(Append(q, t)) = Len(q) + 1
      /\ \A i \in 1 .. Len(q) : Append(q, t)[i] = q[i]
      /\ Append(q, t)[Len(q) + 1] = t
      /\ Len(q) \in Nat
  OBVIOUS
<1>. QED
  BY <1>1 DEF Listed, Distinct

LEMMA ListedTail ==
  ASSUME NEW q \in Seq(Thread), q # <<>>
  PROVE  /\ Head(q) \in Thread /\ Listed(q, Head(q))
         /\ Tail(q) \in Seq(Thread)
         /\ \A u \in Thread : Listed(Tail(q), u) => Listed(q, u)
         /\ \A u \in Thread : Listed(q, u) => Listed(Tail(q), u) \/ u = Head(q)
         /\ Distinct(q) => Distinct(Tail(q)) /\ ~Listed(Tail(q), Head(q))
<1>1. /\ Tail(q) \in Seq(Thread)
      /\ Len(q) \in Nat /\ Len(q) >= 1
      /\ Len(Tail(q)) = Len(q) - 1
      /\ \A i \in 1 .. Len(q) - 1 : Tail(q)[i] = q[i + 1]
      /\ Head(q) = q[1] /\ q[1] \in Thread
  OBVIOUS
<1>2. \A u \in Thread : Listed(Tail(q), u) => Listed(q, u)
  BY <1>1 DEF Listed
<1>3. ASSUME NEW u \in Thread, Listed(q, u)
      PROVE  Listed(Tail(q), u) \/ u = Head(q)
  <2>1. PICK i \in 1 .. Len(q) : q[i] = u
    BY <1>3 DEF Listed
  <2>2. CASE i = 1
    BY <2>1, <2>2, <1>1
  <2>3. CASE i # 1
    <3>1. i - 1 \in 1 .. Len(Tail(q)) /\ Tail(q)[i - 1] = u
      BY <2>1, <2>3, <1>1
    <3>. QED
      BY <3>1 DEF Listed
  <2>. QED
    BY <2>2, <2>3
<1>4. ASSUME Distinct(q)
      PROVE  Distinct(Tail(q)) /\ ~Listed(Tail(q), Head(q))
  <2>1. ASSUME NEW i \in 1 .. Len(Tail(q)), NEW j \in 1 .. Len(Tail(q)),
               Tail(q)[i] = Tail(q)[j]
        PROVE  i = j
    <3>1. q[i + 1] = q[j + 1] /\ i + 1 \in 1 .. Len(q) /\ j + 1 \in 1 .. Len(q)
      BY <2>1, <1>1
    <3>. QED
      BY <3>1, <1>4 DEF Distinct
  <2>2. ASSUME NEW i \in 1 .. Len(Tail(q))
        PROVE  Tail(q)[i] # Head(q)
    <3>1. Tail(q)[i] = q[i + 1] /\ i + 1 \in 1 .. Len(q) /\ i + 1 # 1 /\ 1 \in 1 .. Len(q)
      BY <1>1
    <3>. QED
      BY <3>1, <1>1, <1>4 DEF Distinct
  <2>. QED
    BY <2>1, <2>2 DEF Distinct, Listed
<1>5. Listed(q, Head(q))
  BY <1>1 DEF Listed
<1>. QED
  BY <1>1, <1>2, <1>3, <1>4, <1>5

-----------------------------------------------------------------------------
LEMMA InitIInv == Init => IInv
<1> SUFFICES ASSUME Init
             PROVE  IInv
  OBVIOUS
<1>1. TypeOK
  BY CpuAssumption, MutantsAssumption DEF Init, CpuInit, TypeOK, CpuTypeOK, CpuState
<1>2. CurrentNotReady /\ RunnerWaitsForNothing
  BY DEF Init, CpuInit, CurrentNotReady, RunnerWaitsForNothing
<1>3. InsideOwns /\ OwnerOwes
  BY CpuAssumption, MutantsAssumption DEF Init, InsideOwns, Inside, OwnerOwes
<1>4. ListedWait /\ ListedOnce /\ FreeHasNoWaiter
  BY DEF Init, ListedWait, ListedOnce, FreeHasNoWaiter, Listed, Distinct
<1>5. WaitersListed
  BY MutantsAssumption DEF Init, WaitersListed
<1>. QED
  BY <1>1, <1>2, <1>3, <1>4, <1>5 DEF IInv

LEMMA SwitchStep ==
  ASSUME IInv, NEW t \in Thread, Switch(t)
  PROVE  IInv'
<1> USE CpuAssumption, MutantsAssumption
<1>1. TypeOK'
  BY DEF IInv, TypeOK, Switch, SwitchTo, CpuTypeOK, CpuState
<1>2. CurrentNotReady'
  BY DEF IInv, CurrentNotReady, Switch, SwitchTo
<1>3. RunnerWaitsForNothing'
  BY DEF IInv, RunnerWaitsForNothing, Switch, SwitchTo, Running, TypeOK, CpuTypeOK
<1>4. InsideOwns'
  BY DEF IInv, InsideOwns, Switch, SwitchTo, Inside, ListedWait, WaitersListed, TypeOK,
     CpuTypeOK
<1>5. ListedWait'
  BY DEF IInv, ListedWait, Switch, SwitchTo, CurrentNotReady, RunnerWaitsForNothing,
     Running, TypeOK, CpuTypeOK
<1>6. WaitersListed'
  BY DEF IInv, WaitersListed, Switch, SwitchTo, TypeOK, CpuTypeOK
<1>7. ListedOnce'
  BY DEF IInv, ListedOnce, Switch, SwitchTo
<1>8. OwnerOwes'
  BY DEF IInv, OwnerOwes, Switch, SwitchTo
<1>9. FreeHasNoWaiter'
  BY DEF IInv, FreeHasNoWaiter, Switch, SwitchTo
<1>. QED
  BY <1>1, <1>2, <1>3, <1>4, <1>5, <1>6, <1>7, <1>8, <1>9 DEF IInv

LEMMA EndStep ==
  ASSUME IInv, NEW t \in Thread, End(t)
  PROVE  IInv'
<1> USE CpuAssumption, MutantsAssumption
<1>1. TypeOK'
  BY DEF IInv, TypeOK, End, mutantVars, CpuTypeOK, CpuState
<1>2. CurrentNotReady'
  BY DEF IInv, CurrentNotReady, End, mutantVars
<1>3. RunnerWaitsForNothing'
  BY DEF IInv, RunnerWaitsForNothing, End, mutantVars, Running, TypeOK, CpuTypeOK
<1>4. InsideOwns'
  BY DEF IInv, InsideOwns, End, mutantVars, Inside
<1>5. ListedWait'
  BY DEF IInv, ListedWait, End, mutantVars
<1>6. WaitersListed'
  BY DEF IInv, WaitersListed, End, mutantVars
<1>7. ListedOnce'
  BY DEF IInv, ListedOnce, End, mutantVars
<1>8. OwnerOwes'
  BY DEF IInv, OwnerOwes, End, mutantVars
<1>9. FreeHasNoWaiter'
  BY DEF IInv, FreeHasNoWaiter, End, mutantVars
<1>. QED
  BY <1>1, <1>2, <1>3, <1>4, <1>5, <1>6, <1>7, <1>8, <1>9 DEF IInv

LEMMA WaitFreeStep ==
  ASSUME IInv, NEW t \in Thread, NEW m \in Mutant, WaitSingle(t, m), WaitFree(t, m)
  PROVE  IInv'
<1> USE CpuAssumption, MutantsAssumption
<1>1. /\ Running(t) /\ waitsFor[t] = NULL /\ holds[t][m] = 0
      /\ \A u \in Thread : ~Listed(queue[m], u)
  <2>1. Running(t) /\ waitsFor[t] = NULL /\ owner[m] = NULL
    BY DEF IInv, RunnerWaitsForNothing, WaitSingle, WaitFree
  <2>2. holds[t][m] \in Nat
    BY DEF IInv, TypeOK
  <2>3. ~(holds[t][m] > 0)
    BY <2>1 DEF IInv, InsideOwns, Inside
  <2>4. queue[m] = <<>>
    BY <2>1 DEF IInv, FreeHasNoWaiter
  <2>. QED
    BY <2>1, <2>2, <2>3, <2>4 DEF Listed
<1>2. TypeOK'
  BY <1>1 DEF IInv, TypeOK, WaitSingle, WaitFree, cpuVars, CpuTypeOK, CpuState
<1>3. CurrentNotReady'
  BY <1>1 DEF IInv, CurrentNotReady, WaitSingle, WaitFree, cpuVars
<1>4. RunnerWaitsForNothing'
  BY <1>1 DEF IInv, RunnerWaitsForNothing, WaitSingle, WaitFree, cpuVars, Running
<1>5. InsideOwns'
  BY <1>1 DEF IInv, InsideOwns, WaitSingle, WaitFree, cpuVars, Inside, TypeOK, CpuTypeOK
<1>6. ListedWait'
  BY <1>1 DEF IInv, ListedWait, WaitSingle, WaitFree, cpuVars, TypeOK,
     CpuTypeOK
<1>7. WaitersListed'
  BY <1>1 DEF IInv, WaitersListed, WaitSingle, WaitFree, cpuVars, TypeOK, CpuTypeOK
<1>8. ListedOnce'
  BY <1>1 DEF IInv, ListedOnce, WaitSingle, WaitFree, cpuVars
<1>9. OwnerOwes'
  BY <1>1 DEF IInv, OwnerOwes, WaitSingle, WaitFree, cpuVars, TypeOK, CpuTypeOK
<1>10. FreeHasNoWaiter'
  BY <1>1 DEF IInv, FreeHasNoWaiter, WaitSingle, WaitFree, cpuVars, TypeOK, CpuTypeOK
<1>. QED
  BY <1>2, <1>3, <1>4, <1>5, <1>6, <1>7, <1>8, <1>9, <1>10 DEF IInv

LEMMA WaitOwnedStep ==
  ASSUME IInv, NEW t \in Thread, NEW m \in Mutant, WaitSingle(t, m), WaitOwned(t, m)
  PROVE  IInv'
<1> USE CpuAssumption, MutantsAssumption
<1>1. Running(t) /\ waitsFor[t] = NULL
  BY DEF IInv, RunnerWaitsForNothing, WaitSingle
<1>2. TypeOK'
  BY <1>1 DEF IInv, TypeOK, WaitSingle, WaitOwned, cpuVars, CpuTypeOK, CpuState
<1>3. CurrentNotReady'
  BY <1>1 DEF IInv, CurrentNotReady, WaitSingle, WaitOwned, cpuVars
<1>4. RunnerWaitsForNothing'
  BY <1>1 DEF IInv, RunnerWaitsForNothing, WaitSingle, WaitOwned, cpuVars, Running
<1>5. InsideOwns'
  BY <1>1 DEF IInv, InsideOwns, WaitSingle, WaitOwned, cpuVars, Inside, TypeOK,
     CpuTypeOK
<1>6. ListedWait'
  BY <1>1 DEF IInv, ListedWait, WaitSingle, WaitOwned, cpuVars, TypeOK, CpuTypeOK
<1>7. WaitersListed'
  BY <1>1 DEF IInv, WaitersListed, WaitSingle, WaitOwned, cpuVars
<1>8. ListedOnce'
  BY <1>1 DEF IInv, ListedOnce, WaitSingle, WaitOwned, cpuVars
<1>9. OwnerOwes'
  BY <1>1 DEF IInv, OwnerOwes, WaitSingle, WaitOwned, cpuVars, TypeOK, CpuTypeOK
<1>10. FreeHasNoWaiter'
  BY <1>1 DEF IInv, FreeHasNoWaiter, WaitSingle, WaitOwned, cpuVars
<1>. QED
  BY <1>2, <1>3, <1>4, <1>5, <1>6, <1>7, <1>8, <1>9, <1>10 DEF IInv

LEMMA WaitBlockedStep ==
  ASSUME IInv, NEW t \in Thread, NEW m \in Mutant, WaitSingle(t, m), WaitBlocked(t, m)
  PROVE  IInv'
<1> USE CpuAssumption, MutantsAssumption
<1>1. /\ current = t /\ waitsFor[t] = NULL /\ holds[t][m] = 0
      /\ \A n \in Mutant : ~Listed(queue[n], t)
  <2>1. Running(t) /\ waitsFor[t] = NULL /\ owner[m] # t
    BY DEF IInv, RunnerWaitsForNothing, WaitSingle, WaitBlocked
  <2>2. holds[t][m] \in Nat
    BY DEF IInv, TypeOK
  <2>3. ~(holds[t][m] > 0)
    BY <2>1 DEF IInv, InsideOwns, Inside
  <2>. QED
    BY <2>1, <2>2, <2>3 DEF IInv, ListedWait, Running
<1>2. /\ queue' \in [Mutant -> Seq(Thread)]
      /\ \A n \in Mutant, u \in Thread :
           Listed(queue'[n], u) <=> Listed(queue[n], u) \/ (n = m /\ u = t)
      /\ \A n \in Mutant : Distinct(queue'[n])
      /\ \A n \in Mutant : n # m => queue'[n] = queue[n]
  <2>1. queue \in [Mutant -> Seq(Thread)] /\ \A n \in Mutant : Distinct(queue[n])
    BY DEF IInv, TypeOK, ListedOnce
  <2>2. queue' = [queue EXCEPT ![m] = Append(queue[m], t)]
    BY DEF WaitBlocked
  <2>3. queue'[m] = Append(queue[m], t) /\ \A n \in Mutant : n # m => queue'[n] = queue[n]
    BY <2>1, <2>2
  <2>4. /\ Append(queue[m], t) \in Seq(Thread)
        /\ \A u \in Thread : Listed(Append(queue[m], t), u) <=> Listed(queue[m], u) \/ u = t
        /\ Distinct(Append(queue[m], t))
    BY <1>1, <2>1, ListedAppend
  <2>. QED
    BY <2>1, <2>2, <2>3, <2>4
<1>3. TypeOK'
  BY <1>1, <1>2 DEF IInv, TypeOK, WaitSingle, WaitBlocked, Block, CpuTypeOK, CpuState
<1>4. CurrentNotReady'
  BY <1>1, <1>2 DEF IInv, CurrentNotReady, WaitSingle, WaitBlocked, Block
<1>5. RunnerWaitsForNothing'
  BY <1>1, <1>2 DEF IInv, RunnerWaitsForNothing, WaitSingle, WaitBlocked, Block,
     Running, TypeOK, CpuTypeOK
<1>6. InsideOwns'
  BY <1>1, <1>2 DEF IInv, InsideOwns, WaitSingle, WaitBlocked, Block, Inside, TypeOK,
     CpuTypeOK
<1>7. ListedWait'
  BY <1>1, <1>2 DEF IInv, ListedWait, WaitSingle, WaitBlocked, Block,
     CurrentNotReady, TypeOK, CpuTypeOK
<1>8. WaitersListed'
  BY <1>1, <1>2 DEF IInv, WaitersListed, WaitSingle, WaitBlocked, Block, TypeOK,
     CpuTypeOK
<1>9. ListedOnce'
  BY <1>1, <1>2 DEF IInv, ListedOnce, WaitSingle, WaitBlocked, Block
<1>10. OwnerOwes'
  BY <1>1, <1>2 DEF IInv, OwnerOwes, WaitSingle, WaitBlocked, Block, TypeOK,
     CpuTypeOK
<1>11. FreeHasNoWaiter'
  BY <1>1, <1>2 DEF IInv, FreeHasNoWaiter, WaitSingle, WaitBlocked, Block, TypeOK,
     CpuTypeOK
<1>. QED
  BY <1>3, <1>4, <1>5, <1>6, <1>7, <1>8, <1>9, <1>10, <1>11 DEF IInv

LEMMA ReleaseInnerStep ==
  ASSUME IInv, NEW t \in Thread, NEW m \in Mutant, ReleaseMutant(t, m), depth[m] > 1
  PROVE  IInv'
<1> USE CpuAssumption, MutantsAssumption
<1>1. /\ owner[m] = t /\ holds[t][m] = depth[m] /\ waitsFor[t] = NULL
      /\ depth' = [depth EXCEPT ![m] = depth[m] - 1]
      /\ holds' = [holds EXCEPT ![t][m] = holds[t][m] - 1]
      /\ UNCHANGED <<cpuVars, owner, queue, waitsFor>>
  BY DEF IInv, TypeOK, ReleaseMutant, MayRelease, OwnerOwes, RunnerWaitsForNothing
<1>2. TypeOK'
  BY <1>1 DEF IInv, TypeOK, cpuVars, CpuTypeOK, CpuState
<1>3. CurrentNotReady'
  BY <1>1 DEF IInv, CurrentNotReady, cpuVars
<1>4. RunnerWaitsForNothing'
  BY <1>1 DEF IInv, RunnerWaitsForNothing, cpuVars, Running
<1>5. InsideOwns'
  BY <1>1 DEF IInv, InsideOwns, cpuVars, Inside, TypeOK, CpuTypeOK
<1>6. ListedWait'
  BY <1>1 DEF IInv, ListedWait, cpuVars, TypeOK, CpuTypeOK
<1>7. WaitersListed'
  BY <1>1 DEF IInv, WaitersListed, cpuVars
<1>8. ListedOnce'
  BY <1>1 DEF IInv, ListedOnce, cpuVars
<1>9. OwnerOwes'
  BY <1>1 DEF IInv, OwnerOwes, cpuVars, TypeOK, CpuTypeOK
<1>10. FreeHasNoWaiter'
  BY <1>1 DEF IInv, FreeHasNoWaiter, cpuVars
<1>. QED
  BY <1>2, <1>3, <1>4, <1>5, <1>6, <1>7, <1>8, <1>9, <1>10 DEF IInv

LEMMA ReleaseLastStep ==
  ASSUME IInv, NEW t \in Thread, NEW m \in Mutant, ReleaseMutant(t, m), depth[m] = 1, queue[m] = <<>>
  PROVE  IInv'
<1> USE CpuAssumption, MutantsAssumption
<1>1. /\ owner[m] = t /\ holds[t][m] = 1 /\ waitsFor[t] = NULL
      /\ owner' = [owner EXCEPT ![m] = NULL]
      /\ depth' = [depth EXCEPT ![m] = 0]
      /\ holds' = [holds EXCEPT ![t][m] = holds[t][m] - 1]
      /\ UNCHANGED <<cpuVars, queue, waitsFor>>
  BY DEF IInv, TypeOK, ReleaseMutant, HandOver, MayRelease, OwnerOwes, RunnerWaitsForNothing
<1>2. \A u \in Thread : ~Listed(queue[m], u)
  BY DEF Listed
<1>3. TypeOK'
  BY <1>1, <1>2 DEF IInv, TypeOK, cpuVars, CpuTypeOK, CpuState
<1>4. CurrentNotReady'
  BY <1>1, <1>2 DEF IInv, CurrentNotReady, cpuVars
<1>5. RunnerWaitsForNothing'
  BY <1>1, <1>2 DEF IInv, RunnerWaitsForNothing, cpuVars, Running
<1>6. InsideOwns'
  BY <1>1, <1>2 DEF IInv, InsideOwns, cpuVars, Inside, TypeOK, CpuTypeOK
<1>7. ListedWait'
  BY <1>1, <1>2 DEF IInv, ListedWait, cpuVars, TypeOK, CpuTypeOK
<1>8. WaitersListed'
  BY <1>1, <1>2 DEF IInv, WaitersListed, cpuVars, TypeOK, CpuTypeOK
<1>9. ListedOnce'
  BY <1>1, <1>2 DEF IInv, ListedOnce, cpuVars
<1>10. OwnerOwes'
  BY <1>1, <1>2 DEF IInv, OwnerOwes, cpuVars, TypeOK, CpuTypeOK
<1>11. FreeHasNoWaiter'
  BY <1>1, <1>2 DEF IInv, FreeHasNoWaiter, cpuVars, TypeOK, CpuTypeOK
<1>. QED
  BY <1>3, <1>4, <1>5, <1>6, <1>7, <1>8, <1>9, <1>10, <1>11 DEF IInv

LEMMA HandOverStep ==
  ASSUME IInv, NEW t \in Thread, NEW m \in Mutant, ReleaseMutant(t, m), depth[m] = 1, queue[m] # <<>>
  PROVE  IInv'
<1> USE CpuAssumption, MutantsAssumption
<1> DEFINE h == Head(queue[m])
<1>1. /\ Running(t) /\ owner[m] = t /\ holds[t][m] = 1 /\ waitsFor[t] = NULL
      /\ owner' = [owner EXCEPT ![m] = h]
      /\ depth' = [depth EXCEPT ![m] = 1]
      /\ queue' = [queue EXCEPT ![m] = Tail(queue[m])]
      /\ holds' = [holds EXCEPT ![t][m] = holds[t][m] - 1]
      /\ Unblock(h)
      /\ UNCHANGED waitsFor
  BY DEF IInv, TypeOK, ReleaseMutant, HandOver, MayRelease, OwnerOwes, RunnerWaitsForNothing
<1>2. /\ h \in Thread /\ h # t /\ waitsFor[h] = m /\ holds[h][m] = 1 /\ h # current
  <2>1. h \in Thread /\ Listed(queue[m], h)
    BY ListedTail DEF IInv, TypeOK
  <2>. QED
    BY <1>1, <2>1 DEF IInv, ListedWait, Running
<1>3. /\ queue' \in [Mutant -> Seq(Thread)]
      /\ \A n \in Mutant, u \in Thread : Listed(queue'[n], u) => Listed(queue[n], u)
      /\ \A n \in Mutant, u \in Thread :
           Listed(queue[n], u) => Listed(queue'[n], u) \/ (n = m /\ u = h)
      /\ \A n \in Mutant : ~Listed(queue'[n], h)
      /\ \A n \in Mutant : Distinct(queue'[n])
      /\ \A n \in Mutant : n # m => queue'[n] = queue[n]
  <2>1. queue \in [Mutant -> Seq(Thread)] /\ \A n \in Mutant : Distinct(queue[n])
    BY DEF IInv, TypeOK, ListedOnce
  <2>2. queue'[m] = Tail(queue[m]) /\ \A n \in Mutant : n # m => queue'[n] = queue[n]
    BY <1>1, <2>1
  <2>3. /\ Tail(queue[m]) \in Seq(Thread)
        /\ \A u \in Thread : Listed(Tail(queue[m]), u) => Listed(queue[m], u)
        /\ \A u \in Thread : Listed(queue[m], u) => Listed(Tail(queue[m]), u) \/ u = h
        /\ Distinct(Tail(queue[m])) /\ ~Listed(Tail(queue[m]), h)
    BY <2>1, ListedTail
  <2>4. \A n \in Mutant : n # m => ~Listed(queue[n], h)
    BY <1>2 DEF IInv, ListedWait
  <2>. QED
    BY <1>1, <2>1, <2>2, <2>3, <2>4
<1> HIDE DEF h
<1>4. TypeOK'
  <2>1. CpuTypeOK'
    <3>1. CpuTypeOK /\ UNCHANGED current
      BY <1>1 DEF IInv, TypeOK, Unblock
    <3>2. CASE state[h] = "TERMINATED"
      BY <1>1, <3>1, <3>2 DEF CpuTypeOK, Unblock
    <3>3. CASE state[h] # "TERMINATED"
      <4>1. state' = [state EXCEPT ![h] = "READY"] /\ ready' = ready \cup {h}
        BY <1>1, <3>3 DEF Unblock
      <4>. QED
        BY <1>2, <3>1, <4>1 DEF CpuTypeOK, CpuState
    <3>. QED
      BY <3>2, <3>3
  <2>2. holds' \in [Thread -> [Mutant -> Nat]]
    BY <1>1 DEF IInv, TypeOK
  <2>. QED
    BY <1>1, <1>2, <1>3, <2>1, <2>2 DEF IInv, TypeOK
<1>5. CurrentNotReady'
  BY <1>1, <1>2, <1>3 DEF IInv, CurrentNotReady, Unblock
<1>6. RunnerWaitsForNothing'
  BY <1>1, <1>2, <1>3 DEF IInv, RunnerWaitsForNothing, Unblock, Running, TypeOK,
     CpuTypeOK
<1>13. /\ \A u \in Thread, n \in Mutant : n # m => holds'[u][n] = holds[u][n]
       /\ \A u \in Thread : u # t => holds'[u][m] = holds[u][m]
       /\ holds'[t][m] = 0
       /\ owner'[m] = h /\ depth'[m] = 1
       /\ \A n \in Mutant : n # m => owner'[n] = owner[n] /\ depth'[n] = depth[n]
  BY <1>1 DEF IInv, TypeOK
<1>7. InsideOwns'
  <2>1. SUFFICES ASSUME NEW u \in Thread, NEW n \in Mutant, Inside(u, n)'
                 PROVE  owner'[n] = u
    BY DEF InsideOwns
  <2>2. CASE n = m
    <3>1. u # t
      BY <1>13, <2>1, <2>2 DEF Inside
    <3>2. Inside(u, m)
      BY <1>1, <1>13, <2>1, <2>2, <3>1 DEF Inside
    <3>. QED
      BY <1>1, <3>1, <3>2 DEF IInv, InsideOwns
  <2>3. CASE n # m
    <3>1. Inside(u, n)
      BY <1>1, <1>13, <2>1, <2>3 DEF Inside
    <3>. QED
      BY <1>13, <2>3, <3>1 DEF IInv, InsideOwns
  <2>. QED
    BY <2>2, <2>3
<1>8. ListedWait'
  BY <1>1, <1>2, <1>3 DEF IInv, ListedWait, Unblock, TypeOK, CpuTypeOK
<1>9. WaitersListed'
  BY <1>1, <1>2, <1>3 DEF IInv, WaitersListed, Unblock, TypeOK, CpuTypeOK
<1>10. ListedOnce'
  BY <1>1, <1>2, <1>3 DEF IInv, ListedOnce, Unblock
<1>11. OwnerOwes'
  <2>1. SUFFICES ASSUME NEW n \in Mutant, owner'[n] # NULL
                 PROVE  depth'[n] > 0 /\ depth'[n] = holds'[owner'[n]][n]
    BY DEF OwnerOwes
  <2>2. CASE n = m
    BY <1>2, <1>13, <2>2
  <2>3. CASE n # m
    <3>1. owner[n] \in Thread
      BY <1>13, <2>1, <2>3 DEF IInv, TypeOK
    <3>. QED
      BY <1>13, <2>1, <2>3, <3>1 DEF IInv, OwnerOwes
  <2>. QED
    BY <2>2, <2>3
<1>12. FreeHasNoWaiter'
  BY <1>1, <1>2, <1>3 DEF IInv, FreeHasNoWaiter, Unblock, TypeOK, CpuTypeOK
<1>. QED
  BY <1>4, <1>5, <1>6, <1>7, <1>8, <1>9, <1>10, <1>11, <1>12 DEF IInv

-----------------------------------------------------------------------------
LEMMA NextIInv == IInv /\ [Next]_vars => IInv'
<1> SUFFICES ASSUME IInv, [Next]_vars
             PROVE  IInv'
  OBVIOUS
<1>1. CASE \E t \in Thread : Switch(t) \/ End(t)
  BY <1>1, SwitchStep, EndStep
<1>2. ASSUME NEW t \in Thread, NEW m \in Mutant, WaitSingle(t, m)
      PROVE  IInv'
  BY <1>2, WaitFreeStep, WaitOwnedStep, WaitBlockedStep DEF WaitSingle
<1>3. ASSUME NEW t \in Thread, NEW m \in Mutant, ReleaseMutant(t, m)
      PROVE  IInv'
  <2>1. depth[m] > 1 \/ depth[m] = 1
    BY <1>3 DEF ReleaseMutant
  <2>. QED
    BY <1>3, <2>1, ReleaseInnerStep, ReleaseLastStep, HandOverStep
<1>4. CASE UNCHANGED vars
  BY <1>4 DEF IInv, TypeOK, CpuTypeOK, CurrentNotReady, RunnerWaitsForNothing, Running,
     InsideOwns, Inside, ListedWait, WaitersListed, ListedOnce, OwnerOwes,
     FreeHasNoWaiter, vars, cpuVars, mutantVars
<1>. QED
  BY <1>1, <1>2, <1>3, <1>4 DEF Next

\* The invariant holds in every reachable state.
THEOREM Invariance == Spec => []IInv
BY InitIInv, NextIInv, PTL DEF Spec

\* Every variable keeps a value of its kind; in particular no release takes the
\* depth or a thread's debt below 0.
THEOREM TypeCorrect == Spec => []TypeOK
<1>1. IInv => TypeOK
  BY DEF IInv
<1>. QED
  BY <1>1, Invariance, PTL

\* Two threads never both believe that they own a mutant, for any number of
\* threads and mutants, also when threads end while they own it or wait for it.
THEOREM Exclusion == Spec => []MutualExclusion
<1>1. IInv => MutualExclusion
  BY DEF IInv, InsideOwns, MutualExclusion
<1>. QED
  BY <1>1, Invariance, PTL

\* The owner's depth is the number of releases it owes, and only an owned mutant
\* has waiters.
THEOREM DepthCounts == Spec => []DepthOwed
<1>1. ASSUME IInv, NEW m \in Mutant, owner[m] = NULL, NEW t \in Thread
      PROVE  holds[t][m] = 0
  <2>1. queue[m] = <<>> /\ owner[m] # t
    BY <1>1, MutantsAssumption DEF IInv, FreeHasNoWaiter
  <2>2. ~Listed(queue[m], t)
    BY <2>1 DEF Listed
  <2>3. waitsFor[t] # m
    BY <1>1, <2>1, <2>2 DEF IInv, WaitersListed
  <2>4. ~(holds[t][m] > 0)
    BY <1>1, <2>1, <2>3 DEF IInv, InsideOwns, Inside
  <2>5. holds[t][m] \in Nat
    BY <1>1 DEF IInv, TypeOK
  <2>. QED
    BY <2>4, <2>5
<1>2. IInv => DepthOwed
  BY <1>1 DEF IInv, OwnerOwes, FreeHasNoWaiter, DepthOwed
<1>. QED
  BY <1>2, Invariance, PTL

-----------------------------------------------------------------------------
(***************************************************************************)
(* The semaphores.  The names are those of Semaphores; its list is called  *)
(* queue there, as the mutants' lists are here.                            *)
(***************************************************************************)
Members(q) == {q[i] : i \in 1 .. Len(q)}

\* The threads that have been woken and have not come back yet.
Woken == waiting \ S!Queued

(***************************************************************************)
(* The inductive invariant.  A thread in the list cannot get the CPU, so   *)
(* it stays until a release takes it out.  While nothing has been released *)
(* out of turn, a release that is under way with interrupts on has no unit *)
(* left, and the count that it will write is the 0 that it found.          *)
(***************************************************************************)
RunnerDoesNotWait == \A t \in Thread : S!Running(t) => t \notin waiting

QueuedWait == \A t \in S!Queued : t \in waiting /\ t \notin ready

PopsWithUnits == \A t \in Thread : pc[t] = "pop" => rel[t] > 0

Places ==
  /\ S!TypeOK
  /\ CurrentNotReady
  /\ RunnerDoesNotWait
  /\ QueuedWait
  /\ Distinct(list)
  /\ PopsWithUnits

NothingLeft ==
  clean => \A t \in Thread : pc[t] # "out" =>
    /\ pc[t] \in {"loop", "read", "write"}
    /\ rel[t] = 0
    /\ count = 0
    /\ pc[t] = "write" => sum[t] = 0

SemaIInv ==
  /\ Places
  /\ NothingLeft
  /\ S!UnitsConserved
  /\ S!NoWaiterWithUnits

-----------------------------------------------------------------------------
(* The list and the sets.                                                  *)

LEMMA AppendMembers ==
  ASSUME NEW q \in Seq(Thread), NEW t \in Thread
  PROVE  /\ Append(q, t) \in Seq(Thread) /\ Append(q, t) # <<>>
         /\ Members(Append(q, t)) = Members(q) \cup {t}
         /\ Distinct(q) /\ t \notin Members(q) => Distinct(Append(q, t))
<1>1. /\ Append(q, t) \in Seq(Thread)
      /\ Len(Append(q, t)) = Len(q) + 1
      /\ \A i \in 1 .. Len(q) : Append(q, t)[i] = q[i]
      /\ Append(q, t)[Len(q) + 1] = t
      /\ Len(q) \in Nat
  OBVIOUS
<1>2. Append(q, t) # <<>>
  BY <1>1
<1>. QED
  BY <1>1, <1>2 DEF Members, Distinct

LEMMA TailMembers ==
  ASSUME NEW q \in Seq(Thread), q # <<>>, Distinct(q)
  PROVE  /\ Head(q) \in Thread /\ Head(q) \in Members(q)
         /\ Tail(q) \in Seq(Thread) /\ Distinct(Tail(q))
         /\ Members(Tail(q)) = Members(q) \ {Head(q)}
<1>1. /\ Tail(q) \in Seq(Thread)
      /\ Len(q) \in Nat /\ Len(q) >= 1
      /\ Len(Tail(q)) = Len(q) - 1
      /\ \A i \in 1 .. Len(q) - 1 : Tail(q)[i] = q[i + 1]
      /\ Head(q) = q[1] /\ q[1] \in Thread
  OBVIOUS
<1>2. \A i \in 1 .. Len(Tail(q)) : i + 1 \in 1 .. Len(q) /\ i + 1 # 1 /\ Tail(q)[i] = q[i + 1]
  BY <1>1
<1>3. \A i \in 1 .. Len(q) : i = 1 \/ (i - 1 \in 1 .. Len(Tail(q)) /\ Tail(q)[i - 1] = q[i])
  BY <1>1
<1>4. 1 \in 1 .. Len(q) /\ q[1] \in Members(q)
  BY <1>1 DEF Members
<1>5. Distinct(Tail(q))
  <2>1. ASSUME NEW i \in 1 .. Len(Tail(q)), NEW j \in 1 .. Len(Tail(q)), Tail(q)[i] = Tail(q)[j]
        PROVE  i = j
    <3>1. i + 1 = j + 1
      BY <1>2, <2>1 DEF Distinct
    <3>. QED
      BY <1>1, <3>1
  <2>. QED
    BY <2>1 DEF Distinct
<1>6. ASSUME NEW u
      PROVE  u \in Members(Tail(q)) <=> u \in Members(q) /\ u # Head(q)
  <2>1. ASSUME u \in Members(Tail(q))
        PROVE  u \in Members(q) /\ u # Head(q)
    BY <1>1, <1>2, <1>4, <2>1 DEF Members, Distinct
  <2>2. ASSUME u \in Members(q), u # Head(q)
        PROVE  u \in Members(Tail(q))
    <3>1. PICK i \in 1 .. Len(q) : q[i] = u
      BY <2>2 DEF Members
    <3>2. i - 1 \in 1 .. Len(Tail(q)) /\ Tail(q)[i - 1] = u
      BY <1>1, <1>3, <2>2, <3>1
    <3>. QED
      BY <3>2 DEF Members
  <2>. QED
    BY <2>1, <2>2
<1>. QED
  BY <1>1, <1>4, <1>5, <1>6

\* The instance counts as this module does.
LEMMA SameCount ==
  ASSUME NEW x
  PROVE  S!Cardinality(x) = Cardinality(x)
BY DEF S!Cardinality, Cardinality

LEMMA WokenFinite ==
  ASSUME S!TypeOK
  PROVE  IsFiniteSet(Woken) /\ Cardinality(Woken) \in Nat
<1>1. Woken \in SUBSET Thread
  BY DEF S!TypeOK, Woken
<1>. QED
  BY <1>1, CpuAssumption, FS_Subset, FS_CardinalityType

\* UnblockThread leaves the CPU to who has it.
LEMMA UnblockStep ==
  ASSUME S!CpuTypeOK, NEW h \in Thread, S!Unblock(h)
  PROVE  /\ S!CpuTypeOK' /\ current' = current
         /\ \A u \in Thread : u # h => state'[u] = state[u] /\ (u \in ready' <=> u \in ready)
<1>1. CASE state[h] = "TERMINATED"
  BY <1>1 DEF S!CpuTypeOK, S!Unblock
<1>2. CASE state[h] # "TERMINATED"
  BY <1>2 DEF S!CpuTypeOK, S!Unblock, S!CpuState
<1>. QED
  BY <1>1, <1>2

-----------------------------------------------------------------------------
LEMMA InitSemaIInv ==
  ASSUME S!SemaphoresAssumption, S!Init
  PROVE  SemaIInv
<1>1. list = <<>> /\ S!Queued = {} /\ waiting = {} /\ Woken = {}
  BY DEF S!Init, S!Queued, Woken
<1>2. S!TypeOK
  BY CpuAssumption DEF S!Init, S!CpuInit, S!TypeOK, S!CpuTypeOK, S!CpuState, S!Location, S!SemaphoresAssumption
<1>3. Places
  BY <1>1, <1>2 DEF S!Init, S!CpuInit, Places, CurrentNotReady, RunnerDoesNotWait, QueuedWait,
                    Distinct, PopsWithUnits
<1>4. S!UnitsConserved
  <2>1. Cardinality(Woken) = 0
    BY <1>1, FS_EmptySet
  <2>. QED
    BY SameCount, <1>2, <2>1 DEF S!Init, S!UnitsConserved, S!TypeOK, Woken
<1>5. NothingLeft /\ S!NoWaiterWithUnits
  BY <1>1 DEF S!Init, NothingLeft, S!NoWaiterWithUnits
<1>. QED
  BY <1>3, <1>4, <1>5 DEF SemaIInv

\* A woken thread that comes back has its unit.
LEMMA SemaSwitchStep ==
  ASSUME SemaIInv, NEW t \in Thread, S!Switch(t)
  PROVE  SemaIInv'
<1>1. /\ Places /\ S!TypeOK /\ S!CpuTypeOK
      /\ UNCHANGED <<count, list, pc, rel, sum, released, clean>>
  BY DEF SemaIInv, Places, S!TypeOK, S!Switch
<1>2. S!Queued' = S!Queued /\ t \notin S!Queued
  BY <1>1 DEF S!Queued, Places, QueuedWait, S!Switch, S!SwitchTo
<1>3. Woken' = Woken \ {t} /\ (t \in Woken <=> t \in waiting)
  BY <1>2 DEF Woken, S!Switch
<1>4. Places'
  <2>1. S!CpuTypeOK'
    BY <1>1 DEF S!CpuTypeOK, S!Switch, S!SwitchTo, S!CpuState
  <2>2. S!TypeOK'
    BY <1>1, <2>1 DEF S!TypeOK, S!Switch
  <2>3. CurrentNotReady' /\ RunnerDoesNotWait'
    BY <1>1 DEF Places, CurrentNotReady, RunnerDoesNotWait, S!Switch, S!SwitchTo, S!Running, S!CpuTypeOK
  <2>4. QueuedWait'
    BY <1>1, <1>2 DEF Places, QueuedWait, RunnerDoesNotWait, S!Running, S!Switch, S!SwitchTo, S!CpuTypeOK
  <2>. QED
    BY <1>1, <2>2, <2>3, <2>4 DEF Places, PopsWithUnits, Distinct
<1>5. S!UnitsConserved'
  <2>1. Cardinality(Woken') = Cardinality(Woken) - (IF t \in waiting THEN 1 ELSE 0)
    <3>1. IsFiniteSet(Woken) /\ Cardinality(Woken) \in Nat
      BY <1>1, WokenFinite
    <3>2. Cardinality(Woken \ {t}) = IF t \in Woken THEN Cardinality(Woken) - 1 ELSE Cardinality(Woken)
      BY <3>1, FS_RemoveElement
    <3>. QED
      BY <1>3, <3>1, <3>2
  <2>2. clean => released = count + granted + Cardinality(Woken)
    BY SameCount DEF SemaIInv, S!UnitsConserved, Woken
  <2>3. Cardinality(Woken) \in Nat
    BY <1>1, WokenFinite
  <2>4. clean => released = count + granted' + Cardinality(Woken')
    BY <1>1, <2>1, <2>2, <2>3 DEF S!Switch, S!TypeOK
  <2>. QED
    BY SameCount, <1>1, <2>4 DEF S!UnitsConserved, Woken
<1>. QED
  BY <1>1, <1>4, <1>5 DEF SemaIInv, NothingLeft, S!NoWaiterWithUnits

LEMMA WaitStep ==
  ASSUME S!SemaphoresAssumption, SemaIInv, NEW t \in Thread, S!WaitSingle(t)
  PROVE  SemaIInv'
<1>1. /\ Places /\ S!TypeOK /\ S!CpuTypeOK /\ current = t /\ pc[t] = "out"
      /\ t \notin waiting /\ t \notin S!Queued
      /\ UNCHANGED <<pc, rel, sum, released, clean>>
  BY DEF SemaIInv, Places, S!TypeOK, RunnerDoesNotWait, QueuedWait, S!WaitSingle, S!At, S!Running
<1>2. clean => released = count + granted + Cardinality(Woken)
  BY SameCount DEF SemaIInv, S!UnitsConserved, Woken
<1>3. CASE count > 0
  <2>1. /\ count' = count - 1 /\ granted' = granted + 1
        /\ UNCHANGED <<S!cpuVars, list, waiting>>
    BY <1>3 DEF S!WaitSingle
  <2>2. S!Queued' = S!Queued /\ Woken' = Woken
    BY <2>1 DEF S!Queued, Woken
  <2>3. Places'
    <3>1. count' \in 0 .. MaxCount /\ granted' \in Nat
      BY <1>1, <1>3, <2>1 DEF S!TypeOK, S!SemaphoresAssumption
    <3>2. S!TypeOK'
      BY <1>1, <2>1, <3>1 DEF S!TypeOK, S!CpuTypeOK, S!cpuVars
    <3>. QED
      BY <1>1, <2>1, <2>2, <3>2 DEF Places, CurrentNotReady, RunnerDoesNotWait, S!Running, QueuedWait,
         Distinct, PopsWithUnits, S!cpuVars
  <2>4. S!UnitsConserved'
    <3>1. clean => released = count' + granted' + Cardinality(Woken)
      BY <1>1, <1>2, <2>1, WokenFinite DEF S!TypeOK
    <3>. QED
      BY SameCount, <1>1, <2>2, <3>1 DEF S!UnitsConserved, Woken
  <2>5. NothingLeft' /\ S!NoWaiterWithUnits'
    BY <1>1, <1>3, <2>1 DEF SemaIInv, NothingLeft, S!NoWaiterWithUnits, S!TypeOK
  <2>. QED
    BY <2>3, <2>4, <2>5 DEF SemaIInv
<1>4. CASE ~(count > 0)
  <2>1. /\ count = 0
        /\ list' = Append(list, t)
        /\ waiting' = waiting \cup {t}
        /\ S!Block
        /\ UNCHANGED <<count, granted>>
    BY <1>4 DEF S!WaitSingle
  <2>2. list' \in Seq(Thread) /\ S!Queued' = S!Queued \cup {t} /\ Distinct(list')
    <3>1. S!Queued = Members(list) /\ S!Queued' = Members(list')
      BY DEF S!Queued, Members
    <3>. QED
      BY <1>1, <2>1, <3>1, AppendMembers DEF Places, S!TypeOK
  <2>3. Woken' = Woken
    BY <1>1, <2>1, <2>2 DEF Woken
  <2>4. S!TypeOK'
    BY <1>1, <2>1, <2>2 DEF S!TypeOK, S!CpuTypeOK, S!Block, S!CpuState
  <2>5. CurrentNotReady' /\ RunnerDoesNotWait'
    BY <1>1, <2>1 DEF Places, CurrentNotReady, RunnerDoesNotWait, S!Running, S!Block, S!CpuTypeOK
  <2>6. QueuedWait'
    BY <1>1, <2>1, <2>2 DEF Places, QueuedWait, CurrentNotReady, S!Block
  <2>7. Places'
    BY <1>1, <2>2, <2>4, <2>5, <2>6 DEF Places, PopsWithUnits, Distinct
  <2>8. S!UnitsConserved'
    BY SameCount, <1>1, <1>2, <2>1, <2>3 DEF S!UnitsConserved, Woken
  <2>9. NothingLeft' /\ S!NoWaiterWithUnits'
    BY <1>1, <2>1 DEF SemaIInv, NothingLeft, S!NoWaiterWithUnits
  <2>. QED
    BY <2>7, <2>8, <2>9 DEF SemaIInv
<1>. QED
  BY <1>3, <1>4

LEMMA CappedRange ==
  ASSUME S!SemaphoresAssumption, NEW n \in Nat
  PROVE  S!Capped(n) \in 0 .. MaxCount /\ (n <= MaxCount => S!Capped(n) = n)
BY DEF S!Capped, S!SemaphoresAssumption

\* Units that nobody waits for go to the count.
LEMMA ReleaseToNoOneStep ==
  ASSUME S!SemaphoresAssumption, SemaIInv, NEW t \in Thread, NEW n \in Amounts,
         S!Release(t, n), S!ReleaseToNoOne(t, n)
  PROVE  SemaIInv'
<1>1. /\ Places /\ S!TypeOK /\ S!CpuTypeOK
      /\ count' = S!Capped(count + n) /\ released' = released + (count' - count)
      /\ UNCHANGED <<S!cpuVars, list, pc, rel, waiting, sum, granted>>
      /\ list = <<>>
  BY DEF SemaIInv, Places, S!TypeOK, S!Release, S!ReleaseToNoOne
<1>2. n \in Nat \ {0} /\ count \in 0 .. MaxCount /\ MaxCount \in Nat
  BY <1>1 DEF S!TypeOK, S!SemaphoresAssumption
<1>3. count' \in 0 .. MaxCount /\ count' >= count
  BY <1>1, <1>2 DEF S!Capped
<1>4. S!Queued' = S!Queued /\ Woken' = Woken
  BY <1>1 DEF S!Queued, Woken
<1>5. clean' => clean /\ \A u \in Thread : pc[u] = "out"
  BY DEF S!Release
<1>6. released' \in Nat
  BY <1>1, <1>2, <1>3 DEF S!TypeOK
<1>7. S!TypeOK'
  BY <1>1, <1>3, <1>6 DEF S!TypeOK, S!CpuTypeOK, S!cpuVars
<1>8. Places'
  BY <1>1, <1>4, <1>7 DEF Places, CurrentNotReady, RunnerDoesNotWait, S!Running, QueuedWait, Distinct,
     PopsWithUnits, S!cpuVars
<1>9. S!UnitsConserved'
  <2>1. clean => released = count + granted + Cardinality(Woken)
    BY SameCount DEF SemaIInv, S!UnitsConserved, Woken
  <2>2. clean => released' = count' + granted + Cardinality(Woken)
    <3>1. PICK w \in Nat : w = Cardinality(Woken)
      BY <1>1, WokenFinite
    <3>2. granted \in Nat /\ released \in Nat /\ released' = released + (count' - count)
      BY <1>1 DEF S!TypeOK
    <3>3. clean => released = count + granted + w
      BY <2>1, <3>1
    <3>4. clean => released' = count' + granted + w
      BY <1>2, <1>3, <3>2, <3>3
    <3>. QED
      BY <3>1, <3>4
  <2>. QED
    BY SameCount, <1>1, <1>4, <1>5, <2>2 DEF S!UnitsConserved, Woken
<1>10. NothingLeft' /\ S!NoWaiterWithUnits'
  BY <1>1, <1>5 DEF NothingLeft, S!NoWaiterWithUnits
<1>. QED
  BY <1>8, <1>9, <1>10 DEF SemaIInv

\* A unit goes to the first in the list, which leaves it.
LEMMA HandsOut ==
  ASSUME Places, NEW t \in Thread, S!Running(t), list # <<>>, list' = Tail(list),
         S!Unblock(Head(list)), waiting' = waiting
  PROVE  /\ S!CpuTypeOK' /\ CurrentNotReady' /\ RunnerDoesNotWait' /\ QueuedWait'
         /\ list' \in Seq(Thread) /\ Distinct(list')
         /\ Woken' = Woken \cup {Head(list)} /\ Head(list) \notin Woken
<1> DEFINE h == Head(list)
<1>1. S!Queued = Members(list) /\ S!Queued' = Members(list')
  BY DEF S!Queued, Members
<1>2. S!TypeOK /\ S!CpuTypeOK /\ list \in Seq(Thread) /\ Distinct(list)
  BY DEF Places, S!TypeOK
<1>3. /\ h \in Thread /\ h \in S!Queued /\ list' \in Seq(Thread) /\ Distinct(list')
      /\ S!Queued' = S!Queued \ {h}
  BY <1>1, <1>2, TailMembers
<1>4. h \in waiting /\ h # t /\ current = t
  BY <1>3 DEF Places, QueuedWait, RunnerDoesNotWait, S!Running
<1>5. /\ S!CpuTypeOK' /\ current' = current
      /\ \A u \in Thread : u # h => state'[u] = state[u] /\ (u \in ready' <=> u \in ready)
  BY <1>2, <1>3, UnblockStep
<1>6. CurrentNotReady'
  BY <1>4, <1>5 DEF Places, CurrentNotReady
<1>7. RunnerDoesNotWait'
  BY <1>4, <1>5 DEF Places, RunnerDoesNotWait, S!Running
<1>8. QueuedWait'
  <2>1. S!Queued \subseteq Thread
    BY <1>2 DEF Places, QueuedWait, S!TypeOK
  <2>. QED
    BY <1>3, <1>5, <2>1 DEF Places, QueuedWait
<1>9. Woken' = Woken \cup {h} /\ h \notin Woken
  BY <1>3, <1>4 DEF Woken
<1>. QED
  BY <1>3, <1>5, <1>6, <1>7, <1>8, <1>9

\* As long as it is one unit, and no other release is under way, it goes from
\* the releaser to the woken thread.
LEMMA ReleaseToFirstStep ==
  ASSUME S!SemaphoresAssumption, SemaIInv, NEW t \in Thread, NEW n \in Amounts,
         S!Release(t, n), S!ReleaseToFirst(t, n)
  PROVE  SemaIInv'
<1> DEFINE h == Head(list)
<1>1. /\ Places /\ S!TypeOK /\ S!Running(t) /\ pc[t] = "out"
      /\ list # <<>> /\ list' = Tail(list) /\ S!Unblock(h)
      /\ pc' = [pc EXCEPT ![t] = "loop"]
      /\ rel' = [rel EXCEPT ![t] = n - 1]
      /\ released' = released + n
      /\ UNCHANGED <<count, waiting, sum, granted>>
  BY DEF SemaIInv, Places, S!Release, S!ReleaseToFirst, S!At
<1>2. n \in Nat \ {0} /\ n - 1 \in Nat
  BY DEF S!SemaphoresAssumption
<1>3. /\ S!CpuTypeOK' /\ CurrentNotReady' /\ RunnerDoesNotWait' /\ QueuedWait'
      /\ list' \in Seq(Thread) /\ Distinct(list')
      /\ Woken' = Woken \cup {h} /\ h \notin Woken
  BY <1>1, HandsOut
<1>4. clean' => clean /\ n = 1 /\ \A u \in Thread : pc[u] = "out"
  BY <1>1 DEF S!Release
<1>5. S!TypeOK'
  <2>1. released' \in Nat /\ pc' \in [Thread -> S!Location] /\ rel' \in [Thread -> Nat]
    BY <1>1, <1>2 DEF S!TypeOK, S!Location
  <2>. QED
    BY <1>1, <1>3, <2>1 DEF S!TypeOK
<1>6. PopsWithUnits'
  BY <1>1 DEF Places, PopsWithUnits, S!TypeOK
<1>7. Places'
  BY <1>3, <1>5, <1>6 DEF Places, Distinct
<1>8. clean => count = 0
  BY <1>1 DEF SemaIInv, S!NoWaiterWithUnits
<1>9. S!UnitsConserved'
  <2>1. IsFiniteSet(Woken) /\ Cardinality(Woken) \in Nat
    BY <1>1, WokenFinite
  <2>2. Cardinality(Woken') = Cardinality(Woken) + 1
    BY <1>3, <2>1, FS_AddElement
  <2>3. clean => released = count + granted + Cardinality(Woken)
    BY SameCount DEF SemaIInv, S!UnitsConserved, Woken
  <2>4. clean' => released' = count + granted + Cardinality(Woken')
    BY <1>1, <1>4, <2>1, <2>2, <2>3 DEF S!TypeOK
  <2>. QED
    BY SameCount, <1>1, <2>4 DEF S!UnitsConserved, Woken
<1>10. NothingLeft'
  BY <1>1, <1>4, <1>8 DEF NothingLeft, S!TypeOK
<1>11. S!NoWaiterWithUnits'
  BY <1>1, <1>4, <1>8 DEF S!NoWaiterWithUnits
<1>. QED
  BY <1>7, <1>9, <1>10, <1>11 DEF SemaIInv

\* A release that still has units goes on as one that is not clean.
LEMMA PopStep ==
  ASSUME S!SemaphoresAssumption, SemaIInv, NEW t \in Thread, S!Pop(t)
  PROVE  SemaIInv'
<1>1. /\ Places /\ S!TypeOK /\ S!Running(t) /\ pc[t] = "pop"
      /\ list # <<>> /\ list' = Tail(list) /\ S!Unblock(Head(list))
      /\ rel' = [rel EXCEPT ![t] = rel[t] - 1]
      /\ pc' = [pc EXCEPT ![t] = "loop"]
      /\ UNCHANGED <<count, waiting, sum, released, granted, clean>>
  BY DEF SemaIInv, Places, S!Pop, S!At
<1>2. ~clean
  BY <1>1 DEF SemaIInv, NothingLeft
<1>3. /\ S!CpuTypeOK' /\ CurrentNotReady' /\ RunnerDoesNotWait' /\ QueuedWait'
      /\ list' \in Seq(Thread) /\ Distinct(list')
  BY <1>1, HandsOut
<1>4. S!TypeOK' /\ PopsWithUnits'
  <2>1. rel[t] - 1 \in Nat
    BY <1>1 DEF Places, PopsWithUnits, S!TypeOK
  <2>2. pc' \in [Thread -> S!Location] /\ rel' \in [Thread -> Nat]
    BY <1>1, <2>1 DEF S!TypeOK, S!Location
  <2>. QED
    BY <1>1, <1>3, <2>2 DEF S!TypeOK, Places, PopsWithUnits
<1>. QED
  BY <1>1, <1>2, <1>3, <1>4 DEF SemaIInv, Places, Distinct, NothingLeft, S!UnitsConserved, S!NoWaiterWithUnits

\* The steps that only look at the list and the count.
LEMMA LookStep ==
  ASSUME S!SemaphoresAssumption, SemaIInv, NEW t \in Thread, S!Loop(t) \/ S!Read(t)
  PROVE  SemaIInv'
<1>1. /\ Places /\ S!TypeOK
      /\ UNCHANGED <<S!cpuVars, count, list, waiting, rel, released, granted, clean>>
      /\ pc[t] # "out"
  BY DEF SemaIInv, Places, S!Loop, S!Read, S!At
<1>2. PICK l \in S!Location \ {"out"} :
        pc' = [pc EXCEPT ![t] = l] /\ (l = "pop" <=> S!Loop(t) /\ rel[t] > 0 /\ list # <<>>)
  BY <1>1 DEF S!Loop, S!Read, S!At, S!Location
<1>3. PICK k \in 0 .. MaxCount :
        /\ sum' = [sum EXCEPT ![t] = k]
        /\ clean => (l = "write" => k = 0)
  <2>1. CASE S!Loop(t)
    <3>1. sum' = [sum EXCEPT ![t] = sum[t]] /\ sum[t] \in 0 .. MaxCount /\ l # "write"
      BY <1>1, <1>2, <2>1 DEF S!Loop, S!TypeOK
    <3>. QED
      BY <3>1
  <2>2. CASE S!Read(t)
    <3>1. clean => count = 0 /\ rel[t] = 0
      BY <1>1 DEF SemaIInv, NothingLeft
    <3>2. S!Capped(count + rel[t]) \in 0 .. MaxCount /\ S!Capped(0) = 0
      BY <1>1, CappedRange DEF S!TypeOK, S!SemaphoresAssumption
    <3>3. clean => S!Capped(count + rel[t]) = 0
      BY <3>1, <3>2
    <3>4. sum' = [sum EXCEPT ![t] = S!Capped(count + rel[t])]
      BY <2>2 DEF S!Read
    <3>. QED
      BY <3>2, <3>3, <3>4
  <2>. QED
    BY <2>1, <2>2
<1>4. S!Queued' = S!Queued /\ Woken' = Woken
  BY <1>1 DEF S!Queued, Woken
<1>5. S!TypeOK' /\ PopsWithUnits'
  BY <1>1, <1>2, <1>3 DEF S!TypeOK, S!CpuTypeOK, S!cpuVars, Places, PopsWithUnits
<1>6. Places'
  BY <1>1, <1>4, <1>5 DEF Places, CurrentNotReady, RunnerDoesNotWait, S!Running, QueuedWait, Distinct,
     S!cpuVars
<1>7. S!UnitsConserved' /\ S!NoWaiterWithUnits'
  BY SameCount, <1>1, <1>4 DEF SemaIInv, S!UnitsConserved, S!NoWaiterWithUnits, Woken
<1>8. NothingLeft'
  <2>1. ASSUME clean
        PROVE  count = 0 /\ rel[t] = 0 /\ l \in {"loop", "read", "write"}
    BY <1>1, <1>2, <2>1 DEF SemaIInv, NothingLeft, S!Location, S!TypeOK
  <2>. QED
    BY <1>1, <1>2, <1>3, <2>1 DEF SemaIInv, NothingLeft, S!TypeOK
<1>. QED
  BY <1>6, <1>7, <1>8 DEF SemaIInv

\* What is written back is the 0 that was there, or nothing is claimed.
LEMMA WriteStep ==
  ASSUME S!SemaphoresAssumption, SemaIInv, NEW t \in Thread, S!Write(t)
  PROVE  SemaIInv'
<1>1. /\ Places /\ S!TypeOK /\ pc[t] = "write" /\ count' = sum[t]
      /\ pc' = [pc EXCEPT ![t] = "out"]
      /\ UNCHANGED <<S!cpuVars, list, waiting, rel, sum, released, granted, clean>>
  BY DEF SemaIInv, Places, S!Write, S!At
<1>2. clean => count = 0 /\ sum[t] = 0
  BY <1>1 DEF SemaIInv, NothingLeft
<1>3. S!Queued' = S!Queued /\ Woken' = Woken
  BY <1>1 DEF S!Queued, Woken
<1>4. S!TypeOK' /\ PopsWithUnits'
  BY <1>1 DEF S!TypeOK, S!CpuTypeOK, S!cpuVars, S!Location, Places, PopsWithUnits
<1>5. Places'
  BY <1>1, <1>3, <1>4 DEF Places, CurrentNotReady, RunnerDoesNotWait, S!Running, QueuedWait, Distinct,
     S!cpuVars
<1>6. S!UnitsConserved' /\ S!NoWaiterWithUnits'
  BY SameCount, <1>1, <1>2, <1>3 DEF SemaIInv, S!UnitsConserved, S!NoWaiterWithUnits, Woken
<1>7. NothingLeft'
  BY <1>1, <1>2 DEF SemaIInv, NothingLeft, S!TypeOK
<1>. QED
  BY <1>5, <1>6, <1>7 DEF SemaIInv

-----------------------------------------------------------------------------
LEMMA NextSemaIInv ==
  ASSUME S!SemaphoresAssumption, SemaIInv, [S!Next]_(S!vars)
  PROVE  SemaIInv'
<1>1. ASSUME NEW t \in Thread, S!Switch(t)
      PROVE  SemaIInv'
  BY <1>1, SemaSwitchStep
<1>2. ASSUME NEW t \in Thread, S!WaitSingle(t)
      PROVE  SemaIInv'
  BY <1>2, WaitStep
<1>3. ASSUME NEW t \in Thread, NEW n \in Amounts, S!Release(t, n)
      PROVE  SemaIInv'
  BY <1>3, ReleaseToNoOneStep, ReleaseToFirstStep DEF S!Release
<1>4. ASSUME NEW t \in Thread, S!Pop(t)
      PROVE  SemaIInv'
  BY <1>4, PopStep
<1>5. ASSUME NEW t \in Thread, S!Loop(t) \/ S!Read(t)
      PROVE  SemaIInv'
  BY <1>5, LookStep
<1>6. ASSUME NEW t \in Thread, S!Write(t)
      PROVE  SemaIInv'
  BY <1>6, WriteStep
<1>7. CASE UNCHANGED S!vars
  <2>1. S!Queued' = S!Queued
    BY <1>7 DEF S!Queued, S!vars, S!semaVars
  <2>. QED
    BY <1>7, <2>1 DEF S!vars, S!cpuVars, S!semaVars, SemaIInv, Places, S!TypeOK, S!CpuTypeOK, CurrentNotReady,
       RunnerDoesNotWait, S!Running, QueuedWait, Distinct, PopsWithUnits, NothingLeft,
       S!UnitsConserved, S!NoWaiterWithUnits
<1>. QED
  BY <1>1, <1>2, <1>3, <1>4, <1>5, <1>6, <1>7 DEF S!Next

\* Who waits is in the list or has been woken, and a release under way has
\* nothing left to lose while no release has been interrupted with units left.
THEOREM SemaInvariance ==
  ASSUME S!SemaphoresAssumption
  PROVE  S!Spec => []SemaIInv
<1>1. S!Init => SemaIInv
  BY InitSemaIInv
<1>2. SemaIInv /\ [S!Next]_(S!vars) => SemaIInv'
  BY NextSemaIInv
<1>. QED
  BY <1>1, <1>2, PTL DEF S!Spec

\* The count never leaves 0 .. max_count, whatever releases overlap, and no
\* release hands out more units than it has.
THEOREM SemaTypeCorrect ==
  ASSUME S!SemaphoresAssumption
  PROVE  S!Spec => []S!TypeOK
<1>1. SemaIInv => S!TypeOK
  BY DEF SemaIInv, Places
<1>. QED
  BY <1>1, SemaInvariance, PTL

\* Units are neither made nor lost, while no release has been interrupted with
\* units left to hand out and no two have overlapped.
THEOREM Conservation ==
  ASSUME S!SemaphoresAssumption
  PROVE  S!Spec => []UnitsConserved
<1>1. SemaIInv => UnitsConserved
  BY DEF SemaIInv, UnitsConserved
<1>. QED
  BY <1>1, SemaInvariance, PTL

\* No thread waits while there are units, under the same condition.
THEOREM WaitersGetUnits ==
  ASSUME S!SemaphoresAssumption
  PROVE  S!Spec => []NoWaiterWithUnits
<1>1. SemaIInv => NoWaiterWithUnits
  BY DEF SemaIInv, NoWaiterWithUnits
<1>. QED
  BY <1>1, SemaInvariance, PTL

=============================================================================
