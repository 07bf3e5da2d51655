---------------------------- MODULE EventsProofs ----------------------------
(***************************************************************************)
(* Theorems about the events for any number of threads, of events of both  *)
(* kinds, and of sets.                                                     *)
(***************************************************************************)
EXTENDS Events, FiniteSetTheorems, TLAPS

Listed(q, t) == \E i \in 1 .. Len(q) : q[i] = t

Distinct(q) == \A i, j \in 1 .. Len(q) : q[i] = q[j] => i = j

(***************************************************************************)
(* The inductive invariant.  A thread on its way out of a wait is in one   *)
(* place after the other: in the list, in the hands of one EventSet, among *)
(* the ready threads.  A thread in the first two cannot get the CPU, so    *)
(* nothing it does can disturb the place it has.                           *)
(***************************************************************************)
NoneEnds == \A t \in Thread : state[t] # "TERMINATED"

CurrentNotReady == current \notin ready

RunnerWaitsForNothing == \A t \in Thread : Running(t) => waitsFor[t] = NULL

ListedWait ==
  \A t \in Thread, e \in Event : Listed(waiters[e], t) =>
    waitsFor[t] = e /\ t \notin ready /\ \A u \in Thread : waking[u] # t

ListedOnce == \A e \in Event : Distinct(waiters[e])

WokenWait ==
  \A t, u \in Thread : waking[u] = t =>
    waitsFor[t] # NULL /\ t \notin ready /\ \A v \in Thread : waking[v] = t => v = u

NoneForgotten ==
  \A t \in Thread : waitsFor[t] # NULL =>
    Listed(waiters[waitsFor[t]], t) \/ (\E u \in Thread : waking[u] = t) \/ t \in ready

OnlyAutoCounted == \A e \in Event \ AutoReset : passes[e] = 0

\* TypeOK, but for the bound of passes, which is OneWaitPerSet's.
KindsOK ==
  /\ CpuTypeOK
  /\ signaled \in [Event -> BOOLEAN]
  /\ waiters \in [Event -> Seq(Thread)]
  /\ waitsFor \in [Thread -> Event \cup {NULL}]
  /\ limit \in [Thread -> {"zero", "finite", "infinite"}]
  /\ waking \in [Thread -> Thread \cup {NULL}]
  /\ sets \in [Event -> 0 .. MaxSets + 1]
  /\ passes \in [Event -> Nat]

\* Where the waiting threads are, which a signal's count depends on.
Places ==
  /\ KindsOK
  /\ NoneEnds
  /\ CurrentNotReady
  /\ RunnerWaitsForNothing
  /\ ListedWait
  /\ ListedOnce
  /\ WokenWait
  /\ NoneForgotten

IInv ==
  /\ Places
  /\ NoWaiterMissesSignal
  /\ OnlyAutoCounted
  /\ OneWaitPerSet

LEMMA ListedPush ==
  ASSUME NEW q \in Seq(Thread), NEW t \in Thread
  PROVE  /\ <<t>> \o q \in Seq(Thread)
         /\ \A u \in Thread : Listed(<<t>> \o q, u) <=> Listed(q, u) \/ u = t
         /\ Distinct(q) /\ ~Listed(q, t) => Distinct(<<t>> \o q)
<1> DEFINE p == <<t>> \o q
<1>1. /\ p \in Seq(Thread)
      /\ Len(q) \in Nat /\ Len(p) = Len(q) + 1
      /\ p[1] = t
      /\ \A i \in 1 .. Len(q) : p[i + 1] = q[i]
  OBVIOUS
<1>2. \A k \in 1 .. Len(p) : k = 1 \/ (k - 1 \in 1 .. Len(q) /\ p[k] = q[k - 1])
  <2>1. \A k \in 1 .. Len(p) : k = 1 \/ (k - 1 \in 1 .. Len(q) /\ (k - 1) + 1 = k)
    BY <1>1
  <2>. QED
    BY <1>1, <2>1
<1> HIDE DEF p
<1>3. ASSUME NEW u \in Thread, Listed(q, u)
      PROVE  Listed(p, u)
  <2>1. PICK i \in 1 .. Len(q) : q[i] = u
    BY <1>3 DEF Listed
  <2>2. i + 1 \in 1 .. Len(p) /\ p[i + 1] = u
    BY <1>1, <2>1
  <2>. QED
    BY <2>2 DEF Listed
<1>4. Listed(p, t)
  BY <1>1 DEF Listed
<1>5. ASSUME NEW u \in Thread, Listed(p, u), u # t
      PROVE  Listed(q, u)
  <2>1. PICK k \in 1 .. Len(p) : p[k] = u
    BY <1>5 DEF Listed
  <2>2. k - 1 \in 1 .. Len(q) /\ q[k - 1] = u
    BY <1>1, <1>2, <1>5, <2>1
  <2>. QED
    BY <2>2 DEF Listed
<1>6. ASSUME Distinct(q), ~Listed(q, t)
      PROVE  Distinct(p)
  <2>1. ASSUME NEW i \in 1 .. Len(p), NEW j \in 1 .. Len(p), p[i] = p[j]
        PROVE  i = j
    <3>1. \A k \in 1 .. Len(q) : q[k] # t
      BY <1>6 DEF Listed
    <3>2. CASE i = 1 \/ j = 1
      BY <1>1, <1>2, <2>1, <3>1, <3>2
    <3>3. CASE i # 1 /\ j # 1
      <4>1. i - 1 = j - 1
        BY <1>2, <1>6, <2>1, <3>3 DEF Distinct
      <4>. QED
        BY <4>1
    <3>. QED
      BY <3>2, <3>3
  <2>. QED
    BY <2>1 DEF Distinct
<1>. QED
  BY <1>1, <1>3, <1>4, <1>5, <1>6 DEF p

LEMMA ListedTail ==
  ASSUME NEW q \in Seq(Thread), q # <<>>
  PROVE  /\ Head(q) \in Thread /\ Listed(q, Head(q))
         /\ Tail(q) \in Seq(Thread)
         /\ \A u \in Thread : Listed(Tail(q), u) => Listed(q, u)
         /\ \A u \in Thread : Listed(q, u) => Listed(Tail(q), u) \/ u = Head(q)
         /\ Distinct(q) => Distinct(Tail(q)) /\ ~Listed(Tail(q), Head(q))
<1>1. /\ Tail(q) \in Seq(Thread)
      /\ Len(q) \in Nat /\ Len(q) >= 1
      /\ Len(Tail(q)) = Len(q) - 1
      /\ \A i \in 1 .. Len(q) - 1 : Tail(q)[i] = q[i + 1]
      /\ Head(q) = q[1] /\ q[1] \in Thread
  OBVIOUS
<1>2. \A u \in Thread : Listed(Tail(q), u) => Listed(q, u)
  BY <1>1 DEF Listed
<1>3. ASSUME NEW u \in Thread, Listed(q, u)
      PROVE  Listed(Tail(q), u) \/ u = Head(q)
  <2>1. PICK i \in 1 .. Len(q) : q[i] = u
    BY <1>3 DEF Listed
  <2>2. CASE i = 1
    BY <2>1, <2>2, <1>1
  <2>3. CASE i # 1
    <3>1. i - 1 \in 1 .. Len(Tail(q)) /\ Tail(q)[i - 1] = u
      BY <2>1, <2>3, <1>1
    <3>. QED
      BY <3>1 DEF Listed
  <2>. QED
    BY <2>2, <2>3
<1>4. ASSUME Distinct(q)
      PROVE  Distinct(Tail(q)) /\ ~Listed(Tail(q), Head(q))
  <2>1. ASSUME NEW i \in 1 .. Len(Tail(q)), NEW j \in 1 .. Len(Tail(q)),
               Tail(q)[i] = Tail(q)[j]
        PROVE  i = j
    <3>1. q[i + 1] = q[j + 1] /\ i + 1 \in 1 .. Len(q) /\ j + 1 \in 1 .. Len(q)
      BY <2>1, <1>1
    <3>. QED
      BY <3>1, <1>4 DEF Distinct
  <2>2. ASSUME NEW i \in 1 .. Len(Tail(q))
        PROVE  Tail(q)[i] # Head(q)
    <3>1. Tail(q)[i] = q[i + 1] /\ i + 1 \in 1 .. Len(q) /\ i + 1 # 1 /\ 1 \in 1 .. Len(q)
      BY <1>1
    <3>. QED
      BY <3>1, <1>1, <1>4 DEF Distinct
  <2>. QED
    BY <2>1, <2>2 DEF Distinct, Listed
<1>5. Listed(q, Head(q))
  BY <1>1 DEF Listed
<1>. QED
  BY <1>1, <1>2, <1>3, <1>4, <1>5

-----------------------------------------------------------------------------
LEMMA InitPlaces == Init => Places
<1> SUFFICES ASSUME Init
             PROVE  Places
  OBVIOUS
<1>1. KindsOK
  BY CpuAssumption, EventsAssumption DEF Init, CpuInit, KindsOK, CpuTypeOK, CpuState
<1>2. NoneEnds /\ CurrentNotReady /\ RunnerWaitsForNothing
  BY DEF Init, CpuInit, NoneEnds, CurrentNotReady, RunnerWaitsForNothing
<1>3. ListedWait /\ ListedOnce
  BY DEF Init, ListedWait, ListedOnce, Listed, Distinct
<1>4. WokenWait /\ NoneForgotten
  BY EventsAssumption DEF Init, WokenWait, NoneForgotten
<1>. QED
  BY <1>1, <1>2, <1>3, <1>4 DEF Places

\* Only a thread that is ready gets the CPU, so it leaves its wait for good.
LEMMA SwitchPlaces ==
  ASSUME Places, NEW t \in Thread, Switch(t)
  PROVE  Places'
<1> USE CpuAssumption, EventsAssumption
<1>1. /\ t \in ready /\ current' = t
      /\ ready' = (ready \ {t}) \cup (IF state[current] = "RUNNING" THEN {current} ELSE {})
      /\ \A u \in Thread : u # t => waitsFor'[u] = waitsFor[u]
      /\ waitsFor'[t] = NULL
      /\ waitsFor' \in [Thread -> Event \cup {NULL}]
      /\ UNCHANGED <<signaled, waiters, limit, waking, sets>>
  BY DEF Places, KindsOK, Switch, SwitchTo
<1>2. /\ current \in Thread /\ current # t
      /\ state[current] = "RUNNING" => waitsFor[current] = NULL
  BY <1>1 DEF Places, KindsOK, CpuTypeOK, CurrentNotReady, RunnerWaitsForNothing, Running
<1>3. KindsOK'
  <2>1. CpuTypeOK'
    BY DEF Places, KindsOK, Switch, SwitchTo, CpuTypeOK, CpuState
  <2>2. passes' \in [Event -> Nat]
    <3>1. passes \in [Event -> Nat] /\ waitsFor[t] \in Event \cup {NULL}
      BY DEF Places, KindsOK
    <3>2. CASE waitsFor[t] = NULL
      BY <3>1, <3>2 DEF Switch
    <3>3. CASE waitsFor[t] # NULL
      <4>1. Count(waitsFor[t]) /\ waitsFor[t] \in Event
        BY <3>1, <3>3 DEF Switch
      <4>. QED
        BY <3>1, <4>1 DEF Count
    <3>. QED
      BY <3>2, <3>3
  <2>. QED
    BY <1>1, <2>1, <2>2 DEF Places, KindsOK
<1>4. NoneEnds' /\ CurrentNotReady' /\ RunnerWaitsForNothing'
  <2>1. \A u \in Thread : state'[u] # "TERMINATED" /\ (state'[u] = "RUNNING" /\ u # t => u # t)
    BY DEF Places, KindsOK, CpuTypeOK, Switch, SwitchTo, NoneEnds
  <2>. QED
    BY <1>1, <1>2, <2>1 DEF NoneEnds, CurrentNotReady, RunnerWaitsForNothing, Running
<1>5. ListedWait' /\ ListedOnce'
  BY <1>1, <1>2 DEF Places, ListedWait, ListedOnce
<1>6. WokenWait' /\ NoneForgotten'
  BY <1>1, <1>2 DEF Places, WokenWait, NoneForgotten
<1>. QED
  BY <1>3, <1>4, <1>5, <1>6 DEF Places

\* A wait that finds the signal moves nobody.
LEMMA PassPlaces ==
  ASSUME Places, NEW e \in Event, TakeSignal(e), Count(e),
         UNCHANGED <<cpuVars, waiters, waitsFor, limit, waking, sets>>
  PROVE  Places'
<1>1. KindsOK'
  BY DEF Places, KindsOK, TakeSignal, Count, cpuVars, CpuTypeOK
<1>. QED
  BY <1>1 DEF Places, cpuVars, NoneEnds, CurrentNotReady, RunnerWaitsForNothing, Running,
     ListedWait, ListedOnce, WokenWait, NoneForgotten

\* A thread that blocks is in no other place.
LEMMA EnqueuePlaces ==
  ASSUME Places, NEW t \in Thread, NEW e \in Event, NEW d \in Timeouts, Free(t),
         Enqueue(t, e, d), UNCHANGED <<signaled, waking, sets, passes>>
  PROVE  /\ Places'
         /\ waitsFor[t] = NULL
         /\ waitsFor' = [waitsFor EXCEPT ![t] = e]
         /\ \A n \in Event, u \in Thread :
              Listed(waiters'[n], u) <=> Listed(waiters[n], u) \/ (n = e /\ u = t)
<1> USE CpuAssumption, EventsAssumption
<1>1. /\ current = t /\ waitsFor[t] = NULL /\ t \notin ready
      /\ \A n \in Event : ~Listed(waiters[n], t)
      /\ \A u \in Thread : waking[u] # t
      /\ state' = [state EXCEPT ![t] = "BLOCKED"] /\ UNCHANGED <<current, ready>>
      /\ waitsFor' = [waitsFor EXCEPT ![t] = e]
  BY DEF Places, Free, Running, RunnerWaitsForNothing, CurrentNotReady, ListedWait,
     WokenWait, Enqueue, Block
<1>2. /\ waiters' \in [Event -> Seq(Thread)]
      /\ \A n \in Event, u \in Thread :
           Listed(waiters'[n], u) <=> Listed(waiters[n], u) \/ (n = e /\ u = t)
      /\ \A n \in Event : Distinct(waiters'[n])
  <2>1. waiters \in [Event -> Seq(Thread)] /\ \A n \in Event : Distinct(waiters[n])
    BY DEF Places, KindsOK, ListedOnce
  <2>2. waiters'[e] = <<t>> \o waiters[e] /\ \A n \in Event : n # e => waiters'[n] = waiters[n]
    BY <2>1 DEF Enqueue
  <2>3. /\ <<t>> \o waiters[e] \in Seq(Thread)
        /\ \A u \in Thread : Listed(<<t>> \o waiters[e], u) <=> Listed(waiters[e], u) \/ u = t
        /\ Distinct(<<t>> \o waiters[e])
    BY <1>1, <2>1, ListedPush
  <2>4. waiters' \in [Event -> Seq(Thread)]
    BY <2>1, <2>3 DEF Enqueue
  <2>. QED
    BY <2>1, <2>2, <2>3, <2>4
<1>3. KindsOK'
  BY <1>1, <1>2 DEF Places, KindsOK, Enqueue, CpuTypeOK, CpuState
<1>4. NoneEnds' /\ CurrentNotReady' /\ RunnerWaitsForNothing'
  BY <1>1 DEF Places, KindsOK, CpuTypeOK, NoneEnds, CurrentNotReady, RunnerWaitsForNothing,
     Running
<1>5. ListedWait' /\ ListedOnce'
  BY <1>1, <1>2 DEF Places, KindsOK, ListedWait, ListedOnce
<1>6. WokenWait'
  BY <1>1 DEF Places, KindsOK, WokenWait
<1>7. NoneForgotten'
  <2>1. /\ waitsFor'[t] = e /\ \A u \in Thread : u # t => waitsFor'[u] = waitsFor[u]
        /\ \A u \in Thread : waitsFor[u] \in Event \cup {NULL}
        /\ ready' = ready /\ waking' = waking
    BY <1>1 DEF Places, KindsOK
  <2>. QED
    BY <1>2, <2>1 DEF Places, NoneForgotten
<1>. QED
  BY <1>1, <1>2, <1>3, <1>4, <1>5, <1>6, <1>7 DEF Places

\* A set that finds nobody waiting leaves everyone where they are.
LEMMA SignalPlaces ==
  ASSUME Places, NEW e \in Event, sets[e] < MaxSets, sets' = [sets EXCEPT ![e] = @ + 1],
         signaled' = [signaled EXCEPT ![e] = TRUE],
         UNCHANGED <<cpuVars, waiters, waitsFor, limit, waking, passes>>
  PROVE  Places'
<1>1. KindsOK'
  BY EventsAssumption DEF Places, KindsOK, cpuVars, CpuTypeOK
<1>. QED
  BY <1>1 DEF Places, cpuVars, NoneEnds, CurrentNotReady, RunnerWaitsForNothing, Running,
     ListedWait, ListedOnce, WokenWait, NoneForgotten

\* The head of the list passes into the hands of this EventSet alone.
LEMMA ReleasePlaces ==
  ASSUME Places, NEW t \in Thread, NEW e \in Event, EventSet(t, e), waiters[e] # <<>>
  PROVE  /\ Places'
         /\ Head(waiters[e]) \in Thread
         /\ waitsFor[Head(waiters[e])] = e
         /\ Listed(waiters[e], Head(waiters[e]))
         /\ \A n \in Event, u \in Thread :
              Listed(waiters'[n], u) <=> Listed(waiters[n], u) /\ u # Head(waiters[e])
<1> USE CpuAssumption, EventsAssumption
<1> DEFINE h == Head(waiters[e])
<1>1. /\ current = t /\ state[t] = "RUNNING" /\ waking[t] = NULL
      /\ waiters' = [waiters EXCEPT ![e] = Tail(waiters[e])]
      /\ state' = [state EXCEPT ![h] = "READY"]
      /\ waking' = [waking EXCEPT ![t] = h]
      /\ UNCHANGED <<current, ready, waitsFor, limit, passes>>
  BY DEF EventSet, Free, Running
<1>2. waiters \in [Event -> Seq(Thread)] /\ \A n \in Event : Distinct(waiters[n])
  BY DEF Places, KindsOK, ListedOnce
<1>3. /\ h \in Thread /\ Listed(waiters[e], h)
      /\ Tail(waiters[e]) \in Seq(Thread)
      /\ \A u \in Thread : Listed(Tail(waiters[e]), u) => Listed(waiters[e], u)
      /\ \A u \in Thread : Listed(waiters[e], u) => Listed(Tail(waiters[e]), u) \/ u = h
      /\ Distinct(Tail(waiters[e])) /\ ~Listed(Tail(waiters[e]), h)
  BY <1>2, ListedTail
<1> HIDE DEF h
<1>4. /\ waitsFor[h] = e /\ h \notin ready /\ \A u \in Thread : waking[u] # h
      /\ \A n \in Event : n # e => ~Listed(waiters[n], h)
  BY <1>3 DEF Places, ListedWait
<1>5. /\ waiters' \in [Event -> Seq(Thread)]
      /\ \A n \in Event, u \in Thread : Listed(waiters'[n], u) <=> Listed(waiters[n], u) /\ u # h
      /\ \A n \in Event : Distinct(waiters'[n])
  <2>1. waiters'[e] = Tail(waiters[e]) /\ \A n \in Event : n # e => waiters'[n] = waiters[n]
    BY <1>1, <1>2
  <2>2. waiters' \in [Event -> Seq(Thread)]
    BY <1>1, <1>2, <1>3
  <2>3. ASSUME NEW n \in Event, NEW u \in Thread
        PROVE  Listed(waiters'[n], u) <=> Listed(waiters[n], u) /\ u # h
    <3>1. CASE n = e
      BY <1>3, <2>1, <3>1
    <3>2. CASE n # e
      BY <1>4, <2>1, <3>2
    <3>. QED
      BY <3>1, <3>2
  <2>4. \A n \in Event : Distinct(waiters'[n])
    BY <1>2, <1>3, <2>1
  <2>. QED
    BY <2>2, <2>3, <2>4
<1>6. h # t
  BY <1>1, <1>4 DEF Places, RunnerWaitsForNothing, Running
<1>7. KindsOK'
  <2>1. CpuTypeOK'
    BY <1>1, <1>3 DEF Places, KindsOK, CpuTypeOK, CpuState
  <2>2. sets' \in [Event -> 0 .. MaxSets + 1]
    BY DEF Places, KindsOK, EventSet
  <2>3. signaled' \in [Event -> BOOLEAN]
    <3>1. signaled' = [signaled EXCEPT ![e] = signaled[e] \/ e \notin AutoReset]
      <4>1. PassOn(e)
        BY DEF EventSet
      <4>. QED
        BY <4>1, Zenon DEF PassOn
    <3>2. (signaled[e] \/ e \notin AutoReset) \in BOOLEAN
      OBVIOUS
    <3>. QED
      BY <3>1, <3>2, Zenon DEF Places, KindsOK
  <2>4. waking' \in [Thread -> Thread \cup {NULL}]
    BY <1>1, <1>3 DEF Places, KindsOK
  <2>. QED
    BY <1>1, <1>5, <2>1, <2>2, <2>3, <2>4 DEF Places, KindsOK
<1>8. NoneEnds' /\ CurrentNotReady' /\ RunnerWaitsForNothing'
  BY <1>1, <1>6 DEF Places, KindsOK, CpuTypeOK, NoneEnds, CurrentNotReady,
     RunnerWaitsForNothing, Running
<1>9. ListedWait' /\ ListedOnce'
  <2>1. \A u, v \in Thread : waking'[v] = u => waking[v] = u \/ u = h
    BY <1>1 DEF Places, KindsOK
  <2>. QED
    BY <1>1, <1>5, <2>1 DEF Places, ListedWait, ListedOnce
<1>10. WokenWait'
  <2>1. \A v \in Thread : waking'[v] = IF v = t THEN h ELSE waking[v]
    BY <1>1 DEF Places, KindsOK
  <2>. QED
    BY <1>1, <1>3, <1>4, <2>1 DEF Places, WokenWait
<1>11. NoneForgotten'
  <2>1. \A v \in Thread : waking'[v] = IF v = t THEN h ELSE waking[v]
    BY <1>1 DEF Places, KindsOK
  <2>2. \A u \in Thread : waitsFor[u] \in Event \cup {NULL}
    BY DEF Places, KindsOK
  <2>. QED
    BY <1>1, <1>3, <1>5, <2>1, <2>2 DEF Places, NoneForgotten
<1>. QED
  BY <1>3, <1>4, <1>5, <1>7, <1>8, <1>9, <1>10, <1>11 DEF Places, h

\* The thread in the hands of EventSet becomes ready.
LEMMA FinishPlaces ==
  ASSUME Places, NEW t \in Thread, FinishSet(t)
  PROVE  Places'
<1> USE CpuAssumption, EventsAssumption
<1> DEFINE h == waking[t]
<1>1. /\ h \in Thread /\ waitsFor[h] # NULL /\ h \notin ready
      /\ \A v \in Thread : waking[v] = h => v = t
      /\ \A n \in Event : ~Listed(waiters[n], h)
  BY DEF Places, KindsOK, FinishSet, WokenWait, ListedWait
<1>2. /\ current = t /\ state[t] = "RUNNING" /\ h # t
  BY <1>1 DEF Places, FinishSet, Running, RunnerWaitsForNothing
<1>3. /\ state' = [state EXCEPT ![h] = "READY"] /\ ready' = ready \cup {h}
      /\ waking' = [waking EXCEPT ![t] = NULL]
      /\ UNCHANGED <<current, signaled, waiters, waitsFor, limit, sets, passes>>
  BY <1>1 DEF Places, NoneEnds, FinishSet, Unblock
<1>4. \A v \in Thread : waking'[v] = IF v = t THEN NULL ELSE waking[v]
  BY <1>3 DEF Places, KindsOK
<1> HIDE DEF h
<1>5. KindsOK'
  BY <1>1, <1>3 DEF Places, KindsOK, CpuTypeOK, CpuState
<1>6. NoneEnds' /\ CurrentNotReady' /\ RunnerWaitsForNothing'
  BY <1>1, <1>2, <1>3 DEF Places, KindsOK, CpuTypeOK, NoneEnds, CurrentNotReady,
     RunnerWaitsForNothing, Running
<1>7. ListedWait' /\ ListedOnce'
  BY <1>1, <1>3, <1>4 DEF Places, ListedWait, ListedOnce
<1>8. WokenWait'
  BY <1>1, <1>3, <1>4 DEF Places, WokenWait, h
<1>9. NoneForgotten'
  BY <1>1, <1>3, <1>4 DEF Places, NoneForgotten, h
<1>. QED
  BY <1>5, <1>6, <1>7, <1>8, <1>9 DEF Places

LEMMA ResetPlaces ==
  ASSUME Places, NEW t \in Thread, NEW e \in Event, EventReset(t, e)
  PROVE  Places'
<1>1. KindsOK'
  BY DEF Places, KindsOK, EventReset, cpuVars, CpuTypeOK
<1>. QED
  BY <1>1 DEF Places, EventReset, cpuVars, NoneEnds, CurrentNotReady, RunnerWaitsForNothing,
     Running, ListedWait, ListedOnce, WokenWait, NoneForgotten

-----------------------------------------------------------------------------
(***************************************************************************)
(* The count of a set is handed from the signal to a thread in Released,   *)
(* and from there to passes, which is all that OneWaitPerSet adds up.      *)
(***************************************************************************)
LEMMA ReleasedAre ==
  ASSUME NEW e \in Event
  PROVE  /\ Released(e) = {t \in Thread : waitsFor[t] = e /\ ~Listed(waiters[e], t)}
         /\ IsFiniteSet(Released(e))
         /\ Cardinality(Released(e)) \in Nat
<1>1. Released(e) = {t \in Thread : waitsFor[t] = e /\ ~Listed(waiters[e], t)}
  BY DEF Released, Listed
<1>2. Released(e) \in SUBSET Thread
  BY <1>1
<1>3. IsFiniteSet(Released(e))
  BY <1>2, CpuAssumption, FS_Subset
<1>. QED
  BY <1>1, <1>3, FS_CardinalityType

LEMMA ReleasedNext ==
  ASSUME NEW e \in Event
  PROVE  Released(e)' = {t \in Thread : waitsFor'[t] = e /\ ~Listed(waiters'[e], t)}
BY DEF Released, Listed

\* The terms of OneWaitPerSet can be compared.
LEMMA TermsAreNumbers ==
  ASSUME KindsOK, NEW e \in Event
  PROVE  passes[e] \in Nat /\ sets[e] \in Nat /\ Cardinality(Released(e)) \in Nat
BY ReleasedAre, EventsAssumption DEF KindsOK

LEMMA TermsAreNext ==
  ASSUME KindsOK', NEW e \in Event
  PROVE  passes'[e] \in Nat /\ sets'[e] \in Nat /\ Cardinality(Released(e)') \in Nat
<1>1. Released(e)' \in SUBSET Thread
  BY DEF Released
<1>2. Cardinality(Released(e)') \in Nat
  BY <1>1, CpuAssumption, FS_Subset, FS_CardinalityType
<1>. QED
  BY <1>2, EventsAssumption DEF KindsOK

LEMMA InitIInv == Init => IInv
<1> SUFFICES ASSUME Init
             PROVE  IInv
  OBVIOUS
<1>1. Places
  BY InitPlaces
<1>2. NoWaiterMissesSignal /\ OnlyAutoCounted
  BY EventsAssumption DEF Init, NoWaiterMissesSignal, OnlyAutoCounted
<1>3. OneWaitPerSet
  <2>1. ASSUME NEW e \in AutoReset
        PROVE  /\ passes[e] = 0 /\ Cardinality(Released(e)) = 0
               /\ sets[e] = IF signaled[e] THEN 1 ELSE 0
    <3>1. e \in Event
      BY EventsAssumption
    <3>2. Released(e) = {}
      BY <3>1, ReleasedAre, EventsAssumption DEF Init
    <3>. QED
      BY <3>1, <3>2, FS_EmptySet DEF Init
  <2>. QED
    BY <2>1 DEF OneWaitPerSet
<1>. QED
  BY <1>1, <1>2, <1>3 DEF IInv

\* A thread that comes back moves from Released to passes.
LEMMA SwitchStep ==
  ASSUME IInv, NEW t \in Thread, Switch(t)
  PROVE  IInv'
<1>1. Places'
  BY SwitchPlaces DEF IInv
<1>2. KindsOK /\ ListedWait
  BY DEF IInv, Places
<1>3. /\ t \in ready /\ UNCHANGED <<signaled, waiters, sets>>
      /\ waitsFor' = [waitsFor EXCEPT ![t] = NULL]
      /\ \A n \in Event : passes'[n] = IF n # waitsFor[t] THEN passes[n]
                                       ELSE IF n \in AutoReset THEN passes[n] + 1 ELSE 0
  <2>1. t \in ready /\ UNCHANGED <<signaled, waiters, sets>>
    BY DEF Switch, SwitchTo
  <2>2. CASE waitsFor[t] = NULL
    BY <1>2, <2>1, <2>2, EventsAssumption DEF Switch, KindsOK
  <2>3. CASE waitsFor[t] # NULL
    <3>1. Count(waitsFor[t]) /\ waitsFor' = [waitsFor EXCEPT ![t] = NULL]
      BY <2>3 DEF Switch
    <3>. QED
      BY <1>2, <2>1, <3>1 DEF Count, KindsOK
  <2>. QED
    BY <2>2, <2>3
<1>4. NoWaiterMissesSignal' /\ OnlyAutoCounted'
  BY <1>3 DEF IInv, NoWaiterMissesSignal, OnlyAutoCounted
<1>5. ASSUME NEW e \in AutoReset
      PROVE  passes'[e] + Cardinality(Released(e)') <= passes[e] + Cardinality(Released(e))
  <2>1. e \in Event
    BY EventsAssumption
  <2>2. CASE waitsFor[t] = e
    <3>1. t \in Released(e)
      BY <1>2, <1>3, <2>1, <2>2, ReleasedAre DEF ListedWait
    <3>2. Released(e)' = Released(e) \ {t}
      BY <1>2, <1>3, <2>1, ReleasedAre, ReleasedNext, EventsAssumption DEF KindsOK
    <3>3. Cardinality(Released(e)') = Cardinality(Released(e)) - 1
      BY <2>1, <3>1, <3>2, ReleasedAre, FS_RemoveElement
    <3>4. passes'[e] = passes[e] + 1
      BY <1>3, <2>1, <2>2
    <3>. QED
      BY <1>2, <2>1, <3>3, <3>4, TermsAreNumbers
  <2>3. CASE waitsFor[t] # e
    <3>1. Released(e)' = Released(e)
      <4>1. \A u \in Thread : waitsFor'[u] = e <=> waitsFor[u] = e
        BY <1>2, <1>3, <2>1, <2>3, EventsAssumption DEF KindsOK
      <4>2. Released(e)' = {u \in Thread : waitsFor'[u] = e /\ ~Listed(waiters[e], u)}
        BY <1>3, <2>1, ReleasedNext
      <4>3. Released(e) = {u \in Thread : waitsFor[u] = e /\ ~Listed(waiters[e], u)}
        BY <2>1, ReleasedAre
      <4>. QED
        BY <4>1, <4>2, <4>3
    <3>2. passes'[e] = passes[e]
      BY <1>3, <2>1, <2>3
    <3>. QED
      BY <1>2, <2>1, <3>1, <3>2, TermsAreNumbers
  <2>. QED
    BY <2>2, <2>3
<1>6. OneWaitPerSet'
  <2>1. ASSUME NEW e \in AutoReset
        PROVE  passes'[e] + Cardinality(Released(e)') + (IF signaled'[e] THEN 1 ELSE 0) <= sets'[e]
    <3>1. e \in Event
      BY EventsAssumption
    <3>2. /\ passes[e] \in Nat /\ sets[e] \in Nat /\ Cardinality(Released(e)) \in Nat
          /\ passes'[e] \in Nat /\ Cardinality(Released(e)') \in Nat
      BY <1>1, <1>2, <3>1, TermsAreNumbers, TermsAreNext DEF Places
    <3>3. passes[e] + Cardinality(Released(e)) + (IF signaled[e] THEN 1 ELSE 0) <= sets[e]
      BY DEF IInv, OneWaitPerSet
    <3>. QED
      BY <1>3, <1>5, <3>2, <3>3
  <2>. QED
    BY <2>1 DEF OneWaitPerSet
<1>. QED
  BY <1>1, <1>4, <1>6 DEF IInv

\* The signal moves to passes.
LEMMA PassStep ==
  ASSUME IInv, NEW e \in Event, TakeSignal(e), Count(e),
         UNCHANGED <<cpuVars, waiters, waitsFor, limit, waking, sets>>
  PROVE  IInv'
<1>1. Places'
  BY PassPlaces DEF IInv
<1>2. KindsOK
  BY DEF IInv, Places
<1>3. /\ signaled[e] /\ signaled' = [signaled EXCEPT ![e] = e \notin AutoReset]
      /\ passes' = [passes EXCEPT ![e] = IF e \in AutoReset THEN passes[e] + 1 ELSE 0]
  BY DEF TakeSignal, Count
<1>4. \A n \in AutoReset : signaled'[n] <=> signaled[n] /\ n # e
  BY <1>2, <1>3, EventsAssumption DEF KindsOK
<1>5. NoWaiterMissesSignal' /\ OnlyAutoCounted'
  BY <1>2, <1>3, <1>4 DEF IInv, KindsOK, NoWaiterMissesSignal, OnlyAutoCounted
<1>6. OneWaitPerSet'
  <2>1. ASSUME NEW n \in AutoReset
        PROVE  passes'[n] + Cardinality(Released(n)') + (IF signaled'[n] THEN 1 ELSE 0) <= sets'[n]
    <3>1. n \in Event /\ Released(n)' = Released(n)
      BY EventsAssumption DEF Released
    <3>2. passes'[n] = IF n = e THEN passes[n] + 1 ELSE passes[n]
      BY <1>2, <1>3, <3>1 DEF KindsOK
    <3>3. passes[n] \in Nat /\ sets[n] \in Nat /\ Cardinality(Released(n)) \in Nat
      BY <1>2, <3>1, TermsAreNumbers
    <3>4. passes[n] + Cardinality(Released(n)) + (IF signaled[n] THEN 1 ELSE 0) <= sets[n]
      BY DEF IInv, OneWaitPerSet
    <3>. QED
      BY <1>3, <1>4, <3>1, <3>2, <3>3, <3>4
  <2>. QED
    BY <2>1 DEF OneWaitPerSet
<1>. QED
  BY <1>1, <1>5, <1>6 DEF IInv

\* A thread that joins a list is not in Released, and the event not signaled.
LEMMA EnqueueStep ==
  ASSUME IInv, NEW t \in Thread, NEW e \in Event, NEW d \in Timeouts, Free(t), ~signaled[e],
         Enqueue(t, e, d), UNCHANGED <<signaled, waking, sets, passes>>
  PROVE  IInv'
<1>1. KindsOK
  BY DEF IInv, Places
<1>2. /\ Places'
      /\ waitsFor[t] = NULL /\ waitsFor' = [waitsFor EXCEPT ![t] = e]
      /\ \A n \in Event, u \in Thread :
           Listed(waiters'[n], u) <=> Listed(waiters[n], u) \/ (n = e /\ u = t)
  BY EnqueuePlaces DEF IInv
<1>3. \A n \in Event : n # e => waiters'[n] = waiters[n]
  BY <1>1 DEF Enqueue, KindsOK
<1>4. NoWaiterMissesSignal' /\ OnlyAutoCounted'
  BY <1>3, EventsAssumption DEF IInv, NoWaiterMissesSignal, OnlyAutoCounted
<1>5. OneWaitPerSet'
  <2>1. ASSUME NEW n \in AutoReset
        PROVE  n \in Event /\ Released(n)' = Released(n)
    <3>1. n \in Event
      BY EventsAssumption
    <3>2. \A u \in Thread : /\ waitsFor'[u] = n /\ ~Listed(waiters'[n], u)
                            <=> waitsFor[u] = n /\ ~Listed(waiters[n], u)
      BY <1>1, <1>2, <3>1, EventsAssumption DEF KindsOK
    <3>. QED
      BY <3>1, <3>2, ReleasedAre, ReleasedNext
  <2>. QED
    BY <2>1 DEF IInv, OneWaitPerSet
<1>. QED
  BY <1>2, <1>4, <1>5 DEF IInv

\* A set with nobody waiting is one more signal at most.
LEMMA SignalStep ==
  ASSUME IInv, NEW t \in Thread, NEW e \in Event, EventSet(t, e), waiters[e] = <<>>
  PROVE  IInv'
<1>1. /\ sets[e] < MaxSets /\ sets' = [sets EXCEPT ![e] = sets[e] + 1]
      /\ signaled' = [signaled EXCEPT ![e] = TRUE]
      /\ UNCHANGED <<cpuVars, waiters, waitsFor, limit, waking, passes>>
  BY DEF EventSet, cpuVars
<1>2. Places'
  BY <1>1, SignalPlaces DEF IInv
<1>3. KindsOK
  BY DEF IInv, Places
<1>4. NoWaiterMissesSignal' /\ OnlyAutoCounted'
  BY <1>1, <1>3, EventsAssumption DEF IInv, KindsOK, NoWaiterMissesSignal, OnlyAutoCounted
<1>5. OneWaitPerSet'
  <2>1. ASSUME NEW n \in AutoReset
        PROVE  passes'[n] + Cardinality(Released(n)') + (IF signaled'[n] THEN 1 ELSE 0) <= sets'[n]
    <3>1. n \in Event /\ Released(n)' = Released(n)
      BY <1>1, EventsAssumption DEF Released
    <3>2. sets'[n] = IF n = e THEN sets[n] + 1 ELSE sets[n]
      BY <1>1, <1>3, <3>1 DEF KindsOK
    <3>3. passes[n] \in Nat /\ sets[n] \in Nat /\ Cardinality(Released(n)) \in Nat
      BY <1>3, <3>1, TermsAreNumbers
    <3>4. passes[n] + Cardinality(Released(n)) + (IF signaled[n] THEN 1 ELSE 0) <= sets[n]
      BY DEF IInv, OneWaitPerSet
    <3>5. n # e => (signaled'[n] <=> signaled[n])
      BY <1>1, <1>3, <3>1 DEF KindsOK
    <3>. QED
      BY <1>1, <3>1, <3>2, <3>3, <3>4, <3>5
  <2>. QED
    BY <2>1 DEF OneWaitPerSet
<1>. QED
  BY <1>2, <1>4, <1>5 DEF IInv

\* A set that takes a thread off the list adds it to Released, and no signal.
LEMMA ReleaseStep ==
  ASSUME IInv, NEW t \in Thread, NEW e \in Event, EventSet(t, e), waiters[e] # <<>>
  PROVE  IInv'
<1> DEFINE h == Head(waiters[e])
<1>1. KindsOK
  BY DEF IInv, Places
<1>2. /\ Places'
      /\ h \in Thread /\ waitsFor[h] = e /\ Listed(waiters[e], h)
      /\ \A n \in Event, u \in Thread :
           Listed(waiters'[n], u) <=> Listed(waiters[n], u) /\ u # h
  BY ReleasePlaces DEF IInv
<1>3. /\ UNCHANGED <<waitsFor, passes>>
      /\ sets' = [sets EXCEPT ![e] = sets[e] + 1]
      /\ \A n \in Event : n # e => waiters'[n] = waiters[n]
  BY <1>1 DEF EventSet, KindsOK
<1>4. \A n \in AutoReset : signaled'[n] <=> signaled[n]
  <2>1. PassOn(e)
    BY DEF EventSet
  <2>2. signaled' = [signaled EXCEPT ![e] = signaled[e] \/ e \notin AutoReset]
    BY <2>1, Zenon DEF PassOn
  <2>3. CASE e \in AutoReset
    BY <1>1, <2>2, <2>3, EventsAssumption DEF KindsOK
  <2>4. CASE e \notin AutoReset
    BY <1>1, <2>2, <2>4, EventsAssumption DEF KindsOK
  <2>. QED
    BY <2>3, <2>4
<1> HIDE DEF h
<1>5. NoWaiterMissesSignal' /\ OnlyAutoCounted'
  BY <1>3, <1>4, EventsAssumption DEF IInv, NoWaiterMissesSignal, OnlyAutoCounted
<1>6. OneWaitPerSet'
  <2>1. ASSUME NEW n \in AutoReset
        PROVE  passes'[n] + Cardinality(Released(n)') + (IF signaled'[n] THEN 1 ELSE 0) <= sets'[n]
    <3>1. n \in Event
      BY EventsAssumption
    <3>2. sets'[n] = IF n = e THEN sets[n] + 1 ELSE sets[n]
      BY <1>1, <1>3, <3>1 DEF KindsOK
    <3>3. passes[n] \in Nat /\ sets[n] \in Nat /\ Cardinality(Released(n)) \in Nat
      BY <1>1, <3>1, TermsAreNumbers
    <3>4. passes[n] + Cardinality(Released(n)) + (IF signaled[n] THEN 1 ELSE 0) <= sets[n]
      BY DEF IInv, OneWaitPerSet
    <3>5. Cardinality(Released(n)') = IF n = e THEN Cardinality(Released(n)) + 1
                                      ELSE Cardinality(Released(n))
      <4>1. CASE n = e
        <5>1. Released(n)' = Released(n) \cup {h}
          BY <1>2, <1>3, <3>1, <4>1, ReleasedAre, ReleasedNext
        <5>2. h \notin Released(n)
          BY <1>2, <3>1, <4>1, ReleasedAre
        <5>. QED
          BY <3>1, <4>1, <5>1, <5>2, ReleasedAre, FS_AddElement
      <4>2. CASE n # e
        <5>1. Released(n)' = Released(n)
          BY <1>3, <3>1, <4>2, ReleasedAre, ReleasedNext
        <5>. QED
          BY <4>2, <5>1
      <4>. QED
        BY <4>1, <4>2
    <3>. QED
      BY <1>3, <1>4, <3>1, <3>2, <3>3, <3>4, <3>5
  <2>. QED
    BY <2>1 DEF OneWaitPerSet
<1>. QED
  BY <1>2, <1>5, <1>6 DEF IInv

LEMMA FinishStep ==
  ASSUME IInv, NEW t \in Thread, FinishSet(t)
  PROVE  IInv'
<1>1. Places'
  BY FinishPlaces DEF IInv
<1>. QED
  BY <1>1 DEF IInv, FinishSet, NoWaiterMissesSignal, OnlyAutoCounted, OneWaitPerSet, Released

\* A reset may lose a set, never gain one.
LEMMA ResetStep ==
  ASSUME IInv, NEW t \in Thread, NEW e \in Event, EventReset(t, e)
  PROVE  IInv'
<1>1. Places' /\ KindsOK
  BY ResetPlaces DEF IInv, Places
<1>2. /\ signaled' = [signaled EXCEPT ![e] = FALSE]
      /\ UNCHANGED <<waiters, waitsFor, sets, passes>>
  BY DEF EventReset
<1>3. \A n \in AutoReset : signaled'[n] => signaled[n]
  BY <1>1, <1>2, EventsAssumption DEF KindsOK
<1>4. NoWaiterMissesSignal' /\ OnlyAutoCounted'
  BY <1>2, <1>3 DEF IInv, NoWaiterMissesSignal, OnlyAutoCounted
<1>5. OneWaitPerSet'
  <2>1. ASSUME NEW n \in AutoReset
        PROVE  passes'[n] + Cardinality(Released(n)') + (IF signaled'[n] THEN 1 ELSE 0) <= sets'[n]
    <3>1. n \in Event /\ Released(n)' = Released(n)
      BY <1>2, EventsAssumption DEF Released
    <3>2. passes[n] \in Nat /\ sets[n] \in Nat /\ Cardinality(Released(n)) \in Nat
      BY <1>1, <3>1, TermsAreNumbers
    <3>3. passes[n] + Cardinality(Released(n)) + (IF signaled[n] THEN 1 ELSE 0) <= sets[n]
      BY DEF IInv, OneWaitPerSet
    <3>. QED
      BY <1>2, <1>3, <3>1, <3>2, <3>3
  <2>. QED
    BY <2>1 DEF OneWaitPerSet
<1>. QED
  BY <1>1, <1>4, <1>5 DEF IInv

-----------------------------------------------------------------------------
LEMMA NextIInv == IInv /\ [Next]_vars => IInv'
<1> SUFFICES ASSUME IInv, [Next]_vars
             PROVE  IInv'
  OBVIOUS
<1>1. CASE \E t \in Thread : Switch(t) \/ FinishSet(t)
  BY <1>1, SwitchStep, FinishStep
<1>2. ASSUME NEW t \in Thread, NEW e \in Event, NEW d \in Timeouts, EventWait(t, e, d)
      PROVE  IInv'
  <2>1. CASE TakeSignal(e) /\ Count(e) /\ UNCHANGED <<cpuVars, waiters, waitsFor, limit>>
    BY <1>2, <2>1, PassStep DEF EventWait
  <2>2. CASE ~signaled[e] /\ Enqueue(t, e, d) /\ UNCHANGED <<signaled, passes>>
    BY <1>2, <2>2, EnqueueStep DEF EventWait
  <2>. QED
    BY <1>2, <2>1, <2>2 DEF EventWait
<1>3. ASSUME NEW t \in Thread, NEW e \in Event, EventSet(t, e) \/ EventReset(t, e)
      PROVE  IInv'
  BY <1>3, SignalStep, ReleaseStep, ResetStep
<1>4. CASE UNCHANGED vars
  <2>1. Places'
    BY <1>4 DEF IInv, Places, KindsOK, CpuTypeOK, NoneEnds, CurrentNotReady,
       RunnerWaitsForNothing, Running, ListedWait, ListedOnce, WokenWait, NoneForgotten,
       vars, cpuVars, eventVars
  <2>2. NoWaiterMissesSignal' /\ OnlyAutoCounted' /\ OneWaitPerSet'
    BY <1>4 DEF IInv, NoWaiterMissesSignal, OnlyAutoCounted, OneWaitPerSet, Released, vars,
       eventVars
  <2>. QED
    BY <2>1, <2>2 DEF IInv
<1>. QED
  BY <1>1, <1>2, <1>3, <1>4 DEF Next

\* The invariant holds in every reachable state.
THEOREM Invariance == Spec => []IInv
BY InitIInv, NextIInv, PTL DEF Spec

\* One EventSet of an auto-reset event lets at most one EventWait succeed, for
\* any number of threads that set, reset and wait, and preempt each other.
THEOREM SetsBoundWaits == Spec => []OneWaitPerSet
<1>1. IInv => OneWaitPerSet
  BY DEF IInv
<1>. QED
  BY <1>1, Invariance, PTL

\* No thread stays blocked on an auto-reset event that is signaled.
THEOREM SignalsReachWaiters == Spec => []NoWaiterMissesSignal
<1>1. IInv => NoWaiterMissesSignal
  BY DEF IInv
<1>. QED
  BY <1>1, Invariance, PTL

\* Every variable keeps a value of its kind; passes stays in its bound because
\* no wait passes without a set.
THEOREM TypeCorrect == Spec => []TypeOK
<1>1. ASSUME IInv, NEW e \in Event
      PROVE  passes[e] \in 0 .. MaxSets + 1
  <2>1. /\ passes[e] \in Nat /\ sets[e] \in 0 .. MaxSets + 1
        /\ Cardinality(Released(e)) \in Nat
    BY <1>1, TermsAreNumbers DEF IInv, Places, KindsOK
  <2>2. CASE e \in AutoReset
    <3>1. passes[e] + Cardinality(Released(e)) + (IF signaled[e] THEN 1 ELSE 0) <= sets[e]
      BY <1>1, <2>2 DEF IInv, OneWaitPerSet
    <3>. QED
      BY <2>1, <3>1, EventsAssumption
  <2>3. CASE e \notin AutoReset
    BY <1>1, <2>3, EventsAssumption DEF IInv, OnlyAutoCounted
  <2>. QED
    BY <2>2, <2>3
<1>2. IInv => TypeOK
  BY <1>1 DEF IInv, Places, KindsOK, TypeOK
<1>. QED
  BY <1>2, Invariance, PTL

\* A waiting thread is once in the list of its event, or in the hands of one
\* EventSet, or ready, and never in two of these places.
THEOREM WaitersStay == Spec => []WaitersKept
<1>1. ASSUME IInv, NEW t \in Thread, waitsFor[t] # NULL
      PROVE  LET here   == {i \in 1 .. Len(waiters[waitsFor[t]]) : waiters[waitsFor[t]][i] = t}
                 wakers == {u \in Thread : waking[u] = t}
             IN Cardinality(here) + Cardinality(wakers) + (IF t \in ready THEN 1 ELSE 0) = 1
  <2> DEFINE here   == {i \in 1 .. Len(waiters[waitsFor[t]]) : waiters[waitsFor[t]][i] = t}
             wakers == {u \in Thread : waking[u] = t}
             listed == Listed(waiters[waitsFor[t]], t)
  <2>1. Places /\ waitsFor[t] \in Event
    BY <1>1 DEF IInv, Places, KindsOK
  <2>2. ~listed => here = {}
    BY DEF Listed
  <2>3. listed => \E i \in 1 .. Len(waiters[waitsFor[t]]) : here = {i}
    BY <2>1 DEF Places, ListedOnce, Distinct, Listed
  <2>4. wakers = {} \/ \E u \in Thread : wakers = {u}
    BY <2>1 DEF Places, WokenWait
  <2>5. listed => wakers = {} /\ t \notin ready
    BY <2>1 DEF Places, ListedWait
  <2>6. wakers # {} => ~listed /\ t \notin ready
    BY <2>1 DEF Places, ListedWait, WokenWait
  <2>7. ~listed /\ wakers = {} => t \in ready
    BY <1>1, <2>1 DEF Places, NoneForgotten
  <2> HIDE DEF here, wakers, listed
  <2>8. /\ here = {} => Cardinality(here) = 0
        /\ (\E i \in 1 .. Len(waiters[waitsFor[t]]) : here = {i}) => Cardinality(here) = 1
        /\ wakers = {} => Cardinality(wakers) = 0
        /\ (\E u \in Thread : wakers = {u}) => Cardinality(wakers) = 1
    BY FS_EmptySet, FS_Singleton
  <2>9. Cardinality(here) + Cardinality(wakers) + (IF t \in ready THEN 1 ELSE 0) = 1
    BY <2>2, <2>3, <2>4, <2>5, <2>6, <2>7, <2>8
  <2>. QED
    BY <2>9 DEF here, wakers
<1>2. IInv /\ TypeOK => WaitersKept
  BY <1>1 DEF WaitersKept
<1>. QED
  BY <1>2, Invariance, TypeCorrect, PTL
=============================================================================
