-------------------------- MODULE SchedulerProofs --------------------------
(***************************************************************************)
(* Theorems about the scheduler for any set of threads, any quantum, any   *)
(* sleep durations above one tick and any use of priorities.               *)
(***************************************************************************)
EXTENDS SchedulerRefinement, TLAPS, WellFoundedInduction, FiniteSetTheorems

Links == [Node -> [nxt : Node \cup {NULL}, prv : Node \cup {NULL}]]

(***************************************************************************)
(* Witnesses that the lists are circles through their own sentinels: home  *)
(* tells the queue a node is on, rank grows along Next from the sentinel.  *)
(***************************************************************************)
Placed(q, home, rank) ==
  /\ \A p \in Priority : home[p] = p /\ rank[p] = 0
  /\ \A n \in Node : q[n].nxt # NULL =>
       /\ home[q[n].nxt] = home[n]
       /\ q[n].nxt \in Thread => rank[n] < rank[q[n].nxt]

Circles(q) ==
  /\ q \in Links
  /\ Coupled(q)
  /\ \E home \in [Node -> Priority], rank \in [Node -> Nat] : Placed(q, home, rank)

LEMMA NodeFacts ==
  /\ Thread \subseteq Node /\ Priority \subseteq Node
  /\ NULL \notin Node /\ NULL \notin Thread /\ NULL \notin Priority
  /\ \A t \in Thread : t \notin Priority
  /\ \A n \in Node : n \in Thread \/ n \in Priority
BY SchedulerAssumption DEF Node

\* What a push writes.
LEMMA PushBackLinks ==
  ASSUME NEW q, Circles(q), NEW t \in Thread, ~Linked(q, t), NEW p \in Priority,
         NEW r, r = QueuePushBack(q, t, p), NEW last, last = q[p].prv
  PROVE  /\ p \in Node /\ t \in Node /\ p # t
         /\ last \in Node /\ last # t /\ q[last].nxt = p
         /\ q[t].prv = NULL
         /\ r \in Links
         /\ r[t].nxt = p /\ r[t].prv = last
         /\ r[p].prv = t
         /\ r[last].nxt = t
         /\ \A n \in Node : n # t /\ n # last => r[n].nxt = q[n].nxt
         /\ \A n \in Node : n # t /\ n # p => r[n].prv = q[n].prv
<1>1. /\ p \in Node /\ t \in Node /\ p # t
      /\ last \in Node /\ last # t /\ q[last].nxt = p
      /\ q[t].prv = NULL
  <2>1. p \in Node /\ t \in Node /\ p # t
    BY NodeFacts
  <2>2. q[t].nxt = NULL /\ q[t].prv = NULL /\ q[p].nxt # NULL /\ q[p].prv # NULL
    BY <2>1 DEF Circles, Coupled, Linked
  <2>3. last \in Node
    BY <2>1, <2>2 DEF Circles, Links
  <2>4. q[last].nxt = p
    BY <2>1, <2>2 DEF Circles, Coupled
  <2>. QED
    BY <2>1, <2>2, <2>3, <2>4, NodeFacts
<1>2. /\ r \in Links
      /\ r[t].nxt = p /\ r[t].prv = last
      /\ r[p].prv = t
      /\ r[last].nxt = t
      /\ \A n \in Node : n # t /\ n # last => r[n].nxt = q[n].nxt
      /\ \A n \in Node : n # t /\ n # p => r[n].prv = q[n].prv
  <2> DEFINE r1 == [q EXCEPT ![t] = [nxt |-> p, prv |-> last]]
             r2 == [r1 EXCEPT ![last].nxt = t]
  <2>1. /\ r1 \in Links
        /\ r1[t].nxt = p /\ r1[t].prv = last
        /\ \A n \in Node : n # t => r1[n].nxt = q[n].nxt /\ r1[n].prv = q[n].prv
    BY <1>1 DEF Circles, Links
  <2>2. r2 = [q EXCEPT ![t] = [nxt |-> p, prv |-> last], ![last].nxt = t]
    OBVIOUS
  <2> HIDE DEF r1
  <2>3. /\ r2 \in Links
        /\ r2[last].nxt = t
        /\ \A n \in Node : r2[n].prv = r1[n].prv
        /\ \A n \in Node : n # last => r2[n].nxt = r1[n].nxt
    BY <2>1, <1>1 DEF Links
  <2>4. r = [r2 EXCEPT ![p].prv = t]
    BY <2>2 DEF QueuePushBack
  <2> HIDE DEF r2
  <2>5. /\ r \in Links
        /\ r[p].prv = t
        /\ \A n \in Node : r[n].nxt = r2[n].nxt
        /\ \A n \in Node : n # p => r[n].prv = r2[n].prv
    BY <2>3, <2>4, <1>1 DEF Links
  <2>. QED
    BY <2>1, <2>3, <2>5, <1>1
<1>. QED
  BY <1>1, <1>2

LEMMA PushBackCircles ==
  ASSUME NEW q, Circles(q), NEW t \in Thread, ~Linked(q, t), NEW p \in Priority
  PROVE  /\ Circles(QueuePushBack(q, t, p))
         /\ \A u \in Thread : Linked(QueuePushBack(q, t, p), u) <=> u = t \/ Linked(q, u)
<1> DEFINE r == QueuePushBack(q, t, p)
           last == q[p].prv
<1>1. /\ p \in Node /\ t \in Node /\ p # t
      /\ last \in Node /\ last # t /\ q[last].nxt = p
      /\ q[t].prv = NULL
  BY PushBackLinks
<1>2. /\ r \in Links
      /\ r[t].nxt = p /\ r[t].prv = last
      /\ r[p].prv = t
      /\ r[last].nxt = t
      /\ \A n \in Node : n # t /\ n # last => r[n].nxt = q[n].nxt
      /\ \A n \in Node : n # t /\ n # p => r[n].prv = q[n].prv
  BY PushBackLinks
<1> HIDE DEF r
<1>3. Coupled(r)
  <2>1. \A n \in Node : n # t => (r[n].nxt = NULL <=> q[n].nxt = NULL)
                               /\ (r[n].prv = NULL <=> q[n].prv = NULL)
    BY <1>1, <1>2, NodeFacts DEF Circles, Coupled
  <2>2. ASSUME NEW n \in Node, r[n].nxt # NULL
        PROVE  r[r[n].nxt].prv = n
    <3>1. CASE n = t \/ n = last
      BY <3>1, <1>1, <1>2
    <3>2. CASE n # t /\ n # last
      <4>1. r[n].nxt = q[n].nxt /\ q[n].nxt # NULL
        BY <3>2, <1>2, <2>2
      <4>2. q[n].nxt \in Node /\ q[q[n].nxt].prv = n
        BY <4>1 DEF Circles, Coupled, Links
      <4>3. q[n].nxt # t /\ q[n].nxt # p
        BY <4>2, <3>2, <1>1, NodeFacts
      <4>. QED
        BY <4>1, <4>2, <4>3, <1>2
    <3>. QED
      BY <3>1, <3>2
  <2>3. ASSUME NEW n \in Node, r[n].nxt # NULL
        PROVE  r[r[n].prv].nxt = n
    <3>1. CASE n = t \/ n = p
      BY <3>1, <1>1, <1>2
    <3>2. CASE n # t /\ n # p
      <4>1. r[n].prv = q[n].prv /\ q[n].nxt # NULL
        BY <3>2, <1>2, <2>1, <2>3
      <4>2. q[n].prv \in Node /\ q[q[n].prv].nxt = n
        BY <4>1 DEF Circles, Coupled, Links
      <4>3. q[n].prv # t /\ q[n].prv # last
        BY <4>2, <3>2, <1>1, NodeFacts DEF Linked
      <4>. QED
        BY <4>1, <4>2, <4>3, <1>2
    <3>. QED
      BY <3>1, <3>2
  <2>4. \A n \in Node : /\ r[n].nxt = NULL <=> r[n].prv = NULL
                        /\ n \in Priority => r[n].nxt # NULL
    BY <2>1, <1>1, <1>2, NodeFacts DEF Circles, Coupled
  <2>. QED
    BY <2>2, <2>3, <2>4 DEF Coupled
<1>4. \A u \in Thread : Linked(r, u) <=> u = t \/ Linked(q, u)
  BY <1>1, <1>2, NodeFacts DEF Linked
<1>5. PICK home \in [Node -> Priority], rank \in [Node -> Nat] : Placed(q, home, rank)
  BY DEF Circles
<1> DEFINE home2 == [home EXCEPT ![t] = p]
           rank2 == [rank EXCEPT ![t] = rank[last] + 1]
<1>6. home2 \in [Node -> Priority] /\ rank2 \in [Node -> Nat]
  BY <1>1, <1>5
<1>7. Placed(r, home2, rank2)
  <2>1. \A x \in Priority : home2[x] = x /\ rank2[x] = 0
    BY <1>5, NodeFacts DEF Placed
  <2>2. home[last] = p
    BY <1>1, <1>5, NodeFacts DEF Placed
  <2>3. ASSUME NEW n \in Node, r[n].nxt # NULL
        PROVE  /\ home2[r[n].nxt] = home2[n]
               /\ r[n].nxt \in Thread => rank2[n] < rank2[r[n].nxt]
    <3>1. CASE n = t
      BY <3>1, <1>1, <1>2, <1>5, NodeFacts DEF Placed
    <3>2. CASE n = last
      BY <3>2, <2>2, <1>1, <1>2, <1>5, NodeFacts
    <3>3. CASE n # t /\ n # last
      <4>1. r[n].nxt = q[n].nxt /\ q[n].nxt \in Node
        BY <3>3, <2>3, <1>2 DEF Circles, Links
      <4>2. q[n].nxt # t
        BY <4>1, <1>1, <2>3, NodeFacts DEF Circles, Coupled
      <4>. QED
        BY <3>3, <4>1, <4>2, <2>3, <1>5 DEF Placed
    <3>. QED
      BY <3>1, <3>2, <3>3
  <2>. QED
    BY <2>1, <2>3 DEF Placed
<1>. QED
  BY <1>2, <1>3, <1>4, <1>6, <1>7 DEF Circles, r

\* What an unlink writes.
LEMMA RemoveLinks ==
  ASSUME NEW q, Circles(q), NEW t \in Thread, Linked(q, t),
         NEW r, r = QueueRemove(q, t),
         NEW before, before = q[t].prv, NEW after, after = q[t].nxt
  PROVE  /\ t \in Node
         /\ before \in Node /\ q[before].nxt = t
         /\ after \in Node /\ q[after].prv = t
         /\ before # t /\ after # t
         /\ r \in Links
         /\ r[t].nxt = NULL /\ r[t].prv = NULL
         /\ r[before].nxt = after
         /\ r[after].prv = before
         /\ \A n \in Node : n # t /\ n # before => r[n].nxt = q[n].nxt
         /\ \A n \in Node : n # t /\ n # after => r[n].prv = q[n].prv
<1>1. PICK home \in [Node -> Priority], rank \in [Node -> Nat] : Placed(q, home, rank)
  BY DEF Circles
<1>2. /\ t \in Node
      /\ before \in Node /\ q[before].nxt = t
      /\ after \in Node /\ q[after].prv = t
  BY NodeFacts DEF Circles, Coupled, Links, Linked
<1>3. /\ home[before] = home[t] /\ home[after] = home[t]
      /\ rank[before] < rank[t]
      /\ after \in Thread => rank[t] < rank[after]
  BY <1>1, <1>2, NodeFacts DEF Placed, Linked
<1>4. before # t /\ after # t
  BY <1>1, <1>2, <1>3, NodeFacts
<1>5. /\ r \in Links
      /\ r[t].nxt = NULL /\ r[t].prv = NULL
      /\ r[before].nxt = after
      /\ r[after].prv = before
      /\ \A n \in Node : n # t /\ n # before => r[n].nxt = q[n].nxt
      /\ \A n \in Node : n # t /\ n # after => r[n].prv = q[n].prv
  <2>1. q \in [Node -> [nxt : Node \cup {NULL}, prv : Node \cup {NULL}]]
    BY DEF Circles, Links
  <2>2. r = [q EXCEPT ![before].nxt = after, ![after].prv = before,
                      ![t] = [nxt |-> NULL, prv |-> NULL]]
    BY <1>2, NodeFacts DEF QueueRemove
  <2> DEFINE r1 == [q EXCEPT ![before].nxt = after]
             r2 == [r1 EXCEPT ![after].prv = before]
  <2>3. /\ r1 \in Links
        /\ r1[before].nxt = after
        /\ \A n \in Node : r1[n].prv = q[n].prv
        /\ \A n \in Node : n # before => r1[n].nxt = q[n].nxt
    BY <2>1, <1>2 DEF Links
  <2> HIDE DEF r1
  <2>4. /\ r2 \in Links
        /\ r2[after].prv = before
        /\ \A n \in Node : r2[n].nxt = r1[n].nxt
        /\ \A n \in Node : n # after => r2[n].prv = r1[n].prv
    BY <2>3, <1>2 DEF Links
  <2>5. r = [r2 EXCEPT ![t] = [nxt |-> NULL, prv |-> NULL]]
    BY <2>2 DEF r1
  <2> HIDE DEF r2
  <2>6. /\ r \in Links
        /\ r[t].nxt = NULL /\ r[t].prv = NULL
        /\ \A n \in Node : n # t => r[n].nxt = r2[n].nxt /\ r[n].prv = r2[n].prv
    BY <2>4, <2>5, <1>2 DEF Links
  <2>. QED
    BY <2>3, <2>4, <2>6, <1>2, <1>4
<1>. QED
  BY <1>2, <1>4, <1>5

LEMMA RemoveCircles ==
  ASSUME NEW q, Circles(q), NEW t \in Thread, Linked(q, t)
  PROVE  /\ Circles(QueueRemove(q, t))
         /\ \A u \in Thread : Linked(QueueRemove(q, t), u) <=> u # t /\ Linked(q, u)
<1> DEFINE r == QueueRemove(q, t)
           before == q[t].prv
           after  == q[t].nxt
<1>1. PICK home \in [Node -> Priority], rank \in [Node -> Nat] : Placed(q, home, rank)
  BY DEF Circles
<1>2. /\ t \in Node
      /\ before \in Node /\ q[before].nxt = t
      /\ after \in Node /\ q[after].prv = t
  BY RemoveLinks
<1>3. /\ home[before] = home[t] /\ home[after] = home[t]
      /\ rank[before] < rank[t]
      /\ after \in Thread => rank[t] < rank[after]
  BY <1>1, <1>2, NodeFacts DEF Placed, Linked
<1>4. before # t /\ after # t
  BY RemoveLinks
<1>5. /\ r \in Links
      /\ r[t].nxt = NULL /\ r[t].prv = NULL
      /\ r[before].nxt = after
      /\ r[after].prv = before
      /\ \A n \in Node : n # t /\ n # before => r[n].nxt = q[n].nxt
      /\ \A n \in Node : n # t /\ n # after => r[n].prv = q[n].prv
  BY RemoveLinks
<1> HIDE DEF r
<1>6. Coupled(r)
  <2>1. \A n \in Node : n # t => (r[n].nxt = NULL <=> q[n].nxt = NULL)
                               /\ (r[n].prv = NULL <=> q[n].prv = NULL)
    BY <1>2, <1>4, <1>5, NodeFacts
  <2>2. ASSUME NEW n \in Node, r[n].nxt # NULL
        PROVE  r[r[n].nxt].prv = n
    <3>1. CASE n = before
      BY <3>1, <1>5
    <3>2. CASE n # before
      <4>1. n # t /\ r[n].nxt = q[n].nxt /\ q[n].nxt # NULL
        BY <3>2, <1>5, <2>2
      <4>2. q[n].nxt \in Node /\ q[q[n].nxt].prv = n
        BY <4>1 DEF Circles, Coupled, Links
      <4>3. q[n].nxt # t /\ q[n].nxt # after
        BY <4>1, <4>2, <3>2, <1>2
      <4>. QED
        BY <4>1, <4>2, <4>3, <1>5
    <3>. QED
      BY <3>1, <3>2
  <2>3. ASSUME NEW n \in Node, r[n].nxt # NULL
        PROVE  r[r[n].prv].nxt = n
    <3>1. CASE n = after
      BY <3>1, <1>5
    <3>2. CASE n # after
      <4>1. n # t /\ r[n].prv = q[n].prv /\ q[n].nxt # NULL
        BY <3>2, <1>5, <2>1, <2>3
      <4>2. q[n].prv \in Node /\ q[q[n].prv].nxt = n
        BY <4>1 DEF Circles, Coupled, Links
      <4>3. q[n].prv # t /\ q[n].prv # before
        BY <4>1, <4>2, <3>2, <1>2
      <4>. QED
        BY <4>1, <4>2, <4>3, <1>5
    <3>. QED
      BY <3>1, <3>2
  <2>4. \A n \in Node : /\ r[n].nxt = NULL <=> r[n].prv = NULL
                        /\ n \in Priority => r[n].nxt # NULL
    <3>1. \A n \in Node : /\ q[n].nxt = NULL <=> q[n].prv = NULL
                          /\ n \in Priority => q[n].nxt # NULL
      BY DEF Circles, Coupled
    <3>2. t \notin Priority /\ t \in Node
      BY NodeFacts
    <3>. QED
      BY <3>1, <3>2, <2>1, <1>5
  <2>. QED
    BY <2>2, <2>3, <2>4 DEF Coupled
<1>7. \A u \in Thread : Linked(r, u) <=> u # t /\ Linked(q, u)
  BY <1>2, <1>4, <1>5, NodeFacts DEF Linked
<1>8. Placed(r, home, rank)
  <2>1. ASSUME NEW n \in Node, r[n].nxt # NULL
        PROVE  /\ home[r[n].nxt] = home[n]
               /\ r[n].nxt \in Thread => rank[n] < rank[r[n].nxt]
    <3>1. CASE n = before
      BY <3>1, <1>1, <1>2, <1>3, <1>5
    <3>2. CASE n # before
      BY <3>2, <2>1, <1>1, <1>5 DEF Placed
    <3>. QED
      BY <3>1, <3>2
  <2>. QED
    BY <2>1, <1>1 DEF Placed
<1>. QED
  BY <1>1, <1>5, <1>6, <1>7, <1>8 DEF Circles, r

LEMMA PopCircles ==
  ASSUME NEW q, Circles(q), NonEmpty(q) # {}
  PROVE  QueuePop(q) \in Thread /\ Linked(q, QueuePop(q))
<1>1. PICK home \in [Node -> Priority], rank \in [Node -> Nat] : Placed(q, home, rank)
  BY DEF Circles
<1>2. \E p \in NonEmpty(q) : \A r \in NonEmpty(q) : r <= p
  BY DEF NonEmpty, Priority, LOW, NORMAL, HIGH
<1>3. Highest(q) \in NonEmpty(q)
  BY <1>2 DEF Highest
<1> DEFINE p == Highest(q)
<1>4. p \in Priority /\ q[p].nxt # p /\ q[p].nxt \in Node
  BY <1>3, NodeFacts DEF NonEmpty, Circles, Coupled, Links
<1> HIDE DEF p
<1>5. home[q[p].nxt] = p
  BY <1>1, <1>4, NodeFacts DEF Placed
<1>6. q[p].nxt \in Thread
  BY <1>1, <1>4, <1>5, NodeFacts DEF Placed
<1>7. Linked(q, q[p].nxt)
  BY <1>4, <1>6, NodeFacts DEF Circles, Coupled, Linked
<1>. QED
  BY <1>6, <1>7 DEF p, QueuePop

(***************************************************************************)
(* A linked thread keeps the queues non-empty: going back from it along    *)
(* Prev the rank falls, so a sentinel is reached.                          *)
(***************************************************************************)
LEMMA LinkedNonEmpty ==
  ASSUME NEW q, Circles(q), NEW t \in Thread, Linked(q, t)
  PROVE  NonEmpty(q) # {}
<1>1. PICK home \in [Node -> Priority], rank \in [Node -> Nat] : Placed(q, home, rank)
  BY DEF Circles
<1> DEFINE Ranks == {rank[u] : u \in {v \in Thread : Linked(q, v)}}
<1>2. Ranks \subseteq Nat /\ rank[t] \in Ranks
  BY <1>1, NodeFacts
<1>3. PICK least \in Ranks : \A k \in Ranks : <<k, least>> \notin OpToRel(<, Nat)
  BY <1>2, NatLessThanWellFounded, WFMin, Zenon
<1>4. PICK u \in Thread : Linked(q, u) /\ rank[u] = least
  BY <1>3
<1>5. \A v \in Thread : Linked(q, v) => ~(rank[v] < rank[u])
  BY <1>1, <1>2, <1>3, <1>4, NodeFacts DEF OpToRel
<1>6. /\ q[u].prv \in Node /\ q[q[u].prv].nxt = u
  BY <1>4, NodeFacts DEF Circles, Coupled, Links, Linked
<1>7. rank[q[u].prv] < rank[u]
  BY <1>1, <1>6, NodeFacts DEF Placed
<1>8. q[u].prv \notin Thread
  BY <1>5, <1>6, <1>7, NodeFacts DEF Linked
<1>9. q[u].prv \in Priority /\ q[q[u].prv].nxt # q[u].prv
  BY <1>6, <1>8, NodeFacts
<1>. QED
  BY <1>9 DEF NonEmpty

-----------------------------------------------------------------------------
(* The sleep list.                                                         *)

LEMMA PushSleeper ==
  ASSUME NEW s \in Seq(Thread), Distinct(s), NEW t \in Thread, ~OnList(s, t)
  PROVE  /\ <<t>> \o s \in Seq(Thread)
         /\ Distinct(<<t>> \o s)
         /\ \A u : OnList(<<t>> \o s, u) <=> u = t \/ OnList(s, u)
<1> DEFINE r == <<t>> \o s
<1>1. /\ r \in Seq(Thread) /\ Len(r) = Len(s) + 1 /\ r[1] = t
      /\ \A i \in 2 .. Len(s) + 1 : r[i] = s[i - 1]
      /\ Len(s) \in Nat
  OBVIOUS
<1> HIDE DEF r
<1>2. ASSUME NEW i \in 1 .. Len(r), NEW j \in 1 .. Len(r), r[i] = r[j]
      PROVE  i = j
  <2>1. CASE i = 1 \/ j = 1
    BY <2>1, <1>1, <1>2 DEF OnList
  <2>2. CASE i # 1 /\ j # 1
    <3>1. i - 1 \in 1 .. Len(s) /\ j - 1 \in 1 .. Len(s) /\ s[i - 1] = s[j - 1]
      BY <2>2, <1>1, <1>2
    <3>. QED
      BY <3>1 DEF Distinct
  <2>. QED
    BY <2>1, <2>2
<1>3. ASSUME NEW u
      PROVE  OnList(r, u) <=> u = t \/ OnList(s, u)
  <2>1. ASSUME NEW i \in 1 .. Len(s)
        PROVE  i + 1 \in 1 .. Len(r) /\ r[i + 1] = s[i]
    BY <1>1
  <2>2. ASSUME NEW i \in 1 .. Len(r), i # 1
        PROVE  i - 1 \in 1 .. Len(s) /\ r[i] = s[i - 1]
    BY <2>2, <1>1
  <2>3. 1 \in 1 .. Len(r)
    BY <1>1
  <2>4. OnList(r, u) => u = t \/ OnList(s, u)
    BY <2>2, <1>1 DEF OnList
  <2>5. OnList(s, u) => OnList(r, u)
    BY <2>1 DEF OnList
  <2>6. u = t => OnList(r, u)
    BY <2>3, <1>1 DEF OnList
  <2>. QED
    BY <2>4, <2>5, <2>6
<1>. QED
  BY <1>1, <1>2, <1>3 DEF Distinct, r

LEMMA DropSleeper ==
  ASSUME NEW s \in Seq(Thread), Distinct(s), NEW k \in 1 .. Len(s)
  PROVE  /\ Without(s, k) \in Seq(Thread)
         /\ Distinct(Without(s, k))
         /\ \A u : OnList(Without(s, k), u) <=> u # s[k] /\ OnList(s, u)
<1> DEFINE r == Without(s, k)
           n == Len(s) - 1
<1>1. /\ Len(s) \in Nat /\ n \in Nat /\ \A i \in 1 .. Len(s) : s[i] \in Thread
  OBVIOUS
<1>2. r \in [1 .. n -> Thread]
  BY <1>1 DEF Without
<1>3. r \in Seq(Thread) /\ Len(r) = n
  BY <1>1, <1>2
<1>4. \A i \in 1 .. n : r[i] = IF i < k THEN s[i] ELSE s[i + 1]
  BY DEF Without
<1> HIDE DEF r
<1>5. ASSUME NEW i \in 1 .. n, NEW j \in 1 .. n, r[i] = r[j]
      PROVE  i = j
  BY <1>1, <1>4, <1>5 DEF Distinct
<1>6. ASSUME NEW u, OnList(r, u)
      PROVE  u # s[k] /\ OnList(s, u)
  <2>1. PICK i \in 1 .. n : r[i] = u
    BY <1>3, <1>6 DEF OnList
  <2>2. PICK j \in 1 .. Len(s) : j # k /\ s[j] = u
    BY <2>1, <1>1, <1>4
  <2>. QED
    BY <2>2 DEF OnList, Distinct
<1>7. ASSUME NEW u, u # s[k], OnList(s, u)
      PROVE  OnList(r, u)
  <2>1. PICK j \in 1 .. Len(s) : s[j] = u
    BY <1>7 DEF OnList
  <2>2. j # k
    BY <2>1, <1>7
  <2>3. CASE j < k
    BY <2>1, <2>3, <1>1, <1>3, <1>4 DEF OnList
  <2>4. CASE j > k
    <3>1. j - 1 \in 1 .. n /\ r[j - 1] = u
      BY <2>1, <2>4, <1>1, <1>4
    <3>. QED
      BY <3>1, <1>3 DEF OnList
  <2>. QED
    BY <2>2, <2>3, <2>4, <1>1
<1>. QED
  BY <1>3, <1>5, <1>6, <1>7 DEF Distinct, r

-----------------------------------------------------------------------------
(***************************************************************************)
(* The inductive invariant.  NoThreadLost is not inductive by itself: it   *)
(* takes what state and pc a thread has in each place, that the circles    *)
(* are circles, that Main is always queued when it does not run (so that   *)
(* a thread that gives up the CPU finds one to switch to), and that a tick *)
(* in Sleep's gap leaves the sleeper at least one tick to go.              *)
(***************************************************************************)

Begun(t) == pc[t] \notin {"unborn", "halt"}

QueuedInv(t) ==
  Linked(link, t) => /\ state[t] = "READY" /\ t # current /\ Begun(t)
                     /\ ~Asleep(t) /\ t \notin waiters

AsleepInv(t) ==
  Asleep(t) => /\ state[t] = "BLOCKED" /\ Begun(t) /\ t # Main /\ t \notin waiters
               /\ isr = "idle" => sleepLeft[t] > 0
               /\ t = current => /\ pc[t] = "gap"
                                 /\ sleepLeft[t] >= (IF struck THEN 1 ELSE 2)

WaitingInv(t) ==
  t \in waiters => /\ state[t] = "BLOCKED" /\ Begun(t) /\ t # Main
                   /\ t = current => pc[t] = "gap"

WokenInv(t) ==
  \A u \in Thread : waking[u] = t =>
    /\ state[t] \in {"READY", "BLOCKED"} /\ Begun(t) /\ t # current /\ t # Main
    /\ ~Linked(link, t) /\ ~Asleep(t) /\ t \notin waiters

PlaceInv(t) ==
  Alive(t) => \/ t = current /\ state[t] = "RUNNING"
              \/ Linked(link, t) \/ Asleep(t) \/ t \in waiters
              \/ \E u \in Thread : waking[u] = t

StateInv(t) ==
  /\ state[t] = "RUNNING" => t = current
  /\ pc[t] = "unborn" => state[t] = "READY"
  /\ pc[t] = "halt" => state[t] = "TERMINATED"
  /\ waking[t] # NULL <=> pc[t] = "wake"

ThreadInv(t) ==
  /\ QueuedInv(t) /\ AsleepInv(t) /\ WaitingInv(t) /\ WokenInv(t)
  /\ PlaceInv(t) /\ StateInv(t)

CurrentInv ==
  /\ Begun(current)
  /\ pc[current] # "gap" => state[current] = "RUNNING"
  /\ state[current] # "READY"
  /\ struck => pc[current] = "gap"
  /\ quantum = 0 => current = Main
  /\ Main # current => Linked(link, Main)
  /\ pc[Main] \in {"run", "wake"}

OneWaker ==
  \A u, v \in Thread : waking[u] = waking[v] /\ waking[u] # NULL => u = v

IInv ==
  /\ LongSleeps
  /\ TypeOK
  /\ Circles(link)
  /\ Distinct(sleepers)
  /\ CurrentInv
  /\ OneWaker
  /\ \A t \in Thread : ThreadInv(t)

LEMMA InitIInv == LongSleeps /\ Init => IInv
<1> SUFFICES ASSUME LongSleeps, Init PROVE IInv
  OBVIOUS
<1> USE SchedulerAssumption, NodeFacts DEF Init
<1>1. /\ current = Main /\ Main \in Thread /\ waiters = {} /\ isr = "idle" /\ struck = FALSE
      /\ quantum = Quantum /\ Quantum \in Nat \ {0} /\ sleepers = <<>>
  OBVIOUS
<1>2. \A t \in Thread : /\ ~Linked(link, t) /\ ~Asleep(t) /\ waking[t] = NULL
                        /\ link[t] = [nxt |-> NULL, prv |-> NULL]
  BY DEF Linked, Asleep, OnList
<1>3. TypeOK
  <2>1. link \in [Node -> [nxt : Node \cup {NULL}, prv : Node \cup {NULL}]]
    OBVIOUS
  <2>2. priority \in [Thread -> Priority]
    BY DEF Priority
  <2>3. state \in [Thread -> ThreadState] /\ pc \in [Thread -> Location]
    BY DEF ThreadState, Location
  <2>4. quantum \in 0 .. Quantum /\ sleepLeft \in [Thread -> Nat]
    BY <1>1
  <2>5. sleepers \in Seq(Thread)
    BY <1>1
  <2>6. waking \in [Thread -> Thread \cup {NULL}]
    OBVIOUS
  <2>7. current \in Thread /\ waiters \subseteq Thread /\ isr \in {"idle", "wake"}
        /\ struck \in BOOLEAN
    BY <1>1
  <2> HIDE DEF Init
  <2>. QED
    BY <2>1, <2>2, <2>3, <2>4, <2>5, <2>6, <2>7 DEF TypeOK
<1>4. Circles(link)
  <2> DEFINE home == [n \in Node |-> IF n \in Priority THEN n ELSE LOW]
             rank == [n \in Node |-> 0]
  <2>1. home \in [Node -> Priority] /\ rank \in [Node -> Nat]
    BY DEF Priority
  <2>2. \A p \in Priority : link[p] = [nxt |-> p, prv |-> p]
    OBVIOUS
  <2>3. Placed(link, home, rank)
    BY <1>2, <2>2 DEF Placed
  <2>4. Coupled(link)
    BY <1>2, <2>2 DEF Coupled
  <2>. QED
    BY <1>3, <2>1, <2>3, <2>4 DEF Circles, Links, TypeOK
<1>5. Distinct(sleepers)
  BY DEF Distinct
<1>6. CurrentInv
  BY <1>1 DEF CurrentInv, Begun
<1>7. OneWaker
  BY <1>2 DEF OneWaker
<1>8. ASSUME NEW t \in Thread
      PROVE  ThreadInv(t)
  BY <1>1, <1>2 DEF ThreadInv, QueuedInv, AsleepInv, WaitingInv, WokenInv, PlaceInv,
                    StateInv, Alive
<1>. QED
  BY <1>3, <1>4, <1>5, <1>6, <1>7, <1>8 DEF IInv

(***************************************************************************)
(* What a switch does when a thread is ready, and that the queues are only *)
(* empty while Main runs.                                                  *)
(***************************************************************************)
LEMMA EmptyOnlyForMain == IInv /\ NonEmpty(link) = {} => current = Main
  BY LinkedNonEmpty, SchedulerAssumption DEF IInv, CurrentInv

LEMMA SwitchFacts ==
  ASSUME IInv, ScheduleInternal, NonEmpty(link) # {}
  PROVE  \E next \in Thread :
           /\ next # current /\ Linked(link, next)
           /\ current' = next /\ quantum' = Quantum
           /\ Circles(link')
           /\ state' = [state EXCEPT ![current] = IF state[current] = "RUNNING"
                                                  THEN "READY" ELSE @,
                                     ![next] = "RUNNING"]
           /\ \A u \in Thread : Linked(link', u) <=>
                \/ u = current /\ state[current] = "RUNNING"
                \/ u # next /\ Linked(link, u)
<1> DEFINE next == QueuePop(link)
           popped == QueueRemove(link, next)
<1>1. next \in Thread /\ Linked(link, next)
  BY PopCircles DEF IInv
<1>2. next # current /\ current \in Thread /\ ~Linked(link, current)
  BY <1>1 DEF IInv, ThreadInv, QueuedInv, TypeOK
<1>3. /\ Circles(popped)
      /\ \A u \in Thread : Linked(popped, u) <=> u # next /\ Linked(link, u)
  BY <1>1, RemoveCircles DEF IInv
<1> HIDE DEF next, popped
<1>4. /\ current' = next /\ quantum' = Quantum
      /\ link' = IF state[current] = "RUNNING"
                 THEN QueuePushBack(popped, current, priority[current])
                 ELSE popped
      /\ state' = [state EXCEPT ![current] = IF state[current] = "RUNNING"
                                              THEN "READY" ELSE @,
                                ![next] = "RUNNING"]
  BY <1>2 DEF ScheduleInternal, Requeued, next, popped
<1>5. /\ Circles(link')
      /\ \A u \in Thread : Linked(link', u) <=>
           \/ u = current /\ state[current] = "RUNNING"
           \/ u # next /\ Linked(link, u)
  <2>1. CASE state[current] = "RUNNING"
    <3>1. link' = QueuePushBack(popped, current, priority[current])
      BY <2>1, <1>4
    <3>2. priority[current] \in Priority /\ ~Linked(popped, current)
      BY <1>2, <1>3 DEF IInv, TypeOK
    <3>3. /\ Circles(link')
          /\ \A u \in Thread : Linked(link', u) <=> u = current \/ Linked(popped, u)
      BY <3>1, <3>2, <1>2, <1>3, PushBackCircles
    <3>. QED
      BY <2>1, <3>3, <1>3
  <2>2. CASE state[current] # "RUNNING"
    BY <2>2, <1>2, <1>3, <1>4
  <2>. QED
    BY <2>1, <2>2
<1>. QED
  BY <1>1, <1>2, <1>4, <1>5

LEMMA UnchangedIInv == IInv /\ UNCHANGED vars => IInv'
<1> SUFFICES ASSUME IInv, UNCHANGED vars PROVE IInv'
  OBVIOUS
<1>1. \A t \in Thread : (Asleep(t)' <=> Asleep(t)) /\ (Alive(t)' <=> Alive(t)) /\ (Begun(t)' <=> Begun(t))
  BY DEF vars, Asleep, Alive, Begun
<1>2. ASSUME NEW t \in Thread
      PROVE  ThreadInv(t)'
  BY <1>1 DEF vars, IInv, ThreadInv, QueuedInv, AsleepInv, WaitingInv, WokenInv, PlaceInv, StateInv
<1>3. TypeOK' /\ CurrentInv' /\ OneWaker' /\ Circles(link)' /\ Distinct(sleepers)' /\ LongSleeps'
  BY DEF vars, IInv, TypeOK, CurrentInv, OneWaker, Begun, LongSleeps
<1>. QED
  BY <1>2, <1>3 DEF IInv

\* A switch keeps the invariant, wherever in its code it leaves the thread.
LEMMA SwitchKeepsIInv ==
  ASSUME IInv, ScheduleInternal, NonEmpty(link) # {},
         UNCHANGED <<priority, sleepers, sleepLeft, waiters, waking>>,
         isr' = "idle", struck' = FALSE,
         \A t \in Thread : Asleep(t) => sleepLeft[t] > 0,
         \/ pc' = pc
         \/ /\ pc[current] = "gap"
            /\ pc' = [pc EXCEPT ![current] = IF state[current] = "TERMINATED"
                                             THEN "halt" ELSE "run"]
  PROVE  IInv'
<1>1. PICK next \in Thread :
        /\ next # current /\ Linked(link, next)
        /\ current' = next /\ quantum' = Quantum
        /\ Circles(link')
        /\ state' = [state EXCEPT ![current] = IF state[current] = "RUNNING"
                                               THEN "READY" ELSE @,
                                  ![next] = "RUNNING"]
        /\ \A u \in Thread : Linked(link', u) <=>
             \/ u = current /\ state[current] = "RUNNING"
             \/ u # next /\ Linked(link, u)
  BY SwitchFacts
<1>2. /\ TypeOK /\ current \in Thread /\ current # next
      /\ state \in [Thread -> ThreadState] /\ pc \in [Thread -> Location]
  BY <1>1 DEF IInv, TypeOK
<1>3. TypeOK'
  <2>1. /\ current' \in Thread /\ quantum' \in 0 .. Quantum
        /\ link' \in [Node -> [nxt : Node \cup {NULL}, prv : Node \cup {NULL}]]
    BY <1>1, SchedulerAssumption DEF Circles, Links
  <2>2. state' \in [Thread -> ThreadState] /\ pc' \in [Thread -> Location]
    BY <1>1, <1>2 DEF ThreadState, Location
  <2>. QED
    BY <2>1, <2>2, <1>2 DEF TypeOK
<1>4. /\ state'[next] = "RUNNING"
      /\ state'[current] = IF state[current] = "RUNNING" THEN "READY" ELSE state[current]
      /\ \A u \in Thread : u # next /\ u # current => state'[u] = state[u]
      /\ \A u \in Thread : u # current => pc'[u] = pc[u]
      /\ pc'[current] \in {pc[current], "run", "halt"}
      /\ pc'[current] # pc[current] => pc[current] = "gap"
      /\ pc'[current] = "halt" <=> pc'[current] # pc[current] /\ state[current] = "TERMINATED"
  BY <1>1, <1>2 DEF Location, IInv, CurrentInv, Begun
<1>5. \A u \in Thread : Asleep(u)' <=> Asleep(u)
  BY DEF Asleep
<1>6. /\ ThreadInv(next) /\ ThreadInv(current) /\ CurrentInv
      /\ state[next] = "READY" /\ Begun(next) /\ ~Asleep(next) /\ next \notin waiters
      /\ \A u \in Thread : waking[u] # next
  BY <1>1, <1>2 DEF IInv, ThreadInv, QueuedInv, WokenInv
<1>7. ASSUME NEW t \in Thread
      PROVE  ThreadInv(t)'
  <2>1. ThreadInv(t)
    BY DEF IInv
  <2>2. QueuedInv(t)'
    BY <2>1, <1>1, <1>2, <1>4, <1>5, <1>6
       DEF QueuedInv, ThreadInv, AsleepInv, WaitingInv, CurrentInv, Begun
  <2>3. AsleepInv(t)'
    BY <2>1, <1>1, <1>2, <1>4, <1>5, <1>6 DEF AsleepInv, ThreadInv, Begun
  <2>4. WaitingInv(t)'
    BY <2>1, <1>1, <1>2, <1>4, <1>6 DEF WaitingInv, ThreadInv, Begun
  <2>5. WokenInv(t)'
    BY <2>1, <1>1, <1>2, <1>4, <1>5, <1>6 DEF WokenInv, ThreadInv, Begun
  <2>6. PlaceInv(t)'
    BY <2>1, <1>1, <1>2, <1>4, <1>5, <1>6 DEF PlaceInv, ThreadInv, Alive, Begun, CurrentInv
  <2>7. StateInv(t)'
    BY <2>1, <1>1, <1>2, <1>4, <1>6 DEF StateInv, ThreadInv, Begun, CurrentInv
  <2>. QED
    BY <2>2, <2>3, <2>4, <2>5, <2>6, <2>7 DEF ThreadInv
<1>8. CurrentInv'
  <2>1. Begun(current)' /\ state'[current'] = "RUNNING"
    BY <1>1, <1>2, <1>4, <1>6 DEF Begun
  <2>2. quantum' # 0
    BY <1>1, SchedulerAssumption
  <2>3. Main # current' => Linked(link', Main)
    BY <1>1, <1>6, SchedulerAssumption DEF CurrentInv
  <2>4. pc'[Main] \in {"run", "wake"}
    BY <1>4, <1>6, SchedulerAssumption DEF CurrentInv
  <2>. QED
    BY <2>1, <2>2, <2>3, <2>4 DEF CurrentInv
<1>9. OneWaker' /\ Distinct(sleepers)' /\ LongSleeps'
  BY DEF IInv, OneWaker, LongSleeps, Distinct
<1>. QED
  BY <1>1, <1>3, <1>7, <1>8, <1>9 DEF IInv

LEMMA YieldIInv == IInv /\ Yield => IInv'
<1> SUFFICES ASSUME IInv, Yield PROVE IInv'
  OBVIOUS
<1>1. /\ isr = "idle" /\ isr' = "idle" /\ pc[current] = "run" /\ pc' = pc
      /\ UNCHANGED <<priority, sleepers, sleepLeft, waiters, waking, struck>>
      /\ ScheduleInternal
  BY DEF Yield, At
<1>2. struck = FALSE
  BY <1>1 DEF IInv, TypeOK, CurrentInv
<1>3. CASE NonEmpty(link) = {}
  BY <1>1, <1>3, UnchangedIInv DEF ScheduleInternal, vars
<1>4. CASE NonEmpty(link) # {}
  <2>1. \A t \in Thread : Asleep(t) => sleepLeft[t] > 0
    BY <1>1 DEF IInv, ThreadInv, AsleepInv
  <2>. QED
    BY <1>1, <1>2, <1>4, <2>1, SwitchKeepsIInv
<1>. QED
  BY <1>3, <1>4

LEMMA SwitchAwayIInv == IInv /\ SwitchAway => IInv'
<1> SUFFICES ASSUME IInv, SwitchAway PROVE IInv'
  OBVIOUS
<1>1. /\ isr = "idle" /\ isr' = "idle" /\ pc[current] = "gap" /\ struck' = FALSE
      /\ pc' = [pc EXCEPT ![current] = IF state[current] = "TERMINATED"
                                       THEN "halt" ELSE "run"]
      /\ UNCHANGED <<priority, sleepers, sleepLeft, waiters, waking>>
      /\ ScheduleInternal
  BY DEF SwitchAway, At
<1>2. NonEmpty(link) # {}
  BY <1>1, EmptyOnlyForMain DEF IInv, CurrentInv
<1>3. \A t \in Thread : Asleep(t) => sleepLeft[t] > 0
  BY <1>1 DEF IInv, ThreadInv, AsleepInv
<1>. QED
  BY <1>1, <1>2, <1>3, SwitchKeepsIInv


-----------------------------------------------------------------------------
(* The other actions, one lemma each.                                      *)

LEMMA AddThreadIInv ==
  ASSUME NEW t0 \in Thread, IInv, AddThread(t0)
  PROVE  IInv'
<1>1. /\ isr = "idle" /\ pc[current] = "run" /\ isr' = isr /\ pc[t0] = "unborn"
      /\ state' = [state EXCEPT ![t0] = "READY"]
      /\ link' = QueuePushBack(link, t0, priority[t0])
      /\ pc' = [pc EXCEPT ![t0] = "run"]
      /\ UNCHANGED <<current, priority, quantum, sleepers, sleepLeft, waiters, waking, struck>>
  BY DEF AddThread, At
<1>2. /\ TypeOK /\ current \in Thread /\ ThreadInv(current) /\ CurrentInv /\ OneWaker
      /\ state \in [Thread -> ThreadState] /\ pc \in [Thread -> Location]
      /\ waking \in [Thread -> Thread \cup {NULL}] /\ waiters \subseteq Thread
      /\ sleepLeft \in [Thread -> Nat]
  BY DEF IInv, TypeOK
<1>3. /\ ~Linked(link, t0) /\ ~Asleep(t0) /\ t0 \notin waiters /\ t0 # current
      /\ state[t0] = "READY" /\ \A u \in Thread : waking[u] # t0
  BY <1>1, <1>2 DEF IInv, ThreadInv, QueuedInv, AsleepInv, WaitingInv, WokenInv, StateInv, Begun
<1>4. /\ Circles(link')
      /\ \A u \in Thread : Linked(link', u) <=> u = t0 \/ Linked(link, u)
  BY <1>1, <1>2, <1>3, PushBackCircles DEF IInv, TypeOK
<1>5. \A u \in Thread : Asleep(u)' <=> Asleep(u)
  BY <1>1 DEF Asleep
<1>6. TypeOK'
  BY <1>1, <1>2, <1>4 DEF TypeOK, ThreadState, Location, Circles, Links
<1>7. ASSUME NEW t \in Thread
      PROVE  ThreadInv(t)'
  <2>. ThreadInv(t)
    BY DEF IInv
  <2> USE <1>1, <1>2, <1>3, <1>4, <1>5, NodeFacts, SchedulerAssumption
      DEF ThreadInv, QueuedInv, AsleepInv, WaitingInv, WokenInv, PlaceInv, StateInv,
          CurrentInv, OneWaker, Alive, Begun, Location, ThreadState
  <2>1. QueuedInv(t)'
    OBVIOUS
  <2>2. AsleepInv(t)'
    OBVIOUS
  <2>3. WaitingInv(t)'
    OBVIOUS
  <2>4. WokenInv(t)'
    OBVIOUS
  <2>5. PlaceInv(t)'
    OBVIOUS
  <2>6. StateInv(t)'
    OBVIOUS
  <2>. QED
    BY <2>1, <2>2, <2>3, <2>4, <2>5, <2>6 DEF ThreadInv
<1>8. CurrentInv'
  BY <1>1, <1>2, <1>3, <1>4, <1>5, NodeFacts, SchedulerAssumption
     DEF CurrentInv, ThreadInv, QueuedInv, AsleepInv, WaitingInv, WokenInv, StateInv, Begun
<1>9. OneWaker'
  BY <1>1, <1>2, <1>3, NodeFacts DEF OneWaker, ThreadInv, StateInv, WaitingInv
<1>10. Distinct(sleepers)' /\ LongSleeps'
  BY <1>1 DEF IInv, Distinct, LongSleeps
<1>. QED
  BY <1>6, <1>4, <1>7, <1>8, <1>9, <1>10 DEF IInv

LEMMA SleepIInv ==
  ASSUME NEW d \in SleepTicks, IInv, Sleep(d)
  PROVE  IInv'
<1>1. /\ isr = "idle" /\ pc[current] = "run" /\ isr' = isr /\ current # Main
      /\ sleepers' = <<current>> \o sleepers
      /\ sleepLeft' = [sleepLeft EXCEPT ![current] = d]
      /\ state' = [state EXCEPT ![current] = "BLOCKED"]
      /\ pc' = [pc EXCEPT ![current] = "gap"]
      /\ UNCHANGED <<current, priority, link, quantum, waiters, waking, struck>>
  BY DEF Sleep, At
<1>2. /\ TypeOK /\ current \in Thread /\ ThreadInv(current) /\ CurrentInv /\ OneWaker
      /\ state \in [Thread -> ThreadState] /\ pc \in [Thread -> Location]
      /\ waking \in [Thread -> Thread \cup {NULL}] /\ waiters \subseteq Thread
      /\ sleepLeft \in [Thread -> Nat]
  BY DEF IInv, TypeOK
<1>3. /\ state[current] = "RUNNING" /\ ~Asleep(current) /\ current \notin waiters
      /\ ~Linked(link, current) /\ d \in Nat /\ d >= 2 /\ ~struck
      /\ \A u \in Thread : waking[u] # current
      /\ sleepers' \in Seq(Thread)
  BY <1>1, <1>2, SchedulerAssumption
     DEF IInv, TypeOK, ThreadInv, QueuedInv, AsleepInv, WaitingInv, WokenInv, CurrentInv, LongSleeps
<1>4. Circles(link') /\ \A u \in Thread : Linked(link', u) <=> Linked(link, u)
  BY <1>1 DEF IInv
<1>5. \A u \in Thread : Asleep(u)' <=> u = current \/ Asleep(u)
  BY <1>1, <1>2, <1>3, PushSleeper DEF Asleep, IInv, TypeOK
<1>6. TypeOK'
  BY <1>1, <1>2, <1>3 DEF TypeOK, ThreadState, Location
<1>7. ASSUME NEW t \in Thread
      PROVE  ThreadInv(t)'
  <2>. ThreadInv(t)
    BY DEF IInv
  <2> USE <1>1, <1>2, <1>3, <1>4, <1>5, NodeFacts, SchedulerAssumption
      DEF ThreadInv, QueuedInv, AsleepInv, WaitingInv, WokenInv, PlaceInv, StateInv,
          CurrentInv, OneWaker, Alive, Begun, Location, ThreadState
  <2>1. QueuedInv(t)'
    OBVIOUS
  <2>2. AsleepInv(t)'
    OBVIOUS
  <2>3. WaitingInv(t)'
    OBVIOUS
  <2>4. WokenInv(t)'
    OBVIOUS
  <2>5. PlaceInv(t)'
    OBVIOUS
  <2>6. StateInv(t)'
    OBVIOUS
  <2>. QED
    BY <2>1, <2>2, <2>3, <2>4, <2>5, <2>6 DEF ThreadInv
<1>8. CurrentInv'
  BY <1>1, <1>2, <1>3, <1>4, <1>5, NodeFacts, SchedulerAssumption
     DEF CurrentInv, ThreadInv, QueuedInv, AsleepInv, WaitingInv, WokenInv, StateInv, Begun
<1>9. OneWaker'
  BY <1>1, <1>2, <1>3, NodeFacts DEF OneWaker, ThreadInv, StateInv, WaitingInv
<1>10. Distinct(sleepers)' /\ LongSleeps'
  BY <1>1, <1>2, <1>3, PushSleeper DEF IInv, TypeOK, Asleep, LongSleeps
<1>. QED
  BY <1>6, <1>4, <1>7, <1>8, <1>9, <1>10 DEF IInv

LEMMA WaitIInv ==
  ASSUME IInv, Wait
  PROVE  IInv'
<1>1. /\ isr = "idle" /\ pc[current] = "run" /\ isr' = isr /\ current # Main
      /\ waiters' = waiters \cup {current}
      /\ state' = [state EXCEPT ![current] = "BLOCKED"]
      /\ pc' = [pc EXCEPT ![current] = "gap"]
      /\ UNCHANGED <<current, priority, link, quantum, sleepers, sleepLeft, waking, struck>>
  BY DEF Wait, At
<1>2. /\ TypeOK /\ current \in Thread /\ ThreadInv(current) /\ CurrentInv /\ OneWaker
      /\ state \in [Thread -> ThreadState] /\ pc \in [Thread -> Location]
      /\ waking \in [Thread -> Thread \cup {NULL}] /\ waiters \subseteq Thread
      /\ sleepLeft \in [Thread -> Nat]
  BY DEF IInv, TypeOK
<1>4. Circles(link') /\ \A u \in Thread : Linked(link', u) <=> Linked(link, u)
  BY <1>1 DEF IInv
<1>5. \A u \in Thread : Asleep(u)' <=> Asleep(u)
  BY <1>1 DEF Asleep
<1>6. TypeOK'
  BY <1>1, <1>2, NodeFacts DEF TypeOK, ThreadState, Location
<1>7. ASSUME NEW t \in Thread
      PROVE  ThreadInv(t)'
  <2>. ThreadInv(t)
    BY DEF IInv
  <2> USE <1>1, <1>2, <1>4, <1>5, NodeFacts, SchedulerAssumption
      DEF ThreadInv, QueuedInv, AsleepInv, WaitingInv, WokenInv, PlaceInv, StateInv,
          CurrentInv, OneWaker, Alive, Begun, Location, ThreadState
  <2>1. QueuedInv(t)'
    OBVIOUS
  <2>2. AsleepInv(t)'
    OBVIOUS
  <2>3. WaitingInv(t)'
    OBVIOUS
  <2>4. WokenInv(t)'
    OBVIOUS
  <2>5. PlaceInv(t)'
    OBVIOUS
  <2>6. StateInv(t)'
    OBVIOUS
  <2>. QED
    BY <2>1, <2>2, <2>3, <2>4, <2>5, <2>6 DEF ThreadInv
<1>8. CurrentInv'
  BY <1>1, <1>2, <1>4, <1>5, NodeFacts, SchedulerAssumption
     DEF CurrentInv, ThreadInv, QueuedInv, AsleepInv, WaitingInv, WokenInv, StateInv, Begun
<1>9. OneWaker'
  BY <1>1, <1>2, NodeFacts DEF OneWaker, ThreadInv, StateInv, WaitingInv
<1>10. Distinct(sleepers)' /\ LongSleeps'
  BY <1>1 DEF IInv, Distinct, LongSleeps
<1>. QED
  BY <1>6, <1>4, <1>7, <1>8, <1>9, <1>10 DEF IInv

LEMMA PopWaiterIInv ==
  ASSUME NEW t0 \in Thread, IInv, PopWaiter(t0)
  PROVE  IInv'
<1>1. /\ isr = "idle" /\ pc[current] = "run" /\ isr' = isr /\ t0 \in waiters
      /\ waiters' = waiters \ {t0}
      /\ state' \in {[state EXCEPT ![t0] = "READY"], [state EXCEPT ![t0] = state[t0]]}
      /\ waking' = [waking EXCEPT ![current] = t0]
      /\ pc' = [pc EXCEPT ![current] = "wake"]
      /\ UNCHANGED <<current, priority, link, quantum, sleepers, sleepLeft, struck>>
  BY DEF PopWaiter, At
<1>2. /\ TypeOK /\ current \in Thread /\ ThreadInv(current) /\ CurrentInv /\ OneWaker
      /\ state \in [Thread -> ThreadState] /\ pc \in [Thread -> Location]
      /\ waking \in [Thread -> Thread \cup {NULL}] /\ waiters \subseteq Thread
      /\ sleepLeft \in [Thread -> Nat]
  BY DEF IInv, TypeOK
<1>3. /\ t0 # current /\ t0 # Main /\ state[t0] = "BLOCKED" /\ Begun(t0) /\ ~Linked(link, t0) /\ ~Asleep(t0)
      /\ \A u \in Thread : waking[u] # t0
      /\ waking[current] = NULL /\ state[current] = "RUNNING"
      /\ state'[t0] \in {"READY", "BLOCKED"}
      /\ \A u \in Thread : u # t0 => state'[u] = state[u]
  BY <1>1, <1>2
     DEF IInv, TypeOK, ThreadInv, QueuedInv, AsleepInv, WaitingInv, WokenInv, CurrentInv, StateInv
<1>4. Circles(link') /\ \A u \in Thread : Linked(link', u) <=> Linked(link, u)
  BY <1>1 DEF IInv
<1>5. \A u \in Thread : Asleep(u)' <=> Asleep(u)
  BY <1>1 DEF Asleep
<1>6. TypeOK'
  <2>1. state' \in [Thread -> ThreadState]
    BY <1>1, <1>2, <1>3 DEF ThreadState
  <2>2. /\ pc' \in [Thread -> Location]
        /\ waking' \in [Thread -> Thread \cup {NULL}]
        /\ waiters' \subseteq Thread
    BY <1>1, <1>2 DEF Location
  <2>. QED
    BY <2>1, <2>2, <1>1, <1>2 DEF TypeOK
<1>7. ASSUME NEW t \in Thread
      PROVE  ThreadInv(t)'
  <2>. ThreadInv(t)
    BY DEF IInv
  <2> USE <1>1, <1>2, <1>3, <1>4, <1>5, NodeFacts, SchedulerAssumption
      DEF ThreadInv, QueuedInv, AsleepInv, WaitingInv, WokenInv, PlaceInv, StateInv,
          CurrentInv, OneWaker, Alive, Begun, Location, ThreadState
  <2>1. QueuedInv(t)'
    OBVIOUS
  <2>2. AsleepInv(t)'
    OBVIOUS
  <2>3. WaitingInv(t)'
    OBVIOUS
  <2>4. WokenInv(t)'
    OBVIOUS
  <2>5. PlaceInv(t)'
    OBVIOUS
  <2>6. StateInv(t)'
    OBVIOUS
  <2>. QED
    BY <2>1, <2>2, <2>3, <2>4, <2>5, <2>6 DEF ThreadInv
<1>8. CurrentInv'
  BY <1>1, <1>2, <1>3, <1>4, <1>5, NodeFacts, SchedulerAssumption
     DEF CurrentInv, ThreadInv, QueuedInv, AsleepInv, WaitingInv, WokenInv, StateInv, Begun
<1>9. OneWaker'
  BY <1>1, <1>2, <1>3, NodeFacts DEF OneWaker, ThreadInv, StateInv, WaitingInv
<1>10. Distinct(sleepers)' /\ LongSleeps'
  BY <1>1 DEF IInv, Distinct, LongSleeps
<1>. QED
  BY <1>6, <1>4, <1>7, <1>8, <1>9, <1>10 DEF IInv

LEMMA UnblockThreadIInv ==
  ASSUME IInv, UnblockThread
  PROVE  IInv'
<1>1. /\ isr = "idle" /\ pc[current] = "wake" /\ isr' = isr
      /\ waking' = [waking EXCEPT ![current] = NULL]
      /\ pc' = [pc EXCEPT ![current] = "run"]
      /\ UNCHANGED <<current, priority, quantum, sleepers, sleepLeft, waiters, struck>>
  BY DEF UnblockThread, At
<1>2. /\ TypeOK /\ current \in Thread /\ ThreadInv(current) /\ CurrentInv /\ OneWaker
      /\ state \in [Thread -> ThreadState] /\ pc \in [Thread -> Location]
      /\ waking \in [Thread -> Thread \cup {NULL}] /\ waiters \subseteq Thread
      /\ sleepLeft \in [Thread -> Nat]
  BY DEF IInv, TypeOK
<1>3. /\ waking[current] \in Thread /\ waking[current] # current /\ waking[current] # Main
      /\ ~Linked(link, waking[current]) /\ ~Asleep(waking[current])
      /\ waking[current] \notin waiters /\ Begun(waking[current])
      /\ \A u \in Thread : waking[u] = waking[current] => u = current
      /\ state' = [state EXCEPT ![waking[current]] = "READY"]
      /\ link' = QueuePushBack(link, waking[current], priority[waking[current]])
      /\ pc[waking[current]] # "wake" \/ waking[waking[current]] # NULL
  <2>1. waking[current] \in Thread
    BY <1>1, <1>2 DEF ThreadInv, StateInv
  <2>2. WokenInv(waking[current]) /\ StateInv(waking[current])
    BY <2>1 DEF IInv, ThreadInv
  <2>3. state[waking[current]] # "TERMINATED"
    BY <1>2, <2>1, <2>2 DEF WokenInv
  <2>. QED
    BY <1>2, <2>1, <2>2, <2>3, NodeFacts DEF WokenInv, StateInv, OneWaker, UnblockThread
<1>4. /\ Circles(link')
      /\ \A u \in Thread : Linked(link', u) <=> u = waking[current] \/ Linked(link, u)
  BY <1>1, <1>2, <1>3, PushBackCircles DEF IInv, TypeOK
<1>5. \A u \in Thread : Asleep(u)' <=> Asleep(u)
  BY <1>1 DEF Asleep
<1>6. TypeOK'
  BY <1>1, <1>2, <1>4, <1>3, NodeFacts DEF TypeOK, ThreadState, Location, Circles, Links
<1>7. ASSUME NEW t \in Thread
      PROVE  ThreadInv(t)'
  <2>. ThreadInv(t)
    BY DEF IInv
  <2> USE <1>1, <1>2, <1>3, <1>4, <1>5, NodeFacts, SchedulerAssumption
      DEF ThreadInv, QueuedInv, AsleepInv, WaitingInv, WokenInv, PlaceInv, StateInv,
          CurrentInv, OneWaker, Alive, Begun, Location, ThreadState
  <2>1. QueuedInv(t)'
    OBVIOUS
  <2>2. AsleepInv(t)'
    OBVIOUS
  <2>3. WaitingInv(t)'
    OBVIOUS
  <2>4. WokenInv(t)'
    OBVIOUS
  <2>5. PlaceInv(t)'
    OBVIOUS
  <2>6. StateInv(t)'
    OBVIOUS
  <2>. QED
    BY <2>1, <2>2, <2>3, <2>4, <2>5, <2>6 DEF ThreadInv
<1>8. CurrentInv'
  BY <1>1, <1>2, <1>3, <1>4, <1>5, NodeFacts, SchedulerAssumption
     DEF CurrentInv, ThreadInv, QueuedInv, AsleepInv, WaitingInv, WokenInv, StateInv, Begun
<1>9. OneWaker'
  BY <1>1, <1>2, <1>3, NodeFacts DEF OneWaker, ThreadInv, StateInv, WaitingInv
<1>10. Distinct(sleepers)' /\ LongSleeps'
  BY <1>1 DEF IInv, Distinct, LongSleeps
<1>. QED
  BY <1>6, <1>4, <1>7, <1>8, <1>9, <1>10 DEF IInv

LEMMA SetPriorityIInv ==
  ASSUME NEW p \in PriorityChoices, IInv, SetPriority(p)
  PROVE  IInv'
<1>1. /\ isr = "idle" /\ pc[current] = "run" /\ isr' = isr
      /\ priority' = [priority EXCEPT ![current] = p]
      /\ UNCHANGED <<current, state, link, quantum, sleepers, sleepLeft, waiters, pc, waking, struck>>
  BY DEF SetPriority, At
<1>2. /\ TypeOK /\ current \in Thread /\ ThreadInv(current) /\ CurrentInv /\ OneWaker
      /\ state \in [Thread -> ThreadState] /\ pc \in [Thread -> Location]
      /\ waking \in [Thread -> Thread \cup {NULL}] /\ waiters \subseteq Thread
      /\ sleepLeft \in [Thread -> Nat]
  BY DEF IInv, TypeOK
<1>4. Circles(link') /\ \A u \in Thread : Linked(link', u) <=> Linked(link, u)
  BY <1>1 DEF IInv
<1>5. \A u \in Thread : Asleep(u)' <=> Asleep(u)
  BY <1>1 DEF Asleep
<1>6. TypeOK'
  BY <1>1, <1>2, SchedulerAssumption DEF TypeOK
<1>7. ASSUME NEW t \in Thread
      PROVE  ThreadInv(t)'
  <2>. ThreadInv(t)
    BY DEF IInv
  <2> USE <1>1, <1>2, <1>4, <1>5, NodeFacts, SchedulerAssumption
      DEF ThreadInv, QueuedInv, AsleepInv, WaitingInv, WokenInv, PlaceInv, StateInv,
          CurrentInv, OneWaker, Alive, Begun, Location, ThreadState
  <2>1. QueuedInv(t)'
    OBVIOUS
  <2>2. AsleepInv(t)'
    OBVIOUS
  <2>3. WaitingInv(t)'
    OBVIOUS
  <2>4. WokenInv(t)'
    OBVIOUS
  <2>5. PlaceInv(t)'
    OBVIOUS
  <2>6. StateInv(t)'
    OBVIOUS
  <2>. QED
    BY <2>1, <2>2, <2>3, <2>4, <2>5, <2>6 DEF ThreadInv
<1>8. CurrentInv'
  BY <1>1, <1>2, <1>4, <1>5, NodeFacts, SchedulerAssumption
     DEF CurrentInv, ThreadInv, QueuedInv, AsleepInv, WaitingInv, WokenInv, StateInv, Begun
<1>9. OneWaker'
  BY <1>1, <1>2, NodeFacts DEF OneWaker, ThreadInv, StateInv, WaitingInv
<1>10. Distinct(sleepers)' /\ LongSleeps'
  BY <1>1 DEF IInv, Distinct, LongSleeps
<1>. QED
  BY <1>6, <1>4, <1>7, <1>8, <1>9, <1>10 DEF IInv

LEMMA TerminateIInv ==
  ASSUME IInv, TerminateCurrentThread
  PROVE  IInv'
<1>1. /\ isr = "idle" /\ pc[current] = "run" /\ isr' = isr /\ current # Main
      /\ state' = [state EXCEPT ![current] = "TERMINATED"]
      /\ pc' = [pc EXCEPT ![current] = "gap"]
      /\ UNCHANGED <<current, priority, link, quantum, sleepers, sleepLeft, waiters, waking, struck>>
  BY DEF TerminateCurrentThread, At
<1>2. /\ TypeOK /\ current \in Thread /\ ThreadInv(current) /\ CurrentInv /\ OneWaker
      /\ state \in [Thread -> ThreadState] /\ pc \in [Thread -> Location]
      /\ waking \in [Thread -> Thread \cup {NULL}] /\ waiters \subseteq Thread
      /\ sleepLeft \in [Thread -> Nat]
  BY DEF IInv, TypeOK
<1>4. Circles(link') /\ \A u \in Thread : Linked(link', u) <=> Linked(link, u)
  BY <1>1 DEF IInv
<1>5. \A u \in Thread : Asleep(u)' <=> Asleep(u)
  BY <1>1 DEF Asleep
<1>6. TypeOK'
  BY <1>1, <1>2, NodeFacts DEF TypeOK, ThreadState, Location
<1>7. ASSUME NEW t \in Thread
      PROVE  ThreadInv(t)'
  <2>. ThreadInv(t)
    BY DEF IInv
  <2> USE <1>1, <1>2, <1>4, <1>5, NodeFacts, SchedulerAssumption
      DEF ThreadInv, QueuedInv, AsleepInv, WaitingInv, WokenInv, PlaceInv, StateInv,
          CurrentInv, OneWaker, Alive, Begun, Location, ThreadState
  <2>1. QueuedInv(t)'
    OBVIOUS
  <2>2. AsleepInv(t)'
    OBVIOUS
  <2>3. WaitingInv(t)'
    OBVIOUS
  <2>4. WokenInv(t)'
    OBVIOUS
  <2>5. PlaceInv(t)'
    OBVIOUS
  <2>6. StateInv(t)'
    OBVIOUS
  <2>. QED
    BY <2>1, <2>2, <2>3, <2>4, <2>5, <2>6 DEF ThreadInv
<1>8. CurrentInv'
  BY <1>1, <1>2, <1>4, <1>5, NodeFacts, SchedulerAssumption
     DEF CurrentInv, ThreadInv, QueuedInv, AsleepInv, WaitingInv, WokenInv, StateInv, Begun
<1>9. OneWaker'
  BY <1>1, <1>2, NodeFacts DEF OneWaker, ThreadInv, StateInv, WaitingInv
<1>10. Distinct(sleepers)' /\ LongSleeps'
  BY <1>1 DEF IInv, Distinct, LongSleeps
<1>. QED
  BY <1>6, <1>4, <1>7, <1>8, <1>9, <1>10 DEF IInv

LEMMA TimerHandlerIInv ==
  ASSUME IInv, TimerHandler
  PROVE  IInv'
<1>1. /\ isr = "idle" /\ ~struck /\ isr' = "wake"
      /\ sleepLeft' = [t \in Thread |-> IF sleepLeft[t] = 0 THEN 0 ELSE sleepLeft[t] - 1]
      /\ struck' = (pc[current] = "gap")
      /\ UNCHANGED <<current, state, priority, link, quantum, sleepers, waiters, pc, waking>>
  BY DEF TimerHandler
<1>2. /\ TypeOK /\ current \in Thread /\ ThreadInv(current) /\ CurrentInv /\ OneWaker
      /\ state \in [Thread -> ThreadState] /\ pc \in [Thread -> Location]
      /\ waking \in [Thread -> Thread \cup {NULL}] /\ waiters \subseteq Thread
      /\ sleepLeft \in [Thread -> Nat]
  BY DEF IInv, TypeOK
<1>4. Circles(link') /\ \A u \in Thread : Linked(link', u) <=> Linked(link, u)
  BY <1>1 DEF IInv
<1>5. \A u \in Thread : Asleep(u)' <=> Asleep(u)
  BY <1>1 DEF Asleep
<1>6. TypeOK'
  BY <1>1, <1>2 DEF TypeOK
<1>7. ASSUME NEW t \in Thread
      PROVE  ThreadInv(t)'
  <2>. ThreadInv(t)
    BY DEF IInv
  <2> USE <1>1, <1>2, <1>4, <1>5, NodeFacts, SchedulerAssumption
      DEF ThreadInv, QueuedInv, AsleepInv, WaitingInv, WokenInv, PlaceInv, StateInv,
          CurrentInv, OneWaker, Alive, Begun, Location, ThreadState
  <2>1. QueuedInv(t)'
    OBVIOUS
  <2>2. AsleepInv(t)'
    <3>1. ASSUME Asleep(t), t = current
          PROVE  pc[t] = "gap" /\ struck' = TRUE /\ sleepLeft[t] >= 2
      BY <3>1, <1>1 DEF ThreadInv, AsleepInv
    <3>2. ASSUME Asleep(t), t = current
          PROVE  sleepLeft'[t] >= 1
      BY <3>1, <3>2, <1>1, <1>2
    <3>. QED
      BY <3>1, <3>2, <1>1, <1>5 DEF ThreadInv, AsleepInv, Begun
  <2>3. WaitingInv(t)'
    OBVIOUS
  <2>4. WokenInv(t)'
    OBVIOUS
  <2>5. PlaceInv(t)'
    OBVIOUS
  <2>6. StateInv(t)'
    OBVIOUS
  <2>. QED
    BY <2>1, <2>2, <2>3, <2>4, <2>5, <2>6 DEF ThreadInv
<1>8. CurrentInv'
  BY <1>1, <1>2, <1>4, <1>5, NodeFacts, SchedulerAssumption
     DEF CurrentInv, ThreadInv, QueuedInv, AsleepInv, WaitingInv, WokenInv, StateInv, Begun
<1>9. OneWaker'
  BY <1>1, <1>2, NodeFacts DEF OneWaker, ThreadInv, StateInv, WaitingInv
<1>10. Distinct(sleepers)' /\ LongSleeps'
  BY <1>1 DEF IInv, Distinct, LongSleeps
<1>. QED
  BY <1>6, <1>4, <1>7, <1>8, <1>9, <1>10 DEF IInv

LEMMA WakeSleeperIInv ==
  ASSUME NEW i \in 1 .. Len(sleepers), IInv, WakeSleeper(i)
  PROVE  IInv'
<1>1. /\ isr = "wake" /\ isr' = isr /\ Due(i)
      /\ sleepers' = Without(sleepers, i)
      /\ state' = [state EXCEPT ![sleepers[i]] = "READY"]
      /\ link' = QueuePushBack(link, sleepers[i], priority[sleepers[i]])
      /\ UNCHANGED <<current, priority, quantum, sleepLeft, waiters, pc, waking, struck>>
  BY DEF WakeSleeper
<1>2. /\ TypeOK /\ current \in Thread /\ ThreadInv(current) /\ CurrentInv /\ OneWaker
      /\ state \in [Thread -> ThreadState] /\ pc \in [Thread -> Location]
      /\ waking \in [Thread -> Thread \cup {NULL}] /\ waiters \subseteq Thread
      /\ sleepLeft \in [Thread -> Nat]
  BY DEF IInv, TypeOK
<1>3. /\ sleepers[i] \in Thread /\ Asleep(sleepers[i]) /\ sleepLeft[sleepers[i]] = 0
      /\ ~Linked(link, sleepers[i]) /\ sleepers[i] # current /\ sleepers[i] # Main
      /\ sleepers[i] \notin waiters /\ Begun(sleepers[i])
      /\ \A u \in Thread : waking[u] # sleepers[i]
      /\ sleepers' \in Seq(Thread)
  <2>1. sleepers[i] \in Thread
    <3>1. sleepers \in Seq(Thread)
      BY <1>2 DEF TypeOK
    <3>. QED
      BY <3>1
  <2>4. Asleep(sleepers[i])
    BY DEF Asleep, OnList
  <2>5. sleepLeft[sleepers[i]] = 0
    BY <1>1 DEF Due
  <2>2. ThreadInv(sleepers[i])
    BY <2>1 DEF IInv
  <2>3. sleepers' \in Seq(Thread)
    BY <1>1, DropSleeper DEF IInv, TypeOK
  <2>. QED
    BY <2>1, <2>2, <2>3, <2>4, <2>5, <1>1 DEF ThreadInv, QueuedInv, AsleepInv, WokenInv
<1>4. /\ Circles(link')
      /\ \A u \in Thread : Linked(link', u) <=> u = sleepers[i] \/ Linked(link, u)
  BY <1>1, <1>2, <1>3, PushBackCircles DEF IInv, TypeOK
<1>5. \A u \in Thread : Asleep(u)' <=> u # sleepers[i] /\ Asleep(u)
  BY <1>1, <1>2, DropSleeper DEF Asleep, IInv, TypeOK
<1>6. TypeOK'
  BY <1>1, <1>2, <1>4, <1>3 DEF TypeOK, ThreadState, Circles, Links
<1>7. ASSUME NEW t \in Thread
      PROVE  ThreadInv(t)'
  <2>. ThreadInv(t)
    BY DEF IInv
  <2> USE <1>1, <1>2, <1>3, <1>4, <1>5, NodeFacts, SchedulerAssumption
      DEF ThreadInv, QueuedInv, AsleepInv, WaitingInv, WokenInv, PlaceInv, StateInv,
          CurrentInv, OneWaker, Alive, Begun, Location, ThreadState
  <2>1. QueuedInv(t)'
    OBVIOUS
  <2>2. AsleepInv(t)'
    OBVIOUS
  <2>3. WaitingInv(t)'
    OBVIOUS
  <2>4. WokenInv(t)'
    OBVIOUS
  <2>5. PlaceInv(t)'
    OBVIOUS
  <2>6. StateInv(t)'
    OBVIOUS
  <2>. QED
    BY <2>1, <2>2, <2>3, <2>4, <2>5, <2>6 DEF ThreadInv
<1>8. CurrentInv'
  BY <1>1, <1>2, <1>3, <1>4, <1>5, NodeFacts, SchedulerAssumption
     DEF CurrentInv, ThreadInv, QueuedInv, AsleepInv, WaitingInv, WokenInv, StateInv, Begun
<1>9. OneWaker'
  BY <1>1, <1>2, <1>3, NodeFacts DEF OneWaker, ThreadInv, StateInv, WaitingInv
<1>10. Distinct(sleepers)' /\ LongSleeps'
  BY <1>1, <1>2, DropSleeper DEF IInv, TypeOK, LongSleeps
<1>. QED
  BY <1>6, <1>4, <1>7, <1>8, <1>9, <1>10 DEF IInv

LEMMA TickIInv ==
  ASSUME IInv, Tick
  PROVE  IInv'
<1>1. /\ isr = "wake" /\ isr' = "idle"
      /\ UNCHANGED <<priority, sleepers, sleepLeft, waiters, pc, waking>>
      /\ struck' = (struck /\ current' = current)
  BY DEF Tick
<1>2. /\ TypeOK /\ current \in Thread /\ CurrentInv /\ quantum \in 0 .. Quantum
      /\ sleepLeft \in [Thread -> Nat] /\ struck \in BOOLEAN
  BY DEF IInv, TypeOK
<1>3. \A u \in Thread : Asleep(u) => sleepLeft[u] > 0
  <2>1. \A i \in 1 .. Len(sleepers) : sleepLeft[sleepers[i]] # 0
    BY DEF Tick, Due
  <2>. QED
    BY <2>1, <1>2 DEF Asleep, OnList
<1>4. CASE quantum = 1 /\ NonEmpty(link) # {}
  <2>1. ScheduleInternal
    BY <1>4 DEF Tick, UseQuantum
  <2>2. current' # current
    BY <2>1, <1>4, SwitchFacts
  <2>. QED
    BY <2>1, <2>2, <1>1, <1>3, <1>4, SwitchKeepsIInv
<1>5. CASE ~(quantum = 1 /\ NonEmpty(link) # {})
  <2>1. /\ UNCHANGED <<current, state, link>>
        /\ quantum' \in 0 .. Quantum
        /\ quantum' = 0 => current = Main
    <3>1. CASE quantum = 0
      BY <3>1, <1>2 DEF Tick, UseQuantum, CurrentInv
    <3>2. CASE quantum = 1
      BY <3>2, <1>5, EmptyOnlyForMain, SchedulerAssumption DEF Tick, UseQuantum
    <3>3. CASE quantum \notin {0, 1}
      BY <3>3, <1>2, SchedulerAssumption DEF Tick, UseQuantum
    <3>. QED
      BY <3>1, <3>2, <3>3
  <2>2. struck' = struck
    BY <2>1, <1>1, <1>2
  <2>3. \A u \in Thread : /\ Asleep(u)' <=> Asleep(u)
                          /\ Alive(u)' <=> Alive(u)
                          /\ Begun(u)' <=> Begun(u)
    BY <2>1, <1>1 DEF Asleep, Alive, Begun
  <2>4. ASSUME NEW t \in Thread
        PROVE  ThreadInv(t)'
    <3>1. ThreadInv(t)
      BY DEF IInv
    <3>2. QueuedInv(t)' /\ WaitingInv(t)' /\ WokenInv(t)'
      BY <3>1, <2>1, <2>3, <1>1 DEF ThreadInv, QueuedInv, WaitingInv, WokenInv
    <3>3. AsleepInv(t)'
      BY <3>1, <2>1, <2>2, <2>3, <1>1, <1>3 DEF ThreadInv, AsleepInv
    <3>4. PlaceInv(t)' /\ StateInv(t)'
      BY <3>1, <2>1, <2>3, <1>1 DEF ThreadInv, PlaceInv, StateInv
    <3>. QED
      BY <3>2, <3>3, <3>4 DEF ThreadInv
  <2>5. CurrentInv'
    BY <2>1, <2>2, <1>1, <1>2 DEF CurrentInv, Begun
  <2>6. TypeOK' /\ OneWaker' /\ Circles(link)' /\ Distinct(sleepers)' /\ LongSleeps'
    BY <2>1, <2>2, <1>1 DEF IInv, TypeOK, OneWaker, LongSleeps
  <2>. QED
    BY <2>4, <2>5, <2>6 DEF IInv
<1>. QED
  BY <1>4, <1>5

LEMMA NextIInv == IInv /\ [Next]_vars => IInv'
<1> SUFFICES ASSUME IInv, [Next]_vars PROVE IInv'
  OBVIOUS
<1>1. CASE \E t \in Thread : AddThread(t)
  BY <1>1, AddThreadIInv
<1>2. CASE \E t \in Thread : PopWaiter(t)
  BY <1>2, PopWaiterIInv
<1>3. CASE Yield
  BY <1>3, YieldIInv
<1>4. CASE SwitchAway
  BY <1>4, SwitchAwayIInv
<1>5. CASE \E d \in SleepTicks : Sleep(d)
  BY <1>5, SleepIInv
<1>6. CASE Wait
  BY <1>6, WaitIInv
<1>7. CASE UnblockThread
  BY <1>7, UnblockThreadIInv
<1>8. CASE \E p \in PriorityChoices : SetPriority(p)
  BY <1>8, SetPriorityIInv
<1>9. CASE TerminateCurrentThread
  BY <1>9, TerminateIInv
<1>10. CASE TimerHandler
  BY <1>10, TimerHandlerIInv
<1>11. CASE \E i \in 1 .. Len(sleepers) : WakeSleeper(i)
  BY <1>11, WakeSleeperIInv
<1>12. CASE Tick
  BY <1>12, TickIInv
<1>13. CASE UNCHANGED vars
  BY <1>13, UnchangedIInv
<1>. QED
  BY <1>1, <1>2, <1>3, <1>4, <1>5, <1>6, <1>7, <1>8, <1>9, <1>10, <1>11, <1>12, <1>13
     DEF Next

-----------------------------------------------------------------------------
(* The theorems.  They assume what the callers of Sleep owe it.            *)

\* The inductive invariant holds in every state the scheduler reaches.
THEOREM Invariance == ASSUME LongSleeps PROVE Spec => []IInv
<1>1. Init => IInv
  BY InitIInv
<1>. QED
  BY <1>1, NextIInv, PTL DEF Spec

\* Every variable keeps to its kind, whatever the threads do.
THEOREM TypeCorrect == ASSUME LongSleeps PROVE Spec => []TypeOK
<1>1. IInv => TypeOK
  BY DEF IInv
<1>. QED
  BY <1>1, Invariance, PTL

\* No push, pop or unlink ever breaks the links of a ready queue.
THEOREM QueuesStayLinked == ASSUME LongSleeps PROVE Spec => []LinksMatch
<1>1. IInv => LinksMatch
  BY DEF IInv, Circles, LinksMatch
<1>. QED
  BY <1>1, Invariance, PTL

LEMMA PlacesExclude ==
  ASSUME IInv, NEW t \in Thread, NEW here \in PlaceKinds, NEW there \in PlaceKinds,
         Holds(t, here), Holds(t, there)
  PROVE  Alive(t) /\ here = there
<1>1. ThreadInv(t) /\ CurrentInv /\ OneWaker /\ t # NULL
  BY NodeFacts DEF IInv
<1>2. /\ here[1] \in {"cpu", "ready", "asleep", "waiting", "waking"}
      /\ there[1] \in {"cpu", "ready", "asleep", "waiting", "waking"}
      /\ here[1] # "waking" => here = <<here[1], NULL>>
      /\ there[1] # "waking" => there = <<there[1], NULL>>
      /\ here[1] = "waking" => here = <<"waking", here[2]>> /\ here[2] \in Thread
      /\ there[1] = "waking" => there = <<"waking", there[2]>> /\ there[2] \in Thread
  BY DEF PlaceKinds
<1>3. /\ here[1] = "cpu" => t = current /\ state[t] = "RUNNING"
      /\ here[1] = "ready" => Linked(link, t)
      /\ here[1] = "asleep" => Asleep(t)
      /\ here[1] = "waiting" => t \in waiters
      /\ here[1] = "waking" => waking[here[2]] = t
  BY DEF Holds
<1>4. /\ there[1] = "cpu" => t = current /\ state[t] = "RUNNING"
      /\ there[1] = "ready" => Linked(link, t)
      /\ there[1] = "asleep" => Asleep(t)
      /\ there[1] = "waiting" => t \in waiters
      /\ there[1] = "waking" => waking[there[2]] = t
  BY DEF Holds
<1>5. Alive(t)
  BY <1>1, <1>2, <1>3 DEF ThreadInv, QueuedInv, AsleepInv, WaitingInv, WokenInv,
                          CurrentInv, Begun, Alive
<1>6. here[1] = there[1]
  BY <1>1, <1>2, <1>3, <1>4 DEF ThreadInv, QueuedInv, AsleepInv, WaitingInv, WokenInv
<1>7. here[1] = "waking" => here[2] = there[2]
  BY <1>1, <1>2, <1>3, <1>4, <1>6 DEF OneWaker
<1>. QED
  BY <1>2, <1>5, <1>6, <1>7

\* A thread that has begun and not ended is in exactly one place, so it is
\* neither lost by the scheduler nor run twice.
THEOREM EveryThreadKept == ASSUME LongSleeps PROVE Spec => []NoThreadLost
<1>1. IInv => NoThreadLost
  <2> SUFFICES ASSUME IInv, NEW t \in Thread, Alive(t)
               PROVE  \E place \in PlaceKinds : Holds(t, place)
    BY PlacesExclude DEF NoThreadLost
  <2>1. PlaceInv(t)
    BY DEF IInv, ThreadInv
  <2>2. \/ Holds(t, <<"cpu", NULL>>) \/ Holds(t, <<"ready", NULL>>)
        \/ Holds(t, <<"asleep", NULL>>) \/ Holds(t, <<"waiting", NULL>>)
        \/ \E u \in Thread : Holds(t, <<"waking", u>>)
    BY <2>1 DEF PlaceInv, Holds
  <2>. QED
    BY <2>2 DEF PlaceKinds
<1>. QED
  BY <1>1, Invariance, PTL

\* The thread that runs is in no ready queue, as long as no one sleeps for a
\* single tick: what ScheduleInternal, UnblockThread and Sleep take for granted.
THEOREM RunningIsNotQueued == ASSUME LongSleeps PROVE Spec => []CurrentNotQueued
<1>1. IInv => CurrentNotQueued
  BY DEF IInv, TypeOK, ThreadInv, QueuedInv, CurrentNotQueued
<1>. QED
  BY <1>1, Invariance, PTL

\* The sleep list holds no thread twice and no thread whose time is over.
THEOREM SleepersWait == ASSUME LongSleeps PROVE Spec => []SleepListSound
<1>1. IInv => SleepListSound
  BY DEF IInv, ThreadInv, AsleepInv, SleepListSound
<1>. QED
  BY <1>1, Invariance, PTL

\* The quantum is only ever stuck at 0, and the ready queues are only ever
\* empty, while the idle loop runs.
THEOREM OthersArePreempted == ASSUME LongSleeps PROVE Spec => []OnlyIdleUnpreemptible
<1>1. IInv => OnlyIdleUnpreemptible
  BY EmptyOnlyForMain DEF IInv, CurrentInv, OnlyIdleUnpreemptible
<1>. QED
  BY <1>1, Invariance, PTL

\* No step makes a terminated thread ready, running or blocked again.
THEOREM TerminatedForGood == ASSUME LongSleeps PROVE Spec => DeadStaysDead
<1> DEFINE Stay == \A t \in Thread : state[t] = "TERMINATED" => state'[t] = "TERMINATED"
<1>1. IInv /\ [Next]_vars => Stay
  <2> SUFFICES ASSUME IInv, [Next]_vars, NEW t \in Thread, state[t] = "TERMINATED"
               PROVE  state'[t] = "TERMINATED"
    OBVIOUS
  <2>1. /\ ThreadInv(t) /\ CurrentInv /\ state \in [Thread -> ThreadState]
        /\ current \in Thread /\ pc[t] # "unborn" /\ t \notin waiters /\ ~Asleep(t)
        /\ ~Linked(link, t) /\ \A u \in Thread : waking[u] # t
    BY DEF IInv, TypeOK, ThreadInv, QueuedInv, AsleepInv, WaitingInv, WokenInv, StateInv
  <2>2. ASSUME ScheduleInternal
        PROVE  state'[t] = "TERMINATED"
    <3>1. CASE NonEmpty(link) = {}
      BY <3>1, <2>2 DEF ScheduleInternal
    <3>2. CASE NonEmpty(link) # {}
      BY <3>2, <2>1, <2>2, SwitchFacts
    <3>. QED
      BY <3>1, <3>2
  <2>3. CASE Yield \/ SwitchAway
    BY <2>2, <2>3 DEF Yield, SwitchAway
  <2>4. CASE Tick
    BY <2>2, <2>4 DEF Tick, UseQuantum
  <2>5. CASE UnblockThread
    <3>1. waking[current] # t
      BY <2>1
    <3>. QED
      BY <2>1, <2>5, <3>1 DEF UnblockThread
  <2>6. CASE \E i \in 1 .. Len(sleepers) : WakeSleeper(i)
    <3>1. PICK i \in 1 .. Len(sleepers) : WakeSleeper(i)
      BY <2>6
    <3>2. sleepers[i] # t
      BY <2>1 DEF Asleep, OnList
    <3>. QED
      BY <3>1, <3>2, <2>1 DEF WakeSleeper
  <2>7. CASE \E u \in Thread : AddThread(u) \/ PopWaiter(u)
    BY <2>1, <2>7 DEF AddThread, PopWaiter
  <2>8. CASE \/ \E d \in SleepTicks : Sleep(d)
             \/ Wait \/ TerminateCurrentThread
             \/ \E p \in PriorityChoices : SetPriority(p)
    <3>1. pc[current] = "run"
      BY <2>8 DEF Sleep, Wait, TerminateCurrentThread, SetPriority, At
    <3>2. t # current
      BY <3>1, <2>1 DEF CurrentInv
    <3>. QED
      BY <2>1, <2>8, <3>2 DEF Sleep, Wait, TerminateCurrentThread, SetPriority
  <2>9. CASE TimerHandler \/ UNCHANGED vars
    BY <2>9 DEF TimerHandler, vars
  <2>. QED
    BY <2>3, <2>4, <2>5, <2>6, <2>7, <2>8, <2>9 DEF Next
<1>. QED
  BY <1>1, Invariance, PTL DEF Spec, DeadStaysDead
-----------------------------------------------------------------------------
(***************************************************************************)
(* The lists are queues: the scheduler implements the Dispatcher.  Shows   *)
(* says that s is what can be read off the links q, for each priority the  *)
(* threads from its sentinel to its sentinel; a thread that is linked is   *)
(* in one place of one of them.                                            *)
(***************************************************************************)
Lined(q, p, u) ==
  /\ Len(u) = 0 => q[p].nxt = p
  /\ Len(u) > 0 => q[p].nxt = u[1]
  /\ \A i \in 1 .. Len(u) : q[u[i]].nxt = IF i = Len(u) THEN p ELSE u[i + 1]

Apart(s) ==
  \A p, r \in Priority : \A i \in 1 .. Len(s[p]), j \in 1 .. Len(s[r]) :
    s[p][i] = s[r][j] => p = r /\ i = j

Found(s, t) == \E p \in Priority : \E i \in 1 .. Len(s[p]) : s[p][i] = t

Shows(q, s) ==
  /\ s \in [Priority -> Seq(Thread)]
  /\ \A p \in Priority : Lined(q, p, s[p])
  /\ Apart(s)
  /\ \A t \in Thread : Linked(q, t) <=> Found(s, t)

(***************************************************************************)
(* Following the links for as many steps as there are threads finds each   *)
(* thread of the queue, and nothing after it.                              *)
(***************************************************************************)
N == Cardinality(Thread)

Start(f, p, i) == IF i = 1 THEN p ELSE f[i - 1]

Walked(q, p, f) ==
  f = [i \in 1 .. N |-> IF Start(f, p, i) \in Thread \/ i = 1
                        THEN q[Start(f, p, i)].nxt ELSE Start(f, p, i)]

\* No queue is longer than there are threads.
LEMMA QueueLength ==
  ASSUME IsFiniteSet(Thread), NEW s \in [Priority -> Seq(Thread)], Apart(s),
         NEW p \in Priority
  PROVE  Len(s[p]) \in 0 .. N
<1> DEFINE u == s[p]
<1>1. u \in Seq(Thread) /\ Len(u) \in Nat /\ u \in [1 .. Len(u) -> Thread]
  OBVIOUS
<1>2. \A i, j \in 1 .. Len(u) : u[i] = u[j] => i = j
  BY DEF Apart
<1> HIDE DEF u
<1>3. u \in Injection(1 .. Len(u), Thread)
  BY <1>1, <1>2 DEF Injection, IsInjective
<1>4. Cardinality(1 .. Len(u)) <= N
  BY <1>3, FS_Injection DEF N
<1>5. Cardinality(1 .. Len(u)) = Len(u)
  <2>1. Len(u) \in Int /\ 1 \in Int /\ Len(u) >= 0
    BY <1>1
  <2>2. Cardinality(1 .. Len(u)) = IF 1 > Len(u) THEN 0 ELSE Len(u) - 1 + 1
    BY <2>1, FS_Interval, Zenon
  <2>. QED
    BY <2>1, <2>2
<1>6. N \in Nat
  BY FS_CardinalityType DEF N
<1>. QED
  BY <1>1, <1>4, <1>5, <1>6 DEF u

\* Two walks that begin alike are the same.
LEMMA WalksAgree ==
  ASSUME N \in Nat, NEW q, NEW p, NEW f, Walked(q, p, f), NEW g, Walked(q, p, g)
  PROVE  \A i \in 1 .. N : f[i] = g[i]
<1> DEFINE Differ == {i \in 1 .. N : f[i] # g[i]}
<1>1. SUFFICES ASSUME NEW k \in Differ
               PROVE  FALSE
  OBVIOUS
<1>2. Differ \subseteq Nat
  OBVIOUS
<1>3. PICK least \in Differ : \A i \in Differ : <<i, least>> \notin OpToRel(<, Nat)
  BY <1>1, <1>2, NatLessThanWellFounded, WFMin, Zenon
<1>4. least \in 1 .. N /\ f[least] # g[least]
  BY <1>3
<1>5. least > 1 => f[least - 1] = g[least - 1]
  <2>1. \A i \in Differ : ~(i < least)
    BY <1>2, <1>3 DEF OpToRel
  <2>. QED
    BY <2>1, <1>4
<1>6. Start(f, p, least) = Start(g, p, least)
  BY <1>4, <1>5 DEF Start
<1>7. /\ f[least] = IF Start(f, p, least) \in Thread \/ least = 1
                    THEN q[Start(f, p, least)].nxt ELSE Start(f, p, least)
      /\ g[least] = IF Start(g, p, least) \in Thread \/ least = 1
                    THEN q[Start(g, p, least)].nxt ELSE Start(g, p, least)
  BY <1>4 DEF Walked
<1>. QED
  BY <1>4, <1>6, <1>7

LEMMA QueueRead ==
  ASSUME IsFiniteSet(Thread), NEW q, NEW s, Shows(q, s), NEW p \in Priority
  PROVE  QueueOf(q, p) = s[p]
<1> DEFINE u == s[p]
           f == [i \in 1 .. N |-> IF i <= Len(u) THEN u[i] ELSE p]
<1>1. /\ u \in Seq(Thread) /\ Len(u) \in 0 .. N /\ N \in Nat
      /\ \A i \in 1 .. Len(u) : u[i] \in Thread
      /\ p \notin Thread
  BY QueueLength, FS_CardinalityType, NodeFacts DEF Shows, N
<1>2. Lined(q, p, u)
  BY DEF Shows
<1> HIDE DEF u
<1>3. Walked(q, p, f)
  <2> SUFFICES ASSUME NEW i \in 1 .. N
               PROVE  f[i] = IF Start(f, p, i) \in Thread \/ i = 1
                             THEN q[Start(f, p, i)].nxt ELSE Start(f, p, i)
    BY DEF Walked
  <2>1. \A j \in 1 .. N : f[j] = IF j <= Len(u) THEN u[j] ELSE p
    OBVIOUS
  <2> HIDE DEF f
  <2>2. CASE i = 1
    BY <2>1, <2>2, <1>1, <1>2 DEF Lined, Start
  <2>3. CASE i # 1 /\ i - 1 <= Len(u)
    <3>1. i - 1 \in 1 .. Len(u) /\ Start(f, p, i) = u[i - 1]
      BY <2>1, <2>3, <1>1 DEF Start
    <3>2. q[u[i - 1]].nxt = IF i - 1 = Len(u) THEN p ELSE u[i]
      BY <3>1, <1>1, <1>2 DEF Lined
    <3>. QED
      BY <2>1, <2>3, <3>1, <3>2, <1>1
  <2>4. CASE i # 1 /\ ~(i - 1 <= Len(u))
    <3>1. Start(f, p, i) = p /\ f[i] = p
      BY <2>1, <2>4, <1>1 DEF Start
    <3>. QED
      BY <2>4, <3>1, <1>1
  <2>. QED
    BY <2>2, <2>3, <2>4
<1> DEFINE at == CHOOSE g : Walked(q, p, g)
<1>4. Walked(q, p, at)
  BY <1>3
<1>5. \A i \in 1 .. N : at[i] = f[i]
  BY <1>1, <1>3, <1>4, WalksAgree
<1>6. QueueOf(q, p) = [i \in {j \in 1 .. N : at[j] \in Thread} |-> at[i]]
  BY DEF QueueOf, Walked, Start, N
<1> HIDE DEF at
<1>7. \A i \in 1 .. N : f[i] = IF i <= Len(u) THEN u[i] ELSE p
  OBVIOUS
<1> HIDE DEF f
<1>8. {j \in 1 .. N : at[j] \in Thread} = 1 .. Len(u)
  BY <1>1, <1>5, <1>7
<1>9. QueueOf(q, p) = [i \in 1 .. Len(u) |-> at[i]]
  BY <1>6, <1>8
<1>10. \A i \in 1 .. Len(u) : at[i] = u[i]
  BY <1>1, <1>5, <1>7
<1>11. u = [i \in 1 .. Len(u) |-> u[i]]
  BY <1>1
<1>12. [i \in 1 .. Len(u) |-> at[i]] = [i \in 1 .. Len(u) |-> u[i]]
  BY <1>10
<1>. QED
  BY <1>9, <1>11, <1>12 DEF u

(***************************************************************************)
(* A push appends, a pop takes the head of the highest queue.              *)
(***************************************************************************)
LEMMA PushShows ==
  ASSUME NEW q, Circles(q), NEW s, Shows(q, s), NEW t \in Thread, ~Linked(q, t),
         NEW p \in Priority, NEW r, r = QueuePushBack(q, t, p),
         NEW z, z = [s EXCEPT ![p] = Append(s[p], t)]
  PROVE  Shows(r, z)
<1> DEFINE last == q[p].prv
           u == s[p]
<1>1. /\ p \in Node /\ t \in Node /\ p # t
      /\ last \in Node /\ last # t /\ q[last].nxt = p
      /\ r[t].nxt = p
      /\ r[last].nxt = t
      /\ \A n \in Node : n # t /\ n # last => r[n].nxt = q[n].nxt
  BY PushBackLinks
<1> HIDE DEF last
<1>2. /\ s \in [Priority -> Seq(Thread)] /\ Apart(s)
      /\ \A x \in Priority : Lined(q, x, s[x])
      /\ \A v \in Thread : Linked(q, v) <=> Found(s, v)
  BY DEF Shows
<1>3. /\ z \in [Priority -> Seq(Thread)]
      /\ \A x \in Priority : x # p => z[x] = s[x]
      /\ Len(z[p]) = Len(u) + 1 /\ Len(u) \in Nat
      /\ \A i \in 1 .. Len(u) : z[p][i] = u[i] /\ u[i] \in Thread
      /\ z[p][Len(u) + 1] = t
  BY <1>2
<1>4. \A x \in Priority : \A i \in 1 .. Len(s[x]) : s[x][i] \in Thread /\ s[x][i] # t
  BY <1>2 DEF Found
<1>5. ASSUME NEW n \in Node, q[n].nxt = p
      PROVE  n = last
  <2>1. q[n].nxt # NULL
    BY <1>1, <1>5, NodeFacts
  <2>2. q[q[n].nxt].prv = n
    BY <2>1 DEF Circles, Coupled
  <2>. QED
    BY <2>2, <1>5 DEF last
<1>6. ASSUME NEW x \in Priority
      PROVE  Lined(r, x, z[x])
  <2>1. Lined(q, x, s[x]) /\ x \in Node /\ x # t
    BY <1>2, NodeFacts
  <2>2. CASE x # p
    <3>1. q[x].nxt # p
      <4>1. CASE Len(s[x]) = 0
        BY <4>1, <2>1, <2>2 DEF Lined
      <4>2. CASE Len(s[x]) # 0
        <5>1. Len(s[x]) > 0 /\ s[x][1] \in Thread
          BY <4>2, <1>2, <1>4
        <5>. QED
          BY <5>1, <2>1, NodeFacts DEF Lined
      <4>. QED
        BY <4>1, <4>2
    <3>2. r[x].nxt = q[x].nxt
      BY <3>1, <2>1, <1>1
    <3>3. ASSUME NEW i \in 1 .. Len(s[x])
          PROVE  r[s[x][i]].nxt = q[s[x][i]].nxt
      <4>1. s[x][i] \in Node /\ s[x][i] # t
        BY <1>4, NodeFacts
      <4>2. q[s[x][i]].nxt # p
        <5>1. CASE i = Len(s[x])
          BY <5>1, <2>1, <2>2 DEF Lined
        <5>2. CASE i # Len(s[x])
          <6>1. i + 1 \in 1 .. Len(s[x])
            BY <5>2, <1>2
          <6>. QED
            BY <5>2, <6>1, <2>1, <1>4, NodeFacts DEF Lined
        <5>. QED
          BY <5>1, <5>2
      <4>. QED
        BY <4>1, <4>2, <1>1
    <3>. QED
      BY <2>1, <2>2, <3>2, <3>3, <1>3 DEF Lined
  <2>3. CASE x = p
    <3>1. Lined(q, p, u)
      BY <2>1, <2>3
    <3>2. CASE Len(u) = 0
      <4>1. last = p
        BY <3>1, <3>2, <1>1, <1>5 DEF Lined
      <4>. QED
        BY <4>1, <2>3, <3>2, <1>1, <1>3 DEF Lined
    <3>3. CASE Len(u) # 0
      <4>1. Len(u) \in 1 .. Len(u) /\ u[Len(u)] \in Node
        BY <3>3, <1>3, <1>4, NodeFacts
      <4>2. last = u[Len(u)]
        BY <4>1, <3>1, <1>5 DEF Lined
      <4>3. r[p].nxt = z[p][1]
        <5>1. q[p].nxt = u[1] /\ u[1] \in Thread /\ 1 \in 1 .. Len(u)
          BY <3>1, <3>3, <1>3 DEF Lined
        <5>2. last # p
          BY <4>1, <4>2, <1>3, NodeFacts
        <5>. QED
          BY <5>1, <5>2, <1>1, <1>3
      <4>4. ASSUME NEW i \in 1 .. Len(u) + 1
            PROVE  r[z[p][i]].nxt = IF i = Len(u) + 1 THEN p ELSE z[p][i + 1]
        <5>1. CASE i = Len(u) + 1
          BY <5>1, <1>1, <1>3
        <5>2. CASE i = Len(u)
          BY <5>2, <4>1, <4>2, <1>1, <1>3
        <5>3. CASE i < Len(u)
          <6>1. i \in 1 .. Len(u) /\ i + 1 \in 1 .. Len(u) /\ i # Len(u)
            BY <5>3, <1>3
          <6>2. u[i] \in Node /\ u[i] # t /\ u[i] # last
            <7>1. u[i] \in Node /\ u[i] # t
              BY <6>1, <1>4, NodeFacts
            <7>2. u[i] # u[Len(u)]
              BY <6>1, <4>1, <1>2 DEF Apart
            <7>. QED
              BY <7>1, <7>2, <4>2
          <6>3. r[u[i]].nxt = u[i + 1]
            BY <6>1, <6>2, <1>1, <3>1 DEF Lined
          <6>4. i # Len(u) + 1
            BY <5>3, <1>3
          <6>. QED
            BY <6>1, <6>3, <6>4, <1>3
        <5>. QED
          BY <5>1, <5>2, <5>3, <1>3
      <4>. QED
        BY <4>3, <4>4, <2>3, <1>3 DEF Lined
    <3>. QED
      BY <3>2, <3>3
  <2>. QED
    BY <2>2, <2>3
<1>7. Apart(z)
  <2> SUFFICES ASSUME NEW x \in Priority, NEW y \in Priority,
                      NEW i \in 1 .. Len(z[x]), NEW j \in 1 .. Len(z[y]), z[x][i] = z[y][j]
               PROVE  x = y /\ i = j
    BY DEF Apart
  <2> DEFINE New(a, k) == a = p /\ k = Len(u) + 1
  <2>1. ASSUME NEW a \in Priority, NEW k \in 1 .. Len(z[a]), ~New(a, k)
        PROVE  k \in 1 .. Len(s[a]) /\ z[a][k] = s[a][k] /\ z[a][k] # t
    BY <2>1, <1>3, <1>4
  <2>2. ASSUME NEW a \in Priority, NEW k \in 1 .. Len(z[a]), New(a, k)
        PROVE  z[a][k] = t
    BY <2>2, <1>3
  <2>3. CASE New(x, i) /\ New(y, j)
    BY <2>3
  <2>4. CASE New(x, i) /\ ~New(y, j)
    BY <2>1, <2>2, <2>4
  <2>5. CASE ~New(x, i) /\ New(y, j)
    BY <2>1, <2>2, <2>5
  <2>6. CASE ~New(x, i) /\ ~New(y, j)
    <3>1. /\ i \in 1 .. Len(s[x]) /\ z[x][i] = s[x][i]
          /\ j \in 1 .. Len(s[y]) /\ z[y][j] = s[y][j]
      BY <2>1, <2>6
    <3>. QED
      BY <3>1, <1>2 DEF Apart
  <2>. QED
    BY <2>3, <2>4, <2>5, <2>6
<1>8. ASSUME NEW v \in Thread
      PROVE  Linked(r, v) <=> Found(z, v)
  <2>1. Linked(r, v) <=> v = t \/ Linked(q, v)
    BY PushBackCircles
  <2>2. Found(z, v) <=> v = t \/ Found(s, v)
    <3>1. ASSUME Found(z, v)
          PROVE  v = t \/ Found(s, v)
      <4>1. PICK x \in Priority : \E i \in 1 .. Len(z[x]) : z[x][i] = v
        BY <3>1 DEF Found
      <4>2. PICK i \in 1 .. Len(z[x]) : z[x][i] = v
        BY <4>1
      <4>3. v = t \/ (i \in 1 .. Len(s[x]) /\ s[x][i] = v)
        BY <4>2, <1>3
      <4>. QED
        BY <4>3 DEF Found
    <3>2. ASSUME Found(s, v)
          PROVE  Found(z, v)
      <4>1. PICK x \in Priority : \E i \in 1 .. Len(s[x]) : s[x][i] = v
        BY <3>2 DEF Found
      <4>2. PICK i \in 1 .. Len(s[x]) : s[x][i] = v
        BY <4>1
      <4>3. i \in 1 .. Len(z[x]) /\ z[x][i] = v
        BY <4>2, <1>3
      <4>. QED
        BY <4>3 DEF Found
    <3>3. Found(z, t)
      <4>1. Len(u) + 1 \in 1 .. Len(z[p])
        BY <1>3
      <4>. QED
        BY <4>1, <1>3 DEF Found
    <3>. QED
      BY <3>1, <3>2, <3>3
  <2>. QED
    BY <2>1, <2>2, <1>2
<1>. QED
  BY <1>3, <1>6, <1>7, <1>8 DEF Shows

LEMMA PopShows ==
  ASSUME NEW q, Circles(q), NEW s, Shows(q, s), NEW p \in Priority, Len(s[p]) > 0,
         NEW r, r = QueueRemove(q, s[p][1]),
         NEW z, z = [s EXCEPT ![p] = Tail(s[p])]
  PROVE  Shows(r, z)
<1> DEFINE u == s[p]
           t == u[1]
           after == q[t].nxt
<1>1. /\ s \in [Priority -> Seq(Thread)] /\ Apart(s)
      /\ \A x \in Priority : Lined(q, x, s[x])
      /\ \A v \in Thread : Linked(q, v) <=> Found(s, v)
  BY DEF Shows
<1>2. /\ Len(u) \in Nat /\ 1 \in 1 .. Len(u) /\ t \in Thread /\ Linked(q, t)
      /\ \A x \in Priority : \A i \in 1 .. Len(s[x]) : s[x][i] \in Thread
  BY <1>1 DEF Found
<1>3. /\ z \in [Priority -> Seq(Thread)]
      /\ \A x \in Priority : x # p => z[x] = s[x]
      /\ Len(z[p]) = Len(u) - 1
      /\ \A i \in 1 .. Len(u) - 1 : z[p][i] = u[i + 1] /\ i + 1 \in 1 .. Len(u)
  BY <1>1, <1>2
<1>4. q[p].nxt = t /\ after = IF Len(u) = 1 THEN p ELSE u[2]
  <2>1. Lined(q, p, u)
    BY <1>1
  <2>2. q[p].nxt = u[1]
    BY <2>1 DEF Lined
  <2>3. q[u[1]].nxt = IF 1 = Len(u) THEN p ELSE u[1 + 1]
    BY <2>1, <1>2, Zenon DEF Lined
  <2>. QED
    BY <2>2, <2>3
<1>5. q[t].prv = p
  BY <1>4, NodeFacts DEF Circles, Coupled
<1>6. /\ r[p].nxt = after
      /\ \A n \in Node : n # t /\ n # p => r[n].nxt = q[n].nxt
  BY <1>2, <1>5, RemoveLinks
<1> HIDE DEF u
<1>7. \A x \in Priority : \A i \in 1 .. Len(s[x]) :
        s[x][i] \in Node /\ s[x][i] # p /\ (s[x][i] = t => x = p /\ i = 1)
  BY <1>1, <1>2, NodeFacts DEF Apart, u
<1> HIDE DEF t, after
<1>8. ASSUME NEW x \in Priority
      PROVE  Lined(r, x, z[x])
  <2>1. Lined(q, x, s[x]) /\ x \in Node /\ x # t
    BY <1>1, <1>2, NodeFacts
  <2>2. CASE x # p
    <3>1. r[x].nxt = q[x].nxt
      BY <2>1, <2>2, <1>6
    <3>2. \A i \in 1 .. Len(s[x]) : r[s[x][i]].nxt = q[s[x][i]].nxt
      BY <2>2, <1>6, <1>7
    <3>. QED
      BY <2>1, <2>2, <3>1, <3>2, <1>3 DEF Lined
  <2>3. CASE x = p
    <3>1. Lined(q, p, u)
      BY <2>1, <2>3 DEF u
    <3>2. ASSUME NEW i \in 1 .. Len(u) - 1
          PROVE  r[z[p][i]].nxt = IF i = Len(u) - 1 THEN p ELSE z[p][i + 1]
      <4>1. i + 1 \in 1 .. Len(u) /\ i + 1 # 1 /\ z[p][i] = u[i + 1]
        BY <1>2, <1>3
      <4>2. r[u[i + 1]].nxt = q[u[i + 1]].nxt
        BY <4>1, <1>6, <1>7 DEF u
      <4>3. q[u[i + 1]].nxt = IF i + 1 = Len(u) THEN p ELSE u[i + 1 + 1]
        BY <4>1, <3>1 DEF Lined
      <4>4. CASE i = Len(u) - 1
        <5>1. i + 1 = Len(u)
          BY <4>4, <1>2
        <5>. QED
          BY <4>1, <4>2, <4>3, <4>4, <5>1, Zenon
      <4>5. CASE i # Len(u) - 1
        <5>1. i + 1 \in 1 .. Len(u) - 1
          BY <4>5, <1>2
        <5>2. z[p][i + 1] = u[i + 1 + 1]
          BY <5>1, <1>3
        <5>3. i + 1 # Len(u)
          BY <4>5, <1>2
        <5>. QED
          BY <4>1, <4>2, <4>3, <4>5, <5>2, <5>3, Zenon
      <4>. QED
        BY <4>4, <4>5
    <3>3. Len(z[p]) = 0 => r[p].nxt = p
      BY <1>2, <1>3, <1>4, <1>6
    <3>4. Len(z[p]) > 0 => r[p].nxt = z[p][1]
      <4>1. ASSUME Len(z[p]) > 0
            PROVE  r[p].nxt = z[p][1]
        <5>1. 1 \in 1 .. Len(u) - 1 /\ Len(u) # 1
          BY <4>1, <1>2, <1>3
        <5>2. z[p][1] = u[1 + 1]
          BY <5>1, <1>3
        <5>3. u[1 + 1] = u[2]
          OBVIOUS
        <5>. QED
          BY <5>1, <5>2, <5>3, <1>4, <1>6, Zenon
      <4>. QED
        BY <4>1
    <3>. QED
      BY <2>3, <3>2, <3>3, <3>4, <1>3 DEF Lined
  <2>. QED
    BY <2>2, <2>3
<1>9. ASSUME NEW x \in Priority, NEW i \in 1 .. Len(z[x])
      PROVE  /\ (IF x = p THEN i + 1 ELSE i) \in 1 .. Len(s[x])
             /\ z[x][i] = s[x][IF x = p THEN i + 1 ELSE i]
  BY <1>3 DEF u
<1>10. Apart(z)
  <2> SUFFICES ASSUME NEW x \in Priority, NEW y \in Priority,
                      NEW i \in 1 .. Len(z[x]), NEW j \in 1 .. Len(z[y]), z[x][i] = z[y][j]
               PROVE  x = y /\ i = j
    BY DEF Apart
  <2>1. x = y /\ (IF x = p THEN i + 1 ELSE i) = (IF y = p THEN j + 1 ELSE j)
    BY <1>1, <1>9 DEF Apart
  <2>2. i \in Int /\ j \in Int
    OBVIOUS
  <2>. QED
    BY <2>1, <2>2
<1>11. ASSUME NEW v \in Thread
       PROVE  Linked(r, v) <=> Found(z, v)
  <2>1. Linked(r, v) <=> v # t /\ Linked(q, v)
    BY <1>2, RemoveCircles DEF t, u
  <2>2. ASSUME Found(z, v)
        PROVE  v # t /\ Found(s, v)
    <3>1. PICK x \in Priority : \E i \in 1 .. Len(z[x]) : z[x][i] = v
      BY <2>2 DEF Found
    <3>2. PICK i \in 1 .. Len(z[x]) : z[x][i] = v
      BY <3>1
    <3>3. /\ (IF x = p THEN i + 1 ELSE i) \in 1 .. Len(s[x])
          /\ v = s[x][IF x = p THEN i + 1 ELSE i]
      BY <3>2, <1>9
    <3>4. x = p => i + 1 # 1
      BY <3>2
    <3>. QED
      BY <3>3, <3>4, <1>7 DEF Found
  <2>3. ASSUME v # t, Found(s, v)
        PROVE  Found(z, v)
    <3>1. PICK x \in Priority : \E i \in 1 .. Len(s[x]) : s[x][i] = v
      BY <2>3 DEF Found
    <3>2. PICK i \in 1 .. Len(s[x]) : s[x][i] = v
      BY <3>1
    <3>3. CASE x # p
      BY <3>2, <3>3, <1>3 DEF Found
    <3>4. CASE x = p
      <4>1. i # 1
        BY <2>3, <3>2, <3>4 DEF t, u
      <4>2. i - 1 \in 1 .. Len(u) - 1 /\ i - 1 + 1 = i
        BY <4>1, <3>2, <3>4, <1>2 DEF u
      <4>3. z[p][i - 1] = u[i]
        BY <4>2, <1>3
      <4>. QED
        BY <4>2, <4>3, <3>2, <3>4, <1>3 DEF Found, u
    <3>. QED
      BY <3>3, <3>4
  <2>. QED
    BY <2>1, <2>2, <2>3, <1>1
<1>. QED
  BY <1>3, <1>8, <1>10, <1>11 DEF Shows

LEMMA PopsHead ==
  ASSUME NEW q, NEW s, Shows(q, s), NonEmpty(q) # {}
  PROVE  /\ Highest(q) \in Priority
         /\ Len(s[Highest(q)]) > 0
         /\ \A r \in Priority : r > Highest(q) => s[r] = <<>>
         /\ QueuePop(q) = s[Highest(q)][1]
<1>1. ASSUME NEW p \in Priority
      PROVE  q[p].nxt # p <=> Len(s[p]) > 0
  <2>1. Lined(q, p, s[p]) /\ s[p] \in Seq(Thread) /\ Len(s[p]) \in Nat
    BY DEF Shows
  <2>2. CASE Len(s[p]) = 0
    BY <2>1, <2>2 DEF Lined
  <2>3. CASE Len(s[p]) > 0
    <3>1. q[p].nxt = s[p][1] /\ s[p][1] \in Thread
      BY <2>1, <2>3 DEF Lined
    <3>. QED
      BY <2>3, <3>1, NodeFacts
  <2>. QED
    BY <2>1, <2>2, <2>3
<1>2. \E p \in NonEmpty(q) : \A r \in NonEmpty(q) : r <= p
  BY DEF NonEmpty, Priority, LOW, NORMAL, HIGH
<1>3. Highest(q) \in NonEmpty(q) /\ \A r \in NonEmpty(q) : r <= Highest(q)
  BY <1>2 DEF Highest
<1> DEFINE h == Highest(q)
<1>4. h \in Priority /\ Len(s[h]) > 0
  BY <1>1, <1>3 DEF NonEmpty
<1>5. QueuePop(q) = s[h][1]
  <2>1. Lined(q, h, s[h])
    BY <1>4 DEF Shows
  <2>. QED
    BY <2>1, <1>4 DEF Lined, QueuePop
<1> HIDE DEF h
<1>6. ASSUME NEW r \in Priority, r > h
      PROVE  s[r] = <<>>
  <2>1. ~(r <= h)
    BY <1>4, <1>6 DEF Priority, LOW, NORMAL, HIGH
  <2>2. r \notin NonEmpty(q)
    BY <2>1, <1>3 DEF h
  <2>3. ~(Len(s[r]) > 0) /\ s[r] \in Seq(Thread)
    BY <2>2, <1>1 DEF NonEmpty, Shows
  <2>. QED
    BY <2>3
<1>. QED
  BY <1>4, <1>5, <1>6 DEF h

(***************************************************************************)
(* The steps of the Dispatcher, in terms of what the links show.           *)
(***************************************************************************)
Ended == {t \in Thread : state[t] = "TERMINATED"}

Willing == state[current] = "RUNNING"

LEMMA QueuesShown ==
  ASSUME IsFiniteSet(Thread), NEW q, NEW s, Shows(q, s)
  PROVE  [p \in Priority |-> QueueOf(q, p)] = s
<1>1. \A p \in Priority : QueueOf(q, p) = s[p]
  BY QueueRead
<1>2. s = [p \in Priority |-> s[p]]
  BY DEF Shows
<1>. QED
  BY <1>1, <1>2

LEMMA QueuedShown ==
  ASSUME IsFiniteSet(Thread), NEW s, Shows(link, s), NEW t \in Abstract!Queued
  PROVE  Found(s, t)
<1>1. [p \in Priority |-> QueueOf(link, p)] = s
  BY QueuesShown
<1>2. \E p \in Priority : t \in Abstract!Members([x \in Priority |-> QueueOf(link, x)][p])
  BY DEF Abstract!Queued
<1>3. PICK p \in Priority : t \in Abstract!Members(s[p])
  BY <1>1, <1>2
<1>4. s[p] \in Seq(Thread)
  BY DEF Shows
<1>. QED
  BY <1>3, <1>4 DEF Abstract!Members, Found

LEMMA JoinsQueue ==
  ASSUME IsFiniteSet(Thread), IInv, NEW s, Shows(link, s), NEW t \in Thread,
         ~Linked(link, t), state[t] # "TERMINATED", t # current,
         link' = QueuePushBack(link, t, priority[t]),
         UNCHANGED <<current, priority>>, UNCHANGED Willing, UNCHANGED Ended
  PROVE  /\ \E z : Shows(link', z)
         /\ Abstract!BecomeReady(t)
<1> DEFINE z == [s EXCEPT ![priority[t]] = Append(s[priority[t]], t)]
<1>1. priority[t] \in Priority /\ Circles(link)
  BY DEF IInv, TypeOK
<1>2. Shows(link', z)
  BY <1>1, PushShows
<1>3. [p \in Priority |-> QueueOf(link, p)] = s
  BY QueuesShown
<1>4. [p \in Priority |-> QueueOf(link', p)] = z
  BY <1>2, QueuesShown
<1>5. t \notin Abstract!Queued
  BY QueuedShown DEF Shows
<1>6. t \notin {u \in Thread : state[u] = "TERMINATED"} \cup {current}
  OBVIOUS
<1>7. [p \in Priority |-> QueueOf(link, p)]' = [[p \in Priority |-> QueueOf(link, p)]
         EXCEPT ![priority[t]] = Append([p \in Priority |-> QueueOf(link, p)][priority[t]], t)]
  BY <1>3, <1>4
<1>. QED
  BY <1>2, <1>5, <1>6, <1>7 DEF Abstract!BecomeReady, Willing, Ended

LEMMA SwitchEnds ==
  ASSUME IInv, ScheduleInternal, NonEmpty(link) # {}
  PROVE  Willing' /\ UNCHANGED Ended
<1>1. PICK next \in Thread :
        /\ next # current /\ Linked(link, next) /\ current' = next
        /\ state' = [state EXCEPT ![current] = IF state[current] = "RUNNING"
                                               THEN "READY" ELSE @,
                                  ![next] = "RUNNING"]
  BY SwitchFacts
<1>2. /\ state[next] = "READY" /\ current \in Thread
      /\ state \in [Thread -> ThreadState]
  BY <1>1 DEF IInv, TypeOK, ThreadInv, QueuedInv
<1>3. state'[next] = "RUNNING"
  BY <1>1, <1>2
<1>4. ASSUME NEW t \in Thread
      PROVE  state'[t] = "TERMINATED" <=> state[t] = "TERMINATED"
  BY <1>1, <1>2
<1>. QED
  BY <1>1, <1>3, <1>4 DEF Willing, Ended

LEMMA Dispatches ==
  ASSUME IsFiniteSet(Thread), IInv, NEW s, Shows(link, s),
         ScheduleInternal, NonEmpty(link) # {}, UNCHANGED priority
  PROVE  /\ \E z : Shows(link', z)
         /\ Abstract!Dispatch
<1> DEFINE h == Highest(link)
           next == QueuePop(link)
           popped == QueueRemove(link, next)
           rest == [s EXCEPT ![h] = Tail(s[h])]
           z == IF Willing THEN [rest EXCEPT ![priority[current]] =
                                   Append(rest[priority[current]], current)]
                           ELSE rest
<1>1. /\ h \in Priority /\ Len(s[h]) > 0 /\ next = s[h][1]
      /\ \A r \in Priority : r > h => s[r] = <<>>
  BY PopsHead
<1>2. Circles(link) /\ next \in Thread /\ Linked(link, next)
  BY PopCircles DEF IInv
<1>3. /\ next # current /\ current \in Thread /\ ~Linked(link, current)
      /\ priority[current] \in Priority
  BY <1>2 DEF IInv, ThreadInv, QueuedInv, TypeOK
<1> HIDE DEF h
<1>4. Shows(popped, rest)
  BY <1>1, <1>2, PopShows
<1>5. /\ Circles(popped)
      /\ \A u \in Thread : Linked(popped, u) <=> u # next /\ Linked(link, u)
  BY <1>2, RemoveCircles
<1> HIDE DEF next, popped, rest
<1>6. /\ current' = next
      /\ link' = IF Willing THEN QueuePushBack(popped, current, priority[current])
                 ELSE popped
  BY <1>3 DEF ScheduleInternal, Requeued, Willing, next, popped
<1>7. Shows(link', z)
  <2>1. CASE Willing
    <3>1. link' = QueuePushBack(popped, current, priority[current])
      BY <2>1, <1>6
    <3>2. z = [rest EXCEPT ![priority[current]] = Append(rest[priority[current]], current)]
      BY <2>1
    <3>3. ~Linked(popped, current)
      BY <1>3, <1>5
    <3> HIDE DEF z
    <3>. QED
      BY <3>1, <3>2, <3>3, <1>3, <1>4, <1>5, PushShows
  <2>2. CASE ~Willing
    BY <2>2, <1>4, <1>6
  <2>. QED
    BY <2>1, <2>2
<1>8. [p \in Priority |-> QueueOf(link, p)] = s
  BY QueuesShown
<1>9. [p \in Priority |-> QueueOf(link', p)] = z
  BY <1>7, QueuesShown
<1> DEFINE Q == [p \in Priority |-> QueueOf(link, p)]
<1>10. /\ Q[h] # <<>>
       /\ \A r \in Priority : r > h => Q[r] = <<>>
       /\ current' = Head(Q[h])
  <2>1. s[h] # <<>> /\ Head(s[h]) = s[h][1]
    BY <1>1
  <2> HIDE DEF Q
  <2>2. Q = s
    BY <1>8 DEF Q
  <2>. QED
    BY <2>1, <2>2, <1>1, <1>6
<1>11. Q' = IF Willing THEN [[Q EXCEPT ![h] = Tail(Q[h])] EXCEPT ![priority[current]] =
                               Append([Q EXCEPT ![h] = Tail(Q[h])][priority[current]], current)]
                       ELSE [Q EXCEPT ![h] = Tail(Q[h])]
  <2>1. Q' = z
    BY <1>9
  <2> HIDE DEF Q
  <2>2. Q = s
    BY <1>8 DEF Q
  <2>. QED
    BY <2>1, <2>2 DEF rest
<1>12. Willing' /\ UNCHANGED Ended
  BY SwitchEnds
<1>. QED
  BY <1>1, <1>7, <1>10, <1>11, <1>12 DEF Abstract!Dispatch, Willing, Ended

\* The running thread gives the CPU up; the queues stay.
LEMMA GivesUp ==
  ASSUME NEW s, Shows(link, s), NEW ends \in BOOLEAN, IInv, At("run"),
         UNCHANGED <<link, current, priority>>,
         state' = [state EXCEPT ![current] = IF ends THEN "TERMINATED" ELSE "BLOCKED"]
  PROVE  /\ \E z : Shows(link', z)
         /\ Abstract!GiveUp(ends)
<1>1. /\ Willing /\ current \in Thread /\ state \in [Thread -> ThreadState]
  BY DEF IInv, CurrentInv, TypeOK, At, Willing
<1>2. ~Willing'
  BY <1>1 DEF Willing
<1>3. Ended' = IF ends THEN Ended \cup {current} ELSE Ended
  <2>1. ASSUME NEW t \in Thread
        PROVE  state'[t] = "TERMINATED" <=>
                 state[t] = "TERMINATED" \/ (ends /\ t = current)
    BY <1>1 DEF Willing
  <2>. QED
    BY <2>1, <1>1 DEF Ended
<1>4. \E z : Shows(link', z)
  OBVIOUS
<1>. QED
  BY <1>1, <1>2, <1>3, <1>4 DEF Abstract!GiveUp, Willing, Ended

Seen == <<link, current, priority, Willing, Ended>>

\* What the Dispatcher does not see.
LEMMA Unseen ==
  ASSUME NEW s, Shows(link, s), UNCHANGED Seen
  PROVE  /\ \E z : Shows(link', z)
         /\ UNCHANGED Abstract!dvars
<1>1. \E z : Shows(link', z)
  BY DEF Seen
<1>. QED
  BY <1>1 DEF Seen, Abstract!dvars, Willing, Ended

Follows ==
  /\ \E z : Shows(link', z)
  /\ [Abstract!DispatcherNext]_(Abstract!dvars)

LEMMA JoinFollows ==
  ASSUME IsFiniteSet(Thread), IInv, NEW s, Shows(link, s), NEW t \in Thread,
         ~Linked(link, t), state[t] # "TERMINATED", t # current,
         link' = QueuePushBack(link, t, priority[t]),
         state' = [state EXCEPT ![t] = "READY"],
         UNCHANGED <<current, priority>>
  PROVE  Follows
<1>1. UNCHANGED Willing /\ UNCHANGED Ended
  BY DEF IInv, TypeOK, Willing, Ended
<1>2. (\E z : Shows(link', z)) /\ Abstract!BecomeReady(t)
  BY <1>1, JoinsQueue
<1>. QED
  BY <1>2 DEF Follows, Abstract!DispatcherNext

LEMMA SwitchFollows ==
  ASSUME IsFiniteSet(Thread), IInv, NEW s, Shows(link, s), ScheduleInternal,
         UNCHANGED priority
  PROVE  Follows
<1>1. CASE NonEmpty(link) = {}
  <2>1. UNCHANGED Seen
    BY <1>1 DEF ScheduleInternal, Seen, Willing, Ended
  <2>. QED
    BY <2>1, Unseen DEF Follows
<1>2. CASE NonEmpty(link) # {}
  BY <1>2, Dispatches DEF Follows, Abstract!DispatcherNext
<1>. QED
  BY <1>1, <1>2

LEMMA GiveUpFollows ==
  ASSUME NEW s, Shows(link, s), NEW ends \in BOOLEAN, IInv, At("run"),
         UNCHANGED <<link, current, priority>>,
         state' = [state EXCEPT ![current] = IF ends THEN "TERMINATED" ELSE "BLOCKED"]
  PROVE  Follows
BY GivesUp DEF Follows, Abstract!DispatcherNext

LEMMA UnseenFollows ==
  ASSUME NEW s, Shows(link, s), UNCHANGED Seen
  PROVE  Follows
BY Unseen DEF Follows

LEMMA AddThreadFollows ==
  ASSUME IsFiniteSet(Thread), IInv, NEW s, Shows(link, s), NEW t \in Thread, AddThread(t)
  PROVE  Follows
<1>1. ThreadInv(t) /\ CurrentInv /\ pc[t] = "unborn"
  BY DEF IInv, AddThread
<1>2. ~Linked(link, t) /\ state[t] # "TERMINATED" /\ t # current
  BY <1>1 DEF ThreadInv, QueuedInv, StateInv, CurrentInv, Begun
<1>. QED
  BY <1>2, JoinFollows DEF AddThread

LEMMA PopWaiterFollows ==
  ASSUME IInv, NEW s, Shows(link, s), NEW t \in Thread, PopWaiter(t)
  PROVE  Follows
<1>1. ThreadInv(t) /\ pc[current] = "run" /\ t \in waiters /\ state \in [Thread -> ThreadState]
  BY DEF IInv, TypeOK, PopWaiter, At
<1>2. t # current /\ state[t] = "BLOCKED"
  BY <1>1 DEF ThreadInv, WaitingInv
<1>3. PICK x \in {"READY", state[t]} : state' = [state EXCEPT ![t] = x]
  BY DEF PopWaiter
<1>4. UNCHANGED Willing /\ UNCHANGED Ended
  BY <1>1, <1>2, <1>3 DEF Willing, Ended, PopWaiter
<1>. QED
  BY <1>4, UnseenFollows DEF Seen, PopWaiter

LEMMA UnblockThreadFollows ==
  ASSUME IsFiniteSet(Thread), IInv, NEW s, Shows(link, s), UnblockThread
  PROVE  Follows
<1> DEFINE t == waking[current]
<1>1. current \in Thread /\ pc[current] = "wake" /\ waking \in [Thread -> Thread \cup {NULL}]
  BY DEF IInv, TypeOK, UnblockThread, At
<1>2. t \in Thread
  <2>1. ThreadInv(current)
    BY <1>1 DEF IInv
  <2>. QED
    BY <2>1, <1>1 DEF ThreadInv, StateInv
<1>3. ThreadInv(t)
  BY <1>2 DEF IInv
<1>4. ~Linked(link, t) /\ state[t] # "TERMINATED" /\ t # current
  BY <1>1, <1>3 DEF ThreadInv, WokenInv
<1>5. /\ link' = QueuePushBack(link, t, priority[t])
      /\ state' = [state EXCEPT ![t] = "READY"]
      /\ UNCHANGED <<current, priority>>
  BY <1>4 DEF UnblockThread
<1> HIDE DEF t
<1>. QED
  BY <1>2, <1>4, <1>5, JoinFollows

LEMMA SetPriorityFollows ==
  ASSUME NEW s, Shows(link, s), NEW p \in PriorityChoices, SetPriority(p)
  PROVE  Follows
<1>1. p \in Priority
  BY SchedulerAssumption
<1>2. /\ priority' = [priority EXCEPT ![current] = p]
      /\ UNCHANGED <<current, state, link>>
  BY DEF SetPriority
<1>3. Abstract!SetRank(p)
  BY <1>2 DEF Abstract!SetRank
<1>. QED
  BY <1>1, <1>2, <1>3 DEF Follows, Abstract!DispatcherNext

LEMMA WakeSleeperFollows ==
  ASSUME IsFiniteSet(Thread), IInv, NEW s, Shows(link, s),
         NEW i \in 1 .. Len(sleepers), WakeSleeper(i)
  PROVE  Follows
<1> DEFINE t == sleepers[i]
<1>1. t \in Thread /\ Asleep(t) /\ sleepLeft[t] = 0 /\ struck \in BOOLEAN
  BY DEF IInv, TypeOK, Asleep, OnList, WakeSleeper, Due
<1>2. ThreadInv(t)
  BY <1>1 DEF IInv
<1>3. ~Linked(link, t) /\ state[t] # "TERMINATED" /\ t # current
  BY <1>1, <1>2 DEF ThreadInv, QueuedInv, AsleepInv
<1>4. /\ link' = QueuePushBack(link, t, priority[t])
      /\ state' = [state EXCEPT ![t] = "READY"]
      /\ UNCHANGED <<current, priority>>
  BY DEF WakeSleeper
<1> HIDE DEF t
<1>. QED
  BY <1>1, <1>3, <1>4, JoinFollows

LEMMA TickFollows ==
  ASSUME IsFiniteSet(Thread), IInv, NEW s, Shows(link, s), Tick
  PROVE  Follows
<1>1. CASE quantum = 1 /\ NonEmpty(link) # {}
  BY <1>1, SwitchFollows DEF Tick, UseQuantum
<1>2. CASE ~(quantum = 1 /\ NonEmpty(link) # {})
  <2>1. UNCHANGED <<current, state, link, priority>>
    <3>1. CASE quantum = 0
      BY <3>1 DEF Tick, UseQuantum
    <3>2. CASE quantum = 1
      BY <3>2, <1>2 DEF Tick, UseQuantum
    <3>3. CASE quantum \notin {0, 1}
      BY <3>3 DEF Tick, UseQuantum
    <3>. QED
      BY <3>1, <3>2, <3>3
  <2>2. UNCHANGED Seen
    BY <2>1 DEF Seen, Willing, Ended
  <2>. QED
    BY <2>2, UnseenFollows
<1>. QED
  BY <1>1, <1>2

LEMMA NextFollows ==
  ASSUME IsFiniteSet(Thread), IInv, [Next]_vars, NEW s, Shows(link, s)
  PROVE  Follows
<1>1. CASE \E t \in Thread : AddThread(t)
  BY <1>1, AddThreadFollows
<1>2. CASE \E t \in Thread : PopWaiter(t)
  BY <1>2, PopWaiterFollows
<1>3. CASE Yield \/ SwitchAway
  <2>1. ScheduleInternal /\ UNCHANGED priority
    BY <1>3 DEF Yield, SwitchAway
  <2>. QED
    BY <2>1, SwitchFollows
<1>4. CASE (\E d \in SleepTicks : Sleep(d)) \/ Wait
  <2>1. /\ At("run") /\ UNCHANGED <<link, current, priority>>
        /\ state' = [state EXCEPT ![current] = "BLOCKED"]
    BY <1>4 DEF Sleep, Wait
  <2>2. state' = [state EXCEPT ![current] = IF FALSE THEN "TERMINATED" ELSE "BLOCKED"]
    BY <2>1
  <2>. QED
    BY <2>1, <2>2, GiveUpFollows
<1>5. CASE TerminateCurrentThread
  <2>1. /\ At("run") /\ UNCHANGED <<link, current, priority>>
        /\ state' = [state EXCEPT ![current] = "TERMINATED"]
    BY <1>5 DEF TerminateCurrentThread
  <2>2. state' = [state EXCEPT ![current] = IF TRUE THEN "TERMINATED" ELSE "BLOCKED"]
    BY <2>1
  <2>. QED
    BY <2>1, <2>2, GiveUpFollows
<1>6. CASE UnblockThread
  BY <1>6, UnblockThreadFollows
<1>7. CASE \E p \in PriorityChoices : SetPriority(p)
  BY <1>7, SetPriorityFollows
<1>8. CASE TimerHandler \/ UNCHANGED vars
  <2>1. UNCHANGED Seen
    BY <1>8 DEF TimerHandler, vars, Seen, Willing, Ended
  <2>. QED
    BY <2>1, UnseenFollows
<1>9. CASE \E i \in 1 .. Len(sleepers) : WakeSleeper(i)
  BY <1>9, WakeSleeperFollows
<1>10. CASE Tick
  BY <1>10, TickFollows
<1>. QED
  BY <1>1, <1>2, <1>3, <1>4, <1>5, <1>6, <1>7, <1>8, <1>9, <1>10 DEF Next

LEMMA InitShows ==
  ASSUME IsFiniteSet(Thread), Init
  PROVE  /\ Shows(link, [p \in Priority |-> <<>>])
         /\ Abstract!DispatcherInit
<1> DEFINE none == [p \in Priority |-> <<>>]
<1>1. \A t \in Thread : ~Linked(link, t)
  BY NodeFacts DEF Init, Linked
<1>2. \A p \in Priority : link[p].nxt = p
  BY NodeFacts DEF Init
<1>3. /\ none \in [Priority -> Seq(Thread)]
      /\ \A p \in Priority : Len(none[p]) = 0 /\ 1 .. Len(none[p]) = {}
  OBVIOUS
<1> HIDE DEF none
<1>4. Shows(link, none)
  BY <1>1, <1>2, <1>3 DEF Shows, Lined, Apart, Found
<1>5. [p \in Priority |-> QueueOf(link, p)] = none
  BY <1>4, QueuesShown
<1>6. /\ current = Main /\ Main \in Thread
      /\ state = [t \in Thread |-> IF t = Main THEN "RUNNING" ELSE "READY"]
      /\ priority = [t \in Thread |-> IF t = Main THEN LOW ELSE NORMAL]
  BY SchedulerAssumption DEF Init
<1>7. state[current] = "RUNNING" /\ {t \in Thread : state[t] = "TERMINATED"} = {}
  BY <1>6
<1>. QED
  BY <1>4, <1>5, <1>6, <1>7 DEF Abstract!DispatcherInit, none

\* The three circular lists, pushed at their tails and popped at the head of the
\* highest, and everything that is done around them with interrupts on and off,
\* amount to one FIFO queue per priority: every step is one of the Dispatcher's
\* or is not seen by it.
THEOREM ImplementsQueues ==
  ASSUME LongSleeps, IsFiniteSet(Thread)
  PROVE  Spec => ImplementsDispatcher
<1> DEFINE Shown == \E s : Shows(link, s)
<1>1. Init => Shown /\ Abstract!DispatcherInit
  BY InitShows
<1>2. IInv /\ Shown /\ [Next]_vars => Shown' /\ [Abstract!DispatcherNext]_(Abstract!dvars)
  BY NextFollows DEF Follows
<1> HIDE DEF Shown
<1>. QED
  BY <1>1, <1>2, Invariance, PTL DEF Spec, ImplementsDispatcher, Abstract!DispatcherSpec

LEMMA ShownReachable ==
  ASSUME IsFiniteSet(Thread), NEW s, Shows(link, s)
  PROVE  QueuesReachable
<1>1. \A p \in Priority : QueueOf(link, p) = s[p] /\ DOMAIN s[p] = 1 .. Len(s[p])
  BY QueueRead DEF Shows
<1>2. SUFFICES ASSUME NEW t \in Thread, Linked(link, t)
               PROVE  \E p \in Priority : \E i \in DOMAIN s[p] :
                        /\ s[p][i] = t
                        /\ \A r \in Priority : \A j \in DOMAIN s[r] :
                             s[r][j] = t => r = p /\ j = i
  BY <1>1 DEF QueuesReachable
<1>3. PICK p \in Priority : \E i \in 1 .. Len(s[p]) : s[p][i] = t
  BY <1>2 DEF Shows, Found
<1>4. PICK i \in 1 .. Len(s[p]) : s[p][i] = t
  BY <1>3
<1>5. \A r \in Priority : \A j \in 1 .. Len(s[r]) : s[r][j] = t => r = p /\ j = i
  BY <1>4 DEF Shows, Apart
<1>. QED
  BY <1>1, <1>4, <1>5

\* No thread is linked and out of reach: a thread whose Next is set is found from
\* one sentinel, in one place.
THEOREM LinkedIsReachable ==
  ASSUME LongSleeps, IsFiniteSet(Thread)
  PROVE  Spec => []QueuesReachable
<1> DEFINE Shown == \E s : Shows(link, s)
<1>1. Init => Shown
  BY InitShows
<1>2. IInv /\ Shown /\ [Next]_vars => Shown'
  BY NextFollows DEF Follows
<1>3. Shown => QueuesReachable
  BY ShownReachable
<1> HIDE DEF Shown
<1>. QED
  BY <1>1, <1>2, <1>3, Invariance, PTL DEF Spec
=============================================================================
