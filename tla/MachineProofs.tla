---------------------------- MODULE MachineProofs ----------------------------
(***************************************************************************)
(* Theorems about the two parts of the machine that share nothing but the  *)
(* processor: the physical memory manager, for any memory map, number of   *)
(* pages and callers, as long as no call preempts another one; then the    *)
(* way into the kernel and back, for any number of threads and processes,  *)
(* whatever the scheduler switches to.                                     *)
(***************************************************************************)
EXTENDS Machine, FiniteSetTheorems, SequenceTheorems, TLAPS

NoPreemption == ~Preemptible

(***************************************************************************)
(* The inductive invariant.  What the properties need besides themselves:  *)
(* a page that was found is still the first free one when it is taken,     *)
(* because nobody else is inside; and whatever is free may be given out.   *)
(***************************************************************************)
OneInside ==
  \A c, d \in Caller : found[c] # None /\ found[d] # None => c = d

FoundFirst ==
  \A c \in Caller : found[c] # None =>
    found[c] \notin used /\ hint <= found[c] /\ hint .. found[c] - 1 \subseteq used

FreeAvailable == Page \ used \subseteq Available \ Reserved

IInv ==
  /\ TypeOK
  /\ OneInside
  /\ FoundFirst
  /\ FreeAvailable
  /\ OneOwner
  /\ NoFreePageBelowHint
  /\ FreeCounted

LEMMA PageFinite ==
  /\ IsFiniteSet(Page)
  /\ \A S \in SUBSET Page : IsFiniteSet(S) /\ Cardinality(S) \in Nat
<1>1. IsFiniteSet(Page)
  BY PhysicalMemoryAssumption, FS_Interval DEF Page
<1>. QED
  BY <1>1, FS_Subset, FS_CardinalityType

\* Disjoint entries of the map count every available page once.
LEMMA CountedOnce == Counted = Cardinality(Available)
<1>. DEFINE Pairs == {ep \in MemoryMap \X Page : ep[1].free /\ Covers(ep[1], ep[2])}
            f == [ep \in Pairs |-> ep[2]]
<1>1. f \in [Pairs -> Available]
  BY DEF Available
<1>2. ASSUME NEW a \in Pairs, NEW b \in Pairs, f[a] = f[b]
      PROVE  a = b
  <2>1. a[2] = b[2] /\ a[2] \in Page /\ a[1] \in MemoryMap /\ b[1] \in MemoryMap
    BY <1>2
  <2>2. a[1] = b[1]
    BY <2>1, PhysicalMemoryAssumption
  <2>. QED
    BY <2>1, <2>2
<1>3. ASSUME NEW p \in Available
      PROVE  \E ep \in Pairs : f[ep] = p
  <2>1. PICK e \in MemoryMap : e.free /\ Covers(e, p)
    BY DEF Available
  <2>2. <<e, p>> \in Pairs
    BY <2>1 DEF Available
  <2>. QED
    BY <2>2
<1>4. f \in Injection(Pairs, Available) /\ f \in Surjection(Pairs, Available)
  BY <1>1, <1>2, <1>3 DEF Injection, Surjection, IsInjective
<1>5. IsFiniteSet(Available)
  BY PageFinite DEF Available
<1>6. Cardinality(Pairs) = Cardinality(Available)
  BY <1>4, <1>5, FS_Injection
<1>. QED
  BY <1>6 DEF Counted

LEMMA InitIInv == Init => IInv
<1>. SUFFICES ASSUME Init PROVE IInv
  OBVIOUS
<1>. USE PhysicalMemoryAssumption
<1>1. Page \ used = Available \ Reserved /\ Available \subseteq Page
  BY DEF Init, Available
<1>2. FreeCounted
  <2>1. IsFiniteSet(Available) /\ IsFiniteSet(Available \cap Reserved)
    BY <1>1, PageFinite
  <2>2. Cardinality(Available \ Reserved)
          = Cardinality(Available) - Cardinality(Available \cap Reserved)
    BY <2>1, FS_Difference
  <2>. QED
    BY <2>2, <1>1, CountedOnce DEF Init, FreeCounted
<1>3. free \in Nat
  BY <1>1, <1>2, PageFinite DEF FreeCounted
<1>4. TypeOK
  BY <1>1, <1>3 DEF Init, TypeOK, Page, None
<1>. QED
  BY <1>1, <1>2, <1>4 DEF Init, IInv, OneInside, FoundFirst, FreeAvailable, OneOwner, NoFreePageBelowHint, Page, None

LEMMA FindPageIInv ==
  ASSUME NoPreemption, IInv, NEW c \in Caller, FindPage(c)
  PROVE  IInv'
<1>. USE PhysicalMemoryAssumption
<1>1. PICK p \in Page \ used : /\ p >= hint
                               /\ hint .. p - 1 \subseteq used
                               /\ found' = [found EXCEPT ![c] = p]
  BY DEF FindPage
<1>2. UNCHANGED <<used, free, hint, held, kept, base, left, stacks>>
  BY DEF FindPage
<1>3. \A d \in Caller : found[d] = None
  BY DEF FindPage, Enter, NoPreemption
<1>4. found' \in [Caller -> Page \cup {None}] /\ found'[c] = p
      /\ \A d \in Caller : d # c => found'[d] = None
  BY <1>1, <1>3 DEF IInv, TypeOK
<1>5. TypeOK'
  BY <1>2, <1>4 DEF IInv, TypeOK
<1>6. OneInside' /\ FoundFirst'
  BY <1>1, <1>2, <1>4 DEF OneInside, FoundFirst
<1>7. FreeAvailable' /\ OneOwner' /\ NoFreePageBelowHint' /\ FreeCounted'
  BY <1>2 DEF IInv, FreeAvailable, OneOwner, NoFreePageBelowHint, FreeCounted
<1>. QED
  BY <1>5, <1>6, <1>7 DEF IInv

LEMMA TakePageIInv ==
  ASSUME NoPreemption, IInv, NEW c \in Caller, TakePage(c)
  PROVE  IInv'
<1>. USE PhysicalMemoryAssumption
<1>. DEFINE p == found[c]
<1>1. /\ p \in Page /\ p \notin used
      /\ hint <= p /\ hint .. p - 1 \subseteq used
      /\ p \in Available \ Reserved
  BY DEF TakePage, IInv, TypeOK, FoundFirst, FreeAvailable
<1>2. \A d \in Caller : d # c => found[d] = None
  BY DEF TakePage, IInv, OneInside
<1>3. /\ used' = used \cup {p}
      /\ free' = Less(free, 1)
      /\ hint' = p + 1
      /\ held' = [held EXCEPT ![c] = @ \cup {p}]
      /\ found' = [found EXCEPT ![c] = None]
  BY DEF TakePage
<1>4. \A d \in Caller : found'[d] = None
  BY <1>2, <1>3 DEF IInv, TypeOK
<1>5. OneInside' /\ FoundFirst' /\ FreeAvailable'
  BY <1>3, <1>4 DEF OneInside, FoundFirst, FreeAvailable, IInv
<1>6. OneOwner'
  BY <1>1, <1>3 DEF IInv, OneOwner, TypeOK
<1>7. NoFreePageBelowHint'
  <2>1. 0 .. p \subseteq used \cup {p}
    BY <1>1 DEF IInv, TypeOK, NoFreePageBelowHint, Page
  <2>. QED
    BY <2>1, <1>1, <1>3 DEF NoFreePageBelowHint, Page
<1>8. FreeCounted' /\ free' \in Nat
  <2>1. Page \ used' = (Page \ used) \ {p} /\ p \in Page \ used
    BY <1>1, <1>3
  <2>2. IsFiniteSet(Page \ used)
    BY PageFinite
  <2>3. Cardinality((Page \ used) \ {p}) = Cardinality(Page \ used) - 1
    BY <2>1, <2>2, FS_RemoveElement
  <2>4. Cardinality(Page \ used') = Cardinality(Page \ used) - 1
    BY <2>1, <2>3
  <2>5. Cardinality(Page \ used') \in Nat
    BY PageFinite
  <2>. QED
    BY <2>4, <2>5, <1>3 DEF IInv, TypeOK, FreeCounted, Less
<1>9. /\ kept' \in [Caller -> SUBSET Page]
      /\ base' \in [Caller -> Page]
      /\ left' \in [Caller -> 0 .. StackPages]
      /\ stacks' \in [Caller -> SUBSET Page]
  <2>1. CASE left[c] = 0 /\ UNCHANGED <<kept, base, left, stacks>>
    BY <2>1 DEF IInv, TypeOK
  <2>2. CASE StackPage(c, p)
    <3>1. /\ left' \in [Caller -> 0 .. StackPages]
          /\ base' \in [Caller -> Page]
          /\ kept' \in [Caller -> SUBSET Page]
      BY <2>2, <1>1 DEF StackPage, IInv, TypeOK
    <3>. QED
      BY <3>1, <2>2 DEF StackPage, IInv, TypeOK
  <2>. QED
    BY <2>1, <2>2 DEF TakePage
<1>10. TypeOK'
  <2>1. used' \subseteq Page
    BY <1>1, <1>3 DEF IInv, TypeOK
  <2>2. hint' \in 0 .. MaxPages
    BY <1>1, <1>3 DEF Page
  <2>3. held' \in [Caller -> SUBSET Page] /\ found' \in [Caller -> Page \cup {None}]
    BY <1>1, <1>3 DEF IInv, TypeOK
  <2>. QED
    BY <2>1, <2>2, <2>3, <1>8, <1>9 DEF TypeOK
<1>. QED
  BY <1>5, <1>6, <1>7, <1>8, <1>10 DEF IInv

LEMMA AllocPagesIInv ==
  ASSUME IInv, NEW c \in Caller, NEW n \in Runs, AllocPages(c, n)
  PROVE  IInv'
<1>. USE PhysicalMemoryAssumption
<1>1. PICK p \in Page : /\ Lowest(p, n)
                        /\ used' = used \cup (p .. p + n - 1)
                        /\ held' = [held EXCEPT ![c] = @ \cup (p .. p + n - 1)]
  BY DEF AllocPages
<1>. DEFINE R == p .. p + n - 1
<1>2. R \subseteq Page \ used
  BY <1>1 DEF Lowest, Page
<1>3. /\ \A d \in Caller : found[d] = None
      /\ free' = Less(free, n)
      /\ UNCHANGED <<hint, found, kept, base, left, stacks>>
  BY DEF AllocPages
<1>4. OneInside' /\ FoundFirst'
  BY <1>3 DEF OneInside, FoundFirst
<1>5. FreeAvailable' /\ NoFreePageBelowHint'
  BY <1>1, <1>3 DEF IInv, FreeAvailable, NoFreePageBelowHint
<1>6. OneOwner'
  BY <1>1, <1>2 DEF IInv, OneOwner, FreeAvailable, TypeOK
<1>7. FreeCounted' /\ free' \in Nat
  <2>1. Page \ used' = (Page \ used) \ R /\ (Page \ used) \cap R = R
    BY <1>1, <1>2
  <2>2. Cardinality(R) = n
    BY FS_Interval DEF Page
  <2>3. IsFiniteSet(Page \ used)
    BY PageFinite
  <2>4. Cardinality((Page \ used) \ R)
          = Cardinality(Page \ used) - Cardinality((Page \ used) \cap R)
    BY <2>3, FS_Difference
  <2>5. Cardinality(Page \ used') = Cardinality(Page \ used) - n
    BY <2>1, <2>2, <2>4
  <2>6. Cardinality(Page \ used') \in Nat
    BY PageFinite
  <2>. QED
    BY <2>5, <2>6, <1>3 DEF IInv, TypeOK, FreeCounted, Less
<1>8. TypeOK'
  BY <1>1, <1>2, <1>3, <1>7 DEF IInv, TypeOK
<1>. QED
  BY <1>4, <1>5, <1>6, <1>7, <1>8 DEF IInv

LEMMA FreePageIInv ==
  ASSUME NoPreemption, IInv, NEW c \in Caller, NEW p \in Page, FreePage(c, p)
  PROVE  IInv'
<1>. USE PhysicalMemoryAssumption
<1>1. /\ p \in held[c]
      /\ held' = [held EXCEPT ![c] = @ \ {p}]
      /\ used' = used \ {p}
      /\ UNCHANGED <<found, kept, base, left, stacks>>
  BY DEF FreePage
<1>2. p \in used /\ p \in Available \ Reserved
  BY <1>1 DEF IInv, OneOwner
<1>3. free' = free + 1 /\ hint' = IF p < hint THEN p ELSE hint
  BY <1>2 DEF FreePage, FreedCount, FreedHint
<1>4. \A d \in Caller : found[d] = None
  BY DEF FreePage, Enter, NoPreemption
<1>5. OneInside' /\ FoundFirst'
  BY <1>1, <1>4 DEF OneInside, FoundFirst
<1>6. FreeAvailable' /\ NoFreePageBelowHint'
  BY <1>1, <1>2, <1>3 DEF IInv, TypeOK, FreeAvailable, NoFreePageBelowHint, Page
<1>7. OneOwner'
  BY <1>1 DEF IInv, OneOwner, TypeOK
<1>8. FreeCounted'
  <2>1. Page \ used' = (Page \ used) \cup {p} /\ p \notin Page \ used
    BY <1>1, <1>2
  <2>. QED
    BY <2>1, <1>3, PageFinite, FS_AddElement DEF IInv, FreeCounted
<1>9. TypeOK'
  BY <1>1, <1>3 DEF IInv, TypeOK, Page
<1>. QED
  BY <1>5, <1>6, <1>7, <1>8, <1>9 DEF IInv

LEMMA NextIInv == NoPreemption /\ IInv /\ [Next]_vars => IInv'
<1>. SUFFICES ASSUME NoPreemption, IInv, [Next]_vars PROVE IInv'
  OBVIOUS
<1>1. ASSUME NEW c \in Caller, FindNothing(c) \/ AllocStack(c)
      PROVE  IInv'
  <2>1. UNCHANGED <<used, free, hint, found, held, kept, base, stacks>>
        /\ left' \in [Caller -> 0 .. StackPages]
    BY <1>1, PhysicalMemoryAssumption DEF FindNothing, AllocStack, IInv, TypeOK
  <2>. QED
    BY <2>1 DEF IInv, TypeOK, OneInside, FoundFirst, FreeAvailable, OneOwner, NoFreePageBelowHint, FreeCounted
<1>2. CASE UNCHANGED vars
  BY <1>2 DEF vars, IInv, TypeOK, OneInside, FoundFirst, FreeAvailable, OneOwner, NoFreePageBelowHint, FreeCounted
<1>. QED
  BY <1>1, <1>2, FindPageIInv, TakePageIInv, AllocPagesIInv, FreePageIInv DEF Next

THEOREM Invariance ==
  ASSUME NoPreemption
  PROVE  Spec => []IInv
BY InitIInv, NextIInv, PTL DEF Spec

\* Without preemption, every variable holds a value of its kind: in particular
\* the counter of free pages never goes below zero.
THEOREM TypeCorrect ==
  ASSUME NoPreemption
  PROVE  Spec => []TypeOK
<1>1. IInv => TypeOK
  BY DEF IInv
<1>. QED
  BY <1>1, Invariance, PTL

\* Without preemption, AllocPage and AllocPages never give out a page twice,
\* nor one that is reserved.
THEOREM NoPageGivenTwice ==
  ASSUME NoPreemption
  PROVE  Spec => []OneOwner
<1>1. IInv => OneOwner
  BY DEF IInv
<1>. QED
  BY <1>1, Invariance, PTL

\* Without preemption, the hint of AllocPage hides no free page.
THEOREM HintSound ==
  ASSUME NoPreemption
  PROVE  Spec => []NoFreePageBelowHint
<1>1. IInv => NoFreePageBelowHint
  BY DEF IInv
<1>. QED
  BY <1>1, Invariance, PTL

\* Without preemption, s_free_pages counts the clear bits of the bitmap.
THEOREM CounterExact ==
  ASSUME NoPreemption
  PROVE  Spec => []FreeCounted
<1>1. IInv => FreeCounted
  BY DEF IInv
<1>. QED
  BY <1>1, Invariance, PTL
-----------------------------------------------------------------------------
(***************************************************************************)
(* The entry to the kernel, an instance with constants and variables of    *)
(* its own: the names are those of KernelEntry.                            *)
(***************************************************************************)
\* A context that t may go on with in ring 3.
Proper(t, c) ==
  /\ c \in K!Context
  /\ c.sp = due[t].sp
  /\ c.ip = due[t].ip \/ {due[t].ip, c.ip} \cap Raisers # {}

\* Where an interrupt can come, in the kernel.
Open == {"body", "raised", "start"}

InCall == Open \cup {"yield", "resume", "entered"}

InHandler == {"interrupt", "tick", "iret"}

OnlyUser(t, s) == \E c \in K!Context : Proper(t, c) /\ s = <<K!UserFrame(c)>>

Interrupted(t, s) ==
  \/ OnlyUser(t, s)
  \/ \E c \in K!Context, l \in Open : Proper(t, c) /\ s = <<K!UserFrame(c), K!KernelFrame(l)>>

SwitchedAway(t, s) ==
  \/ \E c \in K!Context, l \in {"tick", "yield", "entered"} :
       Proper(t, c) /\ s = <<K!UserFrame(c), K!SwitchFrame(l)>>
  \/ \E c \in K!Context, l \in Open :
       Proper(t, c) /\ s = <<K!UserFrame(c), K!KernelFrame(l), K!SwitchFrame("tick")>>

(***************************************************************************)
(* The inductive invariant: what is on the kernel stack of a thread at     *)
(* each place it can be at.  Interrupts are off wherever one more frame,   *)
(* or another thread, would break that.                                    *)
(***************************************************************************)
KindsOK ==
  /\ current \in Thread
  /\ pc \in [Thread -> K!Location]
  /\ user \in [Thread -> K!Context]
  /\ stack = [t \in Thread |-> stack[t]]
  /\ iflag \in BOOLEAN
  /\ inService \in BOOLEAN
  /\ scratch \in Thread
  /\ handler \subseteq Raisers
  /\ pending \in Raisers \cup {NULL}
  /\ due \in [Thread -> K!Context]

\* What ScheduleInternal sets goes with the current thread.
SwitchedWhole ==
  /\ rsp0 = current
  /\ gs = current
  /\ space = ProcessOf[current]
  /\ on = [t \in Thread |-> t]

OneRuns == \A t \in Thread : pc[t] = "away" <=> t # current

IfOn == iflag => pc[current] \in {"user"} \cup Open

ScratchOwn == K!Is("entry") => scratch = user[current].sp

InUser(t) == pc[t] \in {"user", "entry", "exit"}

Keeps(t) ==
  /\ InUser(t) => Proper(t, user[t]) /\ stack[t] = <<>>
  /\ pc[t] \in InCall => OnlyUser(t, stack[t])
  /\ pc[t] \in InHandler => Interrupted(t, stack[t])
  /\ pc[t] = "away" => SwitchedAway(t, stack[t])

EntryIInv ==
  /\ KindsOK
  /\ SwitchedWhole
  /\ OneRuns
  /\ IfOn
  /\ ScratchOwn
  /\ \A t \in Thread : Keeps(t)

-----------------------------------------------------------------------------
(* Stacks of up to three frames.                                           *)

LEMMA Pushes ==
  ASSUME NEW a, NEW b, NEW c
  PROVE  /\ Append(<<>>, a) = <<a>>
         /\ Append(<<a>>, b) = <<a, b>>
         /\ Append(<<a, b>>, c) = <<a, b, c>>
<1> DEFINE S == {a, b, c}
           two == Append(<<a>>, b)
           three == Append(<<a, b>>, c)
<1>1. Append(<<>>, a) = <<a>>
  OBVIOUS
<1>2. <<a>> \in Seq(S) /\ <<a, b>> \in Seq(S) /\ <<a, b, c>> \in Seq(S) /\ b \in S /\ c \in S
  OBVIOUS
<1>3. two \in Seq(S) /\ Len(two) = 2 /\ two[1] = a /\ two[2] = b
  BY <1>2
<1>4. three \in Seq(S) /\ Len(three) = 3 /\ three[1] = a /\ three[2] = b /\ three[3] = c
  BY <1>2
<1> HIDE DEF S, two, three
<1>5. \A i \in 1 .. Len(two) : two[i] = <<a, b>>[i]
  BY <1>3
<1>6. \A i \in 1 .. Len(three) : three[i] = <<a, b, c>>[i]
  BY <1>4
<1>7. two = <<a, b>>
  BY <1>2, <1>3, <1>5, SeqEqual
<1>8. three = <<a, b, c>>
  BY <1>2, <1>4, <1>6, SeqEqual
<1>. QED
  BY <1>1, <1>7, <1>8 DEF two, three

LEMMA Pops ==
  ASSUME NEW a, NEW b
  PROVE  /\ K!Top(<<a>>) = a /\ K!Below(<<a>>) = <<>>
         /\ K!Top(<<a, b>>) = b /\ K!Below(<<a, b>>) = <<a>>
<1> DEFINE S == {a, b}
           one == SubSeq(<<a, b>>, 1, 1)
<1>1. K!Top(<<a>>) = a /\ K!Top(<<a, b>>) = b
  BY DEF K!Top
<1>2. K!Below(<<a>>) = <<>> /\ K!Below(<<a, b>>) = one
  BY SubSeqEmpty DEF K!Below
<1>3. <<a>> \in Seq(S) /\ <<a, b>> \in Seq(S)
  OBVIOUS
<1>4. one \in Seq(S) /\ Len(one) = 1 /\ one[1] = a
  BY <1>3, SubSeqProperties
<1> HIDE DEF S, one
<1>5. \A i \in 1 .. Len(one) : one[i] = <<a>>[i]
  BY <1>4
<1>6. one = <<a>>
  BY <1>3, <1>4, <1>5, SeqEqual
<1>. QED
  BY <1>1, <1>2, <1>6

LEMMA PopsThird ==
  ASSUME NEW a, NEW b, NEW c
  PROVE  K!Top(<<a, b, c>>) = c /\ K!Below(<<a, b, c>>) = <<a, b>>
<1> DEFINE S == {a, b, c}
           two == SubSeq(<<a, b, c>>, 1, 2)
<1>1. K!Top(<<a, b, c>>) = c
  BY DEF K!Top
<1>2. K!Below(<<a, b, c>>) = two
  BY DEF K!Below
<1>3. <<a, b>> \in Seq(S) /\ <<a, b, c>> \in Seq(S)
  OBVIOUS
<1>4. two \in Seq(S) /\ Len(two) = 2 /\ two[1] = a /\ two[2] = b
  BY <1>3, SubSeqProperties
<1> HIDE DEF S, two
<1>5. \A i \in 1 .. Len(two) : two[i] = <<a, b>>[i]
  BY <1>4
<1>6. two = <<a, b>>
  BY <1>3, <1>4, <1>5, SeqEqual
<1>. QED
  BY <1>1, <1>2, <1>6

LEMMA FrameFields ==
  ASSUME NEW c, NEW l
  PROVE  /\ K!UserFrame(c).kind = "user" /\ K!UserFrame(c).context = c
         /\ K!KernelFrame(l).kind # "user" /\ K!KernelFrame(l).at = l
         /\ K!SwitchFrame(l).at = l
BY DEF K!UserFrame, K!KernelFrame, K!SwitchFrame

\* A thread that a step leaves alone keeps what it has.
LEMMA OthersKeep ==
  ASSUME NEW t \in Thread, Keeps(t), pc'[t] = pc[t], user'[t] = user[t], stack'[t] = stack[t],
         due'[t] = due[t]
  PROVE  Keeps(t)'
BY DEF Keeps, InUser, Proper, OnlyUser, Interrupted, SwitchedAway

-----------------------------------------------------------------------------
LEMMA InitEntryIInv ==
  ASSUME K!KernelEntryAssumption, K!Init
  PROVE  EntryIInv
<1>1. PICK first \in Thread, p \in Place :
        /\ current = first
        /\ pc = [t \in Thread |-> IF t = first THEN "user" ELSE "away"]
        /\ user = [t \in Thread |-> [sp |-> t, ip |-> p]]
        /\ on = [t \in Thread |-> t]
        /\ stack = [t \in Thread |-> IF t = first THEN <<>> ELSE K!NewStack(user[t])]
        /\ iflag = TRUE
        /\ inService = FALSE
        /\ rsp0 = first
        /\ scratch = first
        /\ space = ProcessOf[first]
        /\ gs = first
        /\ handler = {}
        /\ pending = NULL
        /\ due = user
  BY DEF K!Init
<1>2. \A t \in Thread : user[t] \in K!Context /\ Proper(t, user[t])
  BY <1>1 DEF K!Context, Proper
<1>3. KindsOK
  BY <1>1, <1>2 DEF KindsOK, K!Location
<1>4. SwitchedWhole /\ OneRuns /\ IfOn /\ ScratchOwn
  BY <1>1 DEF SwitchedWhole, OneRuns, IfOn, ScratchOwn, K!Is
<1>5. ASSUME NEW t \in Thread
      PROVE  Keeps(t)
  <2>1. CASE t = first
    BY <1>1, <1>2, <2>1 DEF Keeps, InUser, InCall, Open, InHandler
  <2>2. CASE t # first
    <3>1. pc[t] = "away" /\ stack[t] = <<K!UserFrame(user[t]), K!SwitchFrame("entered")>>
      BY <1>1, <2>2 DEF K!NewStack
    <3>. QED
      BY <1>2, <3>1 DEF Keeps, InUser, InCall, Open, InHandler, SwitchedAway
  <2>. QED
    BY <2>1, <2>2
<1>. QED
  BY <1>3, <1>4, <1>5 DEF EntryIInv

(***************************************************************************)
(* A step of the current thread, after which it is at l, with the context  *)
(* c, the stack s, and d due.                                              *)
(***************************************************************************)
LEMMA OwnStep ==
  ASSUME EntryIInv, NEW t \in Thread, t = current,
         NEW l \in K!Location \ {"away"}, NEW c \in K!Context, NEW s, NEW d \in K!Context,
         pc' = [pc EXCEPT ![t] = l],
         user' = [user EXCEPT ![t] = c],
         stack' = [stack EXCEPT ![t] = s],
         due' = [due EXCEPT ![t] = d],
         UNCHANGED <<current, rsp0, space, gs, on>>,
         iflag' \in BOOLEAN, inService' \in BOOLEAN, scratch' \in Thread,
         handler' \subseteq Raisers, pending' \in Raisers \cup {NULL},
         iflag' => l \in {"user"} \cup Open,
         l = "entry" => scratch' = c.sp,
         Keeps(t)'
  PROVE  EntryIInv'
<1>1. KindsOK'
  BY DEF EntryIInv, KindsOK
<1>2. SwitchedWhole'
  BY DEF EntryIInv, SwitchedWhole
<1>3. pc'[t] = l /\ user'[t] = c
  BY DEF EntryIInv, KindsOK
<1>4. OneRuns'
  BY DEF EntryIInv, KindsOK, OneRuns
<1>5. IfOn' /\ ScratchOwn'
  BY <1>3 DEF IfOn, ScratchOwn, K!Is
<1>6. ASSUME NEW u \in Thread, u # t
      PROVE  Keeps(u)'
  BY <1>6, OthersKeep DEF EntryIInv, KindsOK
<1>. QED
  BY <1>1, <1>2, <1>4, <1>5, <1>6 DEF EntryIInv

\* What is known of the thread that runs.
LEMMA Here ==
  ASSUME K!KernelEntryAssumption, EntryIInv
  PROVE  /\ current \in Thread /\ rsp0 = current /\ on[current] = current
         /\ on = [on EXCEPT ![current] = current]
         /\ pc[current] \in K!Location \ {"away"} /\ pc \in [Thread -> K!Location]
         /\ user[current] \in K!Context /\ user \in [Thread -> K!Context]
         /\ due[current] \in K!Context /\ due \in [Thread -> K!Context]
         /\ stack = [t \in Thread |-> stack[t]] /\ stack = [stack EXCEPT ![current] = stack[current]]
         /\ pc = [pc EXCEPT ![current] = pc[current]]
         /\ user = [user EXCEPT ![current] = user[current]]
         /\ due = [due EXCEPT ![current] = due[current]]
         /\ Keeps(current)
         /\ scratch \in Thread /\ inService \in BOOLEAN /\ iflag \in BOOLEAN
         /\ handler \subseteq Raisers /\ pending \in Raisers \cup {NULL}
         /\ Raisers \subseteq Thread
<1>1. KindsOK /\ SwitchedWhole /\ OneRuns
  BY DEF EntryIInv
<1>2. stack = [t \in Thread |-> stack[t]] /\ stack = [stack EXCEPT ![current] = stack[current]]
  BY <1>1 DEF KindsOK
<1>3. /\ pc = [pc EXCEPT ![current] = pc[current]]
      /\ user = [user EXCEPT ![current] = user[current]]
      /\ due = [due EXCEPT ![current] = due[current]]
  BY <1>1 DEF KindsOK
<1>4. on[current] = current /\ on = [on EXCEPT ![current] = current]
  BY <1>1 DEF KindsOK, SwitchedWhole
<1>5. Raisers \subseteq Thread
  BY DEF K!KernelEntryAssumption
<1>. QED
  BY <1>1, <1>2, <1>3, <1>4, <1>5 DEF EntryIInv, KindsOK, SwitchedWhole, OneRuns

-----------------------------------------------------------------------------
(* Ring 3.                                                                 *)

LEMMA UserStepKeeps ==
  ASSUME K!KernelEntryAssumption, EntryIInv, K!UserStep
  PROVE  EntryIInv'
<1>1. PICK p \in Place : /\ user' = [user EXCEPT ![current].ip = p]
                         /\ due' = [due EXCEPT ![current] = user'[current]]
  BY DEF K!UserStep
<1> DEFINE c == [user[current] EXCEPT !.ip = p]
<1>2. c \in K!Context
  BY Here DEF K!Context
<1>3. user' = [user EXCEPT ![current] = c] /\ due' = [due EXCEPT ![current] = c]
  BY <1>1, Here
<1> HIDE DEF c
<1>4. pc[current] = "user" /\ stack[current] = <<>>
  BY Here DEF K!UserStep, K!Is, Keeps, InUser
<1>5. UNCHANGED <<K!switched, pc, on, stack, K!cpu, scratch, K!delivery>>
  BY DEF K!UserStep
<1>6. Keeps(current)'
  <2>1. pc'[current'] = "user" /\ user'[current'] = c /\ due'[current'] = c /\ stack'[current'] = <<>>
    BY <1>3, <1>4, <1>5, Here DEF K!switched
  <2>. QED
    BY <1>2, <2>1 DEF Keeps, InUser, Proper, InCall, Open, InHandler
<1>7. /\ pc' = [pc EXCEPT ![current] = "user"] /\ stack' = [stack EXCEPT ![current] = <<>>]
      /\ UNCHANGED <<current, rsp0, space, gs, on>>
  BY <1>4, <1>5, Here DEF K!switched
<1>8. /\ iflag' \in BOOLEAN /\ inService' \in BOOLEAN /\ scratch' \in Thread
      /\ handler' \subseteq Raisers /\ pending' \in Raisers \cup {NULL}
  BY <1>5, Here DEF K!cpu, K!delivery
<1>9. current \in Thread /\ "user" \in K!Location \ {"away"}
  BY <1>4, Here
<1>. QED
  BY <1>2, <1>3, <1>6, <1>7, <1>8, <1>9, OwnStep

LEMMA FaultKeeps ==
  ASSUME K!KernelEntryAssumption, EntryIInv, K!Fault
  PROVE  EntryIInv'
<1> DEFINE c == [user[current] EXCEPT !.ip = current]
           d == [due[current] EXCEPT !.ip = current]
<1>1. pc[current] = "user" /\ Proper(current, user[current]) /\ stack[current] = <<>>
  BY Here DEF K!Fault, K!Is, Keeps, InUser
<1>2. c \in K!Context /\ d \in K!Context /\ c.ip = d.ip /\ c.sp = d.sp
  BY <1>1, Here DEF K!Context, Proper
<1>3. user' = [user EXCEPT ![current] = c] /\ due' = [due EXCEPT ![current] = d]
  BY Here DEF K!Fault
<1> HIDE DEF c, d
<1>4. /\ stack' = [stack EXCEPT ![current] = <<>>] /\ on' = on
      /\ handler' \subseteq Raisers
      /\ UNCHANGED <<K!switched, pc, K!cpu, scratch, pending>>
  BY Here DEF K!Fault
<1>5. Keeps(current)'
  <2>1. pc'[current'] = "user" /\ user'[current'] = c /\ due'[current'] = d /\ stack'[current'] = <<>>
    BY <1>1, <1>3, <1>4, Here DEF K!switched
  <2>. QED
    BY <1>2, <2>1 DEF Keeps, InUser, Proper, InCall, Open, InHandler
<1>. QED
  BY <1>1, <1>2, <1>3, <1>4, <1>5, Here, OwnStep DEF K!switched, K!cpu

-----------------------------------------------------------------------------
(* System calls.                                                           *)

LEMMA SyscallKeeps ==
  ASSUME K!KernelEntryAssumption, EntryIInv, K!Syscall
  PROVE  EntryIInv'
<1>1. pc[current] = "user" /\ Proper(current, user[current])
  BY Here DEF K!Syscall, K!Is, Keeps, InUser
<1>2. /\ pc' = [pc EXCEPT ![current] = "entry"] /\ "entry" \in K!Location \ {"away"}
      /\ stack' = [stack EXCEPT ![current] = <<>>] /\ on' = on
      /\ scratch' = user[current].sp /\ scratch' \in Thread /\ iflag' = FALSE
      /\ UNCHANGED <<K!switched, user, inService, K!delivery, due>>
  BY Here DEF K!Syscall, K!Go, K!OnKernelStack, K!Entered, K!Location, K!Context
<1>3. Keeps(current)'
  <2>1. /\ pc'[current'] = "entry" /\ user'[current'] = user[current]
        /\ due'[current'] = due[current] /\ stack'[current'] = <<>>
    BY <1>2, Here DEF K!switched
  <2>. QED
    BY <1>1, <2>1 DEF Keeps, InUser, Proper, InCall, Open, InHandler
<1>. QED
  BY <1>2, <1>3, Here, OwnStep DEF K!switched, K!delivery

LEMMA PushUserKeeps ==
  ASSUME K!KernelEntryAssumption, EntryIInv, K!PushUser
  PROVE  EntryIInv'
<1> DEFINE s == <<K!UserFrame(user[current])>>
<1>1. /\ pc[current] = "entry" /\ Proper(current, user[current]) /\ stack[current] = <<>>
      /\ scratch = user[current].sp
  BY Here DEF K!PushUser, K!Is, Keeps, InUser, EntryIInv, ScratchOwn
<1>2. [user[current] EXCEPT !.sp = scratch] = user[current]
  BY <1>1, Here DEF K!Context
<1>3. stack' = [stack EXCEPT ![current] = s]
  <2>1. Append(stack[current], K!UserFrame(user[current])) = s
    BY <1>1, Pushes
  <2>2. stack' = [stack EXCEPT ![current] = Append(stack[current], K!UserFrame(user[current]))]
    BY <1>2, Here DEF K!PushUser, K!Push
  <2>. QED
    BY <2>1, <2>2
<1>4. /\ pc' = [pc EXCEPT ![current] = "body"] /\ "body" \in K!Location \ {"away"}
      /\ iflag' = TRUE
      /\ UNCHANGED <<K!switched, user, on, inService, scratch, K!delivery, due>>
  BY DEF K!PushUser, K!Go, K!Location
<1>5. Keeps(current)'
  <2>1. /\ pc'[current'] = "body" /\ due'[current'] = due[current] /\ stack'[current'] = s
    BY <1>3, <1>4, Here DEF K!switched
  <2>2. OnlyUser(current, stack[current])'
    BY <1>1, <2>1, Here DEF OnlyUser, Proper
  <2>. QED
    BY <2>1, <2>2 DEF Keeps, InUser, InHandler
<1> HIDE DEF s
<1>. QED
  BY <1>3, <1>4, <1>5, Here, OwnStep DEF K!switched, K!delivery, Open

\* A step that moves the thread from one place to another with its stack and
\* context as they are.
LEMMA GoKeeps ==
  ASSUME K!KernelEntryAssumption, EntryIInv, NEW l \in K!Location \ {"away"}, K!Go(l),
         UNCHANGED <<K!switched, user, on, stack, scratch>>,
         due' = due \/ (current \in Raisers /\ due' = [due EXCEPT ![current].ip = current]),
         iflag' \in BOOLEAN, inService' \in BOOLEAN,
         handler' \subseteq Raisers, pending' \in Raisers \cup {NULL},
         iflag' => l \in {"user"} \cup Open,
         \/ pc[current] \in InCall /\ l \in InCall
         \/ pc[current] \in InHandler /\ l \in InHandler
  PROVE  EntryIInv'
<1> DEFINE d == due'[current]
<1>1. d \in K!Context /\ due' = [due EXCEPT ![current] = d]
  BY Here DEF K!Context
<1> HIDE DEF d
<1>2. l # "entry" /\ pc' = [pc EXCEPT ![current] = l]
  BY DEF K!Go, InCall, Open, InHandler
<1>3. /\ pc'[current'] = l /\ stack'[current'] = stack[current] /\ current' = current
      /\ \A c : Proper(current, c) => Proper(current, c)'
  BY <1>2, Here DEF K!switched, Proper, K!Context
<1>4. Keeps(current)'
  <2>1. CASE pc[current] \in InCall /\ l \in InCall
    <3>1. OnlyUser(current, stack[current])'
      BY <1>3, <2>1, Here DEF Keeps, OnlyUser
    <3>. QED
      BY <1>3, <2>1, <3>1 DEF Keeps, InUser, InCall, Open, InHandler
  <2>2. CASE pc[current] \in InHandler /\ l \in InHandler
    <3>1. Interrupted(current, stack[current])'
      BY <1>3, <2>2, Here DEF Keeps, Interrupted, OnlyUser
    <3>. QED
      BY <1>3, <2>2, <3>1 DEF Keeps, InUser, InCall, Open, InHandler
  <2>. QED
    BY <2>1, <2>2
<1>. QED
  BY <1>1, <1>2, <1>4, Here, OwnStep DEF K!switched

LEMMA SetHandlerKeeps ==
  ASSUME K!KernelEntryAssumption, EntryIInv, K!SetHandler
  PROVE  EntryIInv'
<1>1. /\ pc[current] = "body" /\ K!Go("body") /\ "body" \in K!Location \ {"away"}
      /\ handler' \subseteq Raisers
      /\ UNCHANGED <<K!switched, pc, user, on, stack, K!cpu, scratch, pending, due>>
  BY Here DEF K!SetHandler, K!Is, K!Go, K!Location
<1>. QED
  BY <1>1, Here, GoKeeps DEF K!cpu, InCall, Open

LEMMA RaiseExceptionKeeps ==
  ASSUME K!KernelEntryAssumption, EntryIInv, K!RaiseException
  PROVE  EntryIInv'
<1>1. /\ pc[current] = "body" /\ K!Go("raised") /\ "raised" \in K!Location \ {"away"}
      /\ current \in Raisers /\ pending' = current
      /\ due' = [due EXCEPT ![current].ip = current]
      /\ UNCHANGED <<K!switched, user, on, stack, K!cpu, scratch, handler>>
  BY DEF K!RaiseException, K!Is, K!Location
<1>. QED
  BY <1>1, Here, GoKeeps DEF K!cpu, InCall, Open

\* The context comes back from the stack as it went there.
LEMMA PopUserKeeps ==
  ASSUME K!KernelEntryAssumption, EntryIInv, K!PopUser
  PROVE  EntryIInv'
<1>1. pc[current] \in {"body", "raised"}
  BY DEF K!PopUser, K!Is
<1>2. PICK c \in K!Context : Proper(current, c) /\ stack[current] = <<K!UserFrame(c)>>
  BY <1>1, Here DEF Keeps, InCall, Open, OnlyUser
<1>3. /\ user' = [user EXCEPT ![current] = c]
      /\ stack' = [stack EXCEPT ![current] = <<>>]
  <2>1. K!TopFrame = K!UserFrame(c) /\ K!Below(stack[current]) = <<>>
    BY <1>2, Here, Pops DEF K!TopFrame
  <2>. QED
    BY <2>1, Here, FrameFields DEF K!PopUser, K!Discard
<1>4. /\ pc' = [pc EXCEPT ![current] = "exit"] /\ "exit" \in K!Location \ {"away"}
      /\ iflag' = FALSE
      /\ UNCHANGED <<K!switched, on, inService, scratch, K!delivery, due>>
  BY DEF K!PopUser, K!Go, K!Location
<1>5. Keeps(current)'
  <2>1. /\ pc'[current'] = "exit" /\ user'[current'] = c
        /\ due'[current'] = due[current] /\ stack'[current'] = <<>>
    BY <1>3, <1>4, Here DEF K!switched
  <2>. QED
    BY <1>2, <2>1 DEF Keeps, InUser, Proper, InCall, Open, InHandler
<1>. QED
  BY <1>3, <1>4, <1>5, Here, OwnStep DEF K!switched, K!delivery

\* Another thread's handler can only be one that NtRaiseException left.
LEMMA SysretKeeps ==
  ASSUME K!KernelEntryAssumption, EntryIInv, K!Sysret
  PROVE  EntryIInv'
<1> DEFINE c == IF pending = NULL THEN user[current] ELSE [user[current] EXCEPT !.ip = pending]
<1>1. pc[current] = "exit" /\ Proper(current, user[current]) /\ stack[current] = <<>>
  BY Here DEF K!Sysret, K!Is, Keeps, InUser
<1>2. c \in K!Context /\ Proper(current, c)
  <2>1. CASE pending = NULL
    BY <1>1, <2>1, Here
  <2>2. CASE pending # NULL
    <3>1. pending \in Raisers /\ pending \in Thread
      BY <2>2, Here
    <3>. QED
      BY <1>1, <2>2, <3>1, Here DEF K!Context, Proper
  <2>. QED
    BY <2>1, <2>2
<1>3. user' = [user EXCEPT ![current] = c]
  BY Here DEF K!Sysret
<1> HIDE DEF c
<1>4. /\ pc' = [pc EXCEPT ![current] = "user"] /\ "user" \in K!Location \ {"away"}
      /\ pending' = NULL /\ iflag' = TRUE
      /\ UNCHANGED <<K!switched, on, stack, inService, scratch, handler, due>>
  BY DEF K!Sysret, K!Go, K!Location
<1>5. Keeps(current)'
  <2>1. /\ pc'[current'] = "user" /\ user'[current'] = c
        /\ due'[current'] = due[current] /\ stack'[current'] = <<>>
    BY <1>1, <1>3, <1>4, Here DEF K!switched
  <2>. QED
    BY <1>2, <2>1 DEF Keeps, InUser, Proper, InCall, Open, InHandler
<1>. QED
  BY <1>2, <1>3, <1>4, <1>5, Here, OwnStep DEF K!switched

-----------------------------------------------------------------------------
(* The timer interrupt.                                                    *)

LEMMA InterruptKeeps ==
  ASSUME K!KernelEntryAssumption, EntryIInv, K!Interrupt
  PROVE  EntryIInv'
<1> DEFINE s == IF K!Is("user") THEN <<K!UserFrame(user[current])>>
                ELSE Append(stack[current], K!KernelFrame(pc[current]))
<1>1. /\ stack' = [stack EXCEPT ![current] = s] /\ on' = on
      /\ pc' = [pc EXCEPT ![current] = "interrupt"] /\ "interrupt" \in K!Location \ {"away"}
      /\ iflag' = FALSE /\ inService' = TRUE
      /\ UNCHANGED <<K!switched, user, scratch, K!delivery, due>>
  BY Here DEF K!Interrupt, K!Go, K!Gate, K!OnKernelStack, K!Push, K!Location
<1>2. Interrupted(current, s)
  <2>1. CASE pc[current] = "user"
    BY <2>1, Here DEF K!Is, Keeps, InUser, Interrupted, OnlyUser
  <2>2. CASE pc[current] # "user"
    <3>1. pc[current] \in Open
      BY <2>2 DEF K!Interrupt, EntryIInv, IfOn
    <3>2. PICK c \in K!Context : Proper(current, c) /\ stack[current] = <<K!UserFrame(c)>>
      BY <3>1, Here DEF Keeps, InCall, OnlyUser
    <3>3. s = <<K!UserFrame(c), K!KernelFrame(pc[current])>>
      BY <2>2, <3>2, Pushes DEF K!Is
    <3>. QED
      BY <3>1, <3>2, <3>3 DEF Interrupted
  <2>. QED
    BY <2>1, <2>2
<1> HIDE DEF s
<1>3. Keeps(current)'
  <2>1. pc'[current'] = "interrupt" /\ stack'[current'] = s /\ current' = current /\ due' = due
    BY <1>1, Here DEF K!switched
  <2>2. Interrupted(current, stack[current])'
    BY <1>2, <2>1 DEF Interrupted, OnlyUser, Proper
  <2>. QED
    BY <2>1, <2>2 DEF Keeps, InUser, InCall, Open
<1>. QED
  BY <1>1, <1>3, Here, OwnStep DEF K!switched, K!delivery

LEMMA DispatchKeeps ==
  ASSUME K!KernelEntryAssumption, EntryIInv, K!Dispatch
  PROVE  EntryIInv'
<1>1. /\ pc[current] = "interrupt" /\ K!Go("tick") /\ "tick" \in K!Location \ {"away"}
      /\ inService' = FALSE
      /\ UNCHANGED <<K!switched, user, on, stack, iflag, scratch, K!delivery, due>>
  BY DEF K!Dispatch, K!Is, K!Eoi, K!Location
<1>2. ~iflag
  BY <1>1 DEF EntryIInv, IfOn, Open
<1>. QED
  BY <1>1, <1>2, Here, GoKeeps DEF K!delivery, InHandler

\* iretq finds what the interrupt pushed.
LEMMA IretKeeps ==
  ASSUME K!KernelEntryAssumption, EntryIInv, K!Iret
  PROVE  EntryIInv'
<1>1. pc[current] \in {"iret", "start"}
  BY DEF K!Iret, K!Is
<1>2. Interrupted(current, stack[current])
  BY <1>1, Here DEF Keeps, InCall, Open, InHandler, Interrupted
<1>3. /\ iflag' = TRUE
      /\ UNCHANGED <<K!switched, on, inService, scratch, K!delivery, due>>
  BY DEF K!Iret
<1>4. CASE OnlyUser(current, stack[current])
  <2>1. PICK c \in K!Context : Proper(current, c) /\ stack[current] = <<K!UserFrame(c)>>
    BY <1>4 DEF OnlyUser
  <2>2. K!TopFrame = K!UserFrame(c) /\ K!Below(stack[current]) = <<>>
    BY <2>1, Here, Pops DEF K!TopFrame
  <2>3. /\ user' = [user EXCEPT ![current] = c] /\ stack' = [stack EXCEPT ![current] = <<>>]
        /\ pc' = [pc EXCEPT ![current] = "user"] /\ "user" \in K!Location \ {"away"}
    BY <2>2, Here, FrameFields DEF K!Iret, K!Discard, K!Go, K!Location
  <2>4. Keeps(current)'
    <3>1. /\ pc'[current'] = "user" /\ user'[current'] = c
          /\ due'[current'] = due[current] /\ stack'[current'] = <<>>
      BY <1>3, <2>3, Here DEF K!switched
    <3>. QED
      BY <2>1, <3>1 DEF Keeps, InUser, Proper, InCall, Open, InHandler
  <2>. QED
    BY <1>3, <2>3, <2>4, Here, OwnStep DEF K!switched, K!delivery
<1>5. ASSUME NEW c \in K!Context, NEW l \in Open, Proper(current, c),
             stack[current] = <<K!UserFrame(c), K!KernelFrame(l)>>
      PROVE  EntryIInv'
  <2> DEFINE s == <<K!UserFrame(c)>>
  <2>1. K!TopFrame = K!KernelFrame(l) /\ K!Below(stack[current]) = s
    <3>1. /\ K!Top(<<K!UserFrame(c), K!KernelFrame(l)>>) = K!KernelFrame(l)
          /\ K!Below(<<K!UserFrame(c), K!KernelFrame(l)>>) = <<K!UserFrame(c)>>
      BY Pops
    <3>2. K!TopFrame = K!Top(stack[current])
      BY Here DEF K!TopFrame
    <3>. QED
      BY <1>5, <3>1, <3>2
  <2>2. /\ user' = user /\ stack' = [stack EXCEPT ![current] = s]
        /\ pc' = [pc EXCEPT ![current] = l] /\ l \in K!Location \ {"away"} /\ l # "entry"
    BY <2>1, Here, FrameFields DEF K!Iret, K!Discard, K!Go, K!Location, Open
  <2>3. Keeps(current)'
    <3>1. /\ pc'[current'] = l /\ due'[current'] = due[current] /\ stack'[current'] = s
      BY <1>3, <2>2, Here DEF K!switched
    <3>2. OnlyUser(current, stack[current])'
      BY <1>5, <3>1 DEF OnlyUser, Proper
    <3>. QED
      BY <3>1, <3>2 DEF Keeps, InUser, Open, InHandler
  <2> HIDE DEF s
  <2>. QED
    BY <1>3, <2>2, <2>3, Here, OwnStep DEF K!switched, K!delivery
<1>. QED
  BY <1>2, <1>4, <1>5 DEF Interrupted

-----------------------------------------------------------------------------
(* Giving the processor up, and getting it back.                           *)

LEMMA YieldKeeps ==
  ASSUME K!KernelEntryAssumption, EntryIInv, K!Yield
  PROVE  EntryIInv'
<1>1. /\ pc[current] = "body" /\ K!Go("yield") /\ "yield" \in K!Location \ {"away"}
      /\ iflag' = FALSE
      /\ UNCHANGED <<K!switched, user, on, stack, inService, scratch, K!delivery, due>>
  BY DEF K!Yield, K!Is, K!Location
<1>. QED
  BY <1>1, Here, GoKeeps DEF K!delivery, InCall, Open

LEMMA StayKeeps ==
  ASSUME K!KernelEntryAssumption, EntryIInv, K!Stay
  PROVE  EntryIInv'
<1>1. /\ pc[current] \in {"tick", "yield"} /\ K!Go(K!Returned(pc[current]))
      /\ UNCHANGED <<K!switched, user, on, stack, K!cpu, scratch, K!delivery, due>>
  BY DEF K!Stay, K!Is
<1>2. ~iflag
  BY <1>1 DEF EntryIInv, IfOn, Open
<1>3. CASE pc[current] = "tick"
  <2>1. K!Go("iret") /\ "iret" \in K!Location \ {"away"}
    BY <1>1, <1>3 DEF K!Returned, K!Location
  <2>. QED
    BY <1>1, <1>2, <1>3, <2>1, Here, GoKeeps DEF K!delivery, K!cpu, InHandler
<1>4. CASE pc[current] = "yield"
  <2>1. K!Go("resume") /\ "resume" \in K!Location \ {"away"}
    BY <1>1, <1>4 DEF K!Returned, K!Location
  <2>. QED
    BY <1>1, <1>2, <1>4, <2>1, Here, GoKeeps DEF K!delivery, K!cpu, InCall
<1>. QED
  BY <1>1, <1>3, <1>4

LEMMA ResumeKeeps ==
  ASSUME K!KernelEntryAssumption, EntryIInv, K!Resume
  PROVE  EntryIInv'
<1>1. /\ pc[current] = "resume" /\ K!Go("body") /\ "body" \in K!Location \ {"away"}
      /\ iflag' = TRUE
      /\ UNCHANGED <<K!switched, user, on, stack, inService, scratch, K!delivery, due>>
  BY DEF K!Resume, K!Is, K!Location
<1>. QED
  BY <1>1, Here, GoKeeps DEF K!delivery, InCall, Open

LEMMA UserThreadEntryKeeps ==
  ASSUME K!KernelEntryAssumption, EntryIInv, K!UserThreadEntry
  PROVE  EntryIInv'
<1>1. /\ pc[current] = "entered" /\ K!Go("start") /\ "start" \in K!Location \ {"away"}
      /\ iflag' = TRUE
      /\ UNCHANGED <<K!switched, user, on, stack, inService, scratch, K!delivery, due>>
  BY DEF K!UserThreadEntry, K!Is, K!Location
<1>. QED
  BY <1>1, Here, GoKeeps DEF K!delivery, InCall, Open

\* The place of the thread switched away is on top of what it had.
LEMMA LeavesPlace ==
  ASSUME K!KernelEntryAssumption, EntryIInv, pc[current] \in {"tick", "yield"}
  PROVE  SwitchedAway(current, Append(stack[current], K!SwitchFrame(pc[current])))
<1> DEFINE l == pc[current]
<1>1. CASE OnlyUser(current, stack[current])
  <2>1. PICK c \in K!Context : Proper(current, c) /\ stack[current] = <<K!UserFrame(c)>>
    BY <1>1 DEF OnlyUser
  <2>2. Append(stack[current], K!SwitchFrame(l)) = <<K!UserFrame(c), K!SwitchFrame(l)>>
    BY <2>1, Pushes
  <2>. QED
    BY <2>1, <2>2 DEF SwitchedAway
<1>2. CASE pc[current] = "tick" /\ ~OnlyUser(current, stack[current])
  <2>1. PICK c \in K!Context, k \in Open :
          Proper(current, c) /\ stack[current] = <<K!UserFrame(c), K!KernelFrame(k)>>
    BY <1>2, Here DEF Keeps, InHandler, Interrupted
  <2>2. /\ Append(<<K!UserFrame(c), K!KernelFrame(k)>>, K!SwitchFrame("tick"))
             = <<K!UserFrame(c), K!KernelFrame(k), K!SwitchFrame("tick")>>
    BY Pushes
  <2>3. Append(stack[current], K!SwitchFrame(l))
          = <<K!UserFrame(c), K!KernelFrame(k), K!SwitchFrame("tick")>>
    BY <1>2, <2>1, <2>2
  <2>. QED
    BY <2>1, <2>3 DEF SwitchedAway
<1>3. pc[current] = "yield" => OnlyUser(current, stack[current])
  BY Here DEF Keeps, InCall
<1>. QED
  BY <1>1, <1>2, <1>3

\* A thread that is switched to finds what it had when it was switched away.
LEMMA FindsPlace ==
  ASSUME NEW t, NEW s, SwitchedAway(t, s)
  PROVE  \E l \in {"tick", "yield", "entered"} :
           /\ K!Top(s).at = l
           /\ IF l = "tick" THEN Interrupted(t, K!Below(s)) ELSE OnlyUser(t, K!Below(s))
<1>1. ASSUME NEW c \in K!Context, NEW l \in {"tick", "yield", "entered"},
             Proper(t, c), s = <<K!UserFrame(c), K!SwitchFrame(l)>>
      PROVE  K!Top(s).at = l /\ OnlyUser(t, K!Below(s))
  <2>1. /\ K!Top(<<K!UserFrame(c), K!SwitchFrame(l)>>) = K!SwitchFrame(l)
        /\ K!Below(<<K!UserFrame(c), K!SwitchFrame(l)>>) = <<K!UserFrame(c)>>
    BY Pops
  <2>2. K!Top(s) = K!SwitchFrame(l) /\ K!Below(s) = <<K!UserFrame(c)>>
    BY <1>1, <2>1
  <2>. QED
    BY <1>1, <2>2, FrameFields DEF OnlyUser
<1>2. ASSUME NEW c \in K!Context, NEW k \in Open,
             Proper(t, c), s = <<K!UserFrame(c), K!KernelFrame(k), K!SwitchFrame("tick")>>
      PROVE  K!Top(s).at = "tick" /\ Interrupted(t, K!Below(s))
  <2>1. PICK u, f, g : u = K!UserFrame(c) /\ f = K!KernelFrame(k) /\ g = K!SwitchFrame("tick")
    OBVIOUS
  <2>2. K!Top(<<u, f, g>>) = g /\ K!Below(<<u, f, g>>) = <<u, f>>
    BY PopsThird
  <2>3. s = <<u, f, g>>
    BY <1>2, <2>1
  <2>4. K!Top(s) = K!SwitchFrame("tick") /\ K!Below(s) = <<K!UserFrame(c), K!KernelFrame(k)>>
    BY <2>1, <2>2, <2>3
  <2>. QED
    BY <1>2, <2>4, FrameFields DEF Interrupted
<1>. QED
  BY <1>1, <1>2 DEF SwitchedAway, Interrupted

LEMMA SwitchKeeps ==
  ASSUME K!KernelEntryAssumption, EntryIInv, NEW next \in Thread, K!SwitchTo(next)
  PROVE  EntryIInv'
<1>1. PICK old \in Thread : old = current
  BY Here
<1>a. PICK so, sn : so = Append(stack[old], K!SwitchFrame(pc[old])) /\ sn = K!Below(stack[next])
  OBVIOUS
<1>2. next # old /\ pc[old] \in {"tick", "yield"} /\ pc[next] = "away"
  BY <1>1, Here DEF K!SwitchTo, K!Is
<1>3. on[next] = next /\ on[old] = old /\ KindsOK /\ SwitchedWhole /\ OneRuns
  BY DEF EntryIInv, SwitchedWhole, KindsOK
<1>4. PICK l \in {"tick", "yield", "entered"} :
        /\ K!Top(stack[next]).at = l
        /\ IF l = "tick" THEN Interrupted(next, sn) ELSE OnlyUser(next, sn)
  <2>1. SwitchedAway(next, stack[next])
    BY <1>2 DEF EntryIInv, Keeps
  <2>. QED
    BY <1>a, <2>1, FindsPlace
<1> DEFINE r == K!Returned(l)
<1>5. r \in {"iret", "resume", "entered"} /\ (r = "iret" <=> l = "tick")
  BY DEF K!Returned
<1>6. SwitchedAway(old, so)
  BY <1>1, <1>2, <1>a, LeavesPlace
<1>7. /\ current' = next /\ rsp0' = next /\ gs' = next /\ space' = ProcessOf[next]
      /\ pc' = [pc EXCEPT ![old] = "away", ![next] = r]
      /\ stack' = [stack EXCEPT ![old] = so, ![next] = sn]
      /\ UNCHANGED <<user, on, K!cpu, scratch, K!delivery, due>>
  BY <1>1, <1>2, <1>3, <1>4, <1>a DEF K!SwitchTo, K!SetRsp0, K!SetSpace, K!SetGs, KindsOK
<1> HIDE DEF r
<1>8. ~iflag'
  BY <1>1, <1>2, <1>7 DEF EntryIInv, IfOn, Open, K!cpu
<1>9. KindsOK'
  BY <1>3, <1>5, <1>7 DEF KindsOK, K!cpu, K!delivery, K!Location
<1>10. SwitchedWhole' /\ OneRuns'
  BY <1>2, <1>3, <1>5, <1>7 DEF SwitchedWhole, OneRuns, KindsOK
<1>11. IfOn' /\ ScratchOwn'
  BY <1>2, <1>3, <1>5, <1>7, <1>8 DEF IfOn, ScratchOwn, K!Is, KindsOK
<1>12. Keeps(old)'
  <2>1. pc'[old] = "away" /\ stack'[old] = so /\ due' = due
    BY <1>2, <1>3, <1>7 DEF KindsOK
  <2>2. SwitchedAway(old, so)'
    BY <1>6, <2>1 DEF SwitchedAway, Proper
  <2>. QED
    BY <2>1, <2>2 DEF Keeps, InUser, InCall, InHandler, Open
<1>13. Keeps(next)'
  <2>1. pc'[next] = r /\ stack'[next] = sn /\ due' = due
    BY <1>2, <1>3, <1>7 DEF KindsOK
  <2>2. CASE r = "iret"
    <3>1. Interrupted(next, sn)'
      BY <1>4, <1>5, <2>1, <2>2 DEF Interrupted, OnlyUser, Proper
    <3>. QED
      BY <2>1, <2>2, <3>1 DEF Keeps, InUser, InCall, InHandler, Open
  <2>3. CASE r \in {"resume", "entered"}
    <3>1. OnlyUser(next, sn)'
      BY <1>4, <1>5, <2>1, <2>3 DEF OnlyUser, Proper
    <3>. QED
      BY <2>1, <2>3, <3>1 DEF Keeps, InUser, InCall, InHandler, Open
  <2>. QED
    BY <1>5, <2>2, <2>3
<1>14. ASSUME NEW u \in Thread, u # old, u # next
       PROVE  Keeps(u)'
  <2>1. pc'[u] = pc[u] /\ stack'[u] = stack[u] /\ user'[u] = user[u] /\ due'[u] = due[u]
    BY <1>3, <1>7, <1>14 DEF KindsOK
  <2>. QED
    BY <2>1, OthersKeep DEF EntryIInv
<1>. QED
  BY <1>9, <1>10, <1>11, <1>12, <1>13, <1>14 DEF EntryIInv

-----------------------------------------------------------------------------
LEMMA NextEntryIInv ==
  ASSUME K!KernelEntryAssumption, EntryIInv, [K!Next]_(K!vars)
  PROVE  EntryIInv'
<1>1. CASE K!UserStep
  BY <1>1, UserStepKeeps
<1>2. CASE K!Fault
  BY <1>2, FaultKeeps
<1>3. CASE K!Syscall
  BY <1>3, SyscallKeeps
<1>4. CASE K!PushUser
  BY <1>4, PushUserKeeps
<1>5. CASE K!SetHandler
  BY <1>5, SetHandlerKeeps
<1>6. CASE K!RaiseException
  BY <1>6, RaiseExceptionKeeps
<1>7. CASE K!PopUser
  BY <1>7, PopUserKeeps
<1>8. CASE K!Sysret
  BY <1>8, SysretKeeps
<1>9. CASE K!Interrupt
  BY <1>9, InterruptKeeps
<1>10. CASE K!Dispatch
  BY <1>10, DispatchKeeps
<1>11. CASE K!Iret
  BY <1>11, IretKeeps
<1>12. CASE K!Yield
  BY <1>12, YieldKeeps
<1>13. CASE K!Stay
  BY <1>13, StayKeeps
<1>14. CASE K!Switch
  BY <1>14, SwitchKeeps DEF K!Switch
<1>15. CASE K!Resume
  BY <1>15, ResumeKeeps
<1>16. CASE K!UserThreadEntry
  BY <1>16, UserThreadEntryKeeps
<1>17. CASE UNCHANGED K!vars
  <2>1. \A t \in Thread : Keeps(t)'
    BY <1>17, OthersKeep DEF EntryIInv, K!vars
  <2>2. KindsOK' /\ SwitchedWhole' /\ OneRuns' /\ IfOn' /\ ScratchOwn'
    BY <1>17 DEF K!vars, K!switched, K!cpu, K!delivery, EntryIInv, KindsOK, SwitchedWhole, OneRuns, IfOn,
                 ScratchOwn, K!Is
  <2>. QED
    BY <2>1, <2>2 DEF EntryIInv
<1>. QED
  BY <1>1, <1>2, <1>3, <1>4, <1>5, <1>6, <1>7, <1>8, <1>9, <1>10, <1>11, <1>12, <1>13,
     <1>14, <1>15, <1>16, <1>17 DEF K!Next, K!Kernel

\* What is on each thread's kernel stack fits the place the thread is at, and
\* the registers that ScheduleInternal sets go with the current thread.
THEOREM EntryInvariance ==
  ASSUME K!KernelEntryAssumption
  PROVE  K!Spec => []EntryIInv
<1>1. K!Init => EntryIInv
  BY InitEntryIInv
<1>2. EntryIInv /\ [K!Next]_(K!vars) => EntryIInv'
  BY NextEntryIInv
<1>. QED
  BY <1>1, <1>2, PTL DEF K!Spec

\* A kernel stack never holds more than three frames (interrupts do not nest),
\* each of its kind, and every variable a value of its kind.
THEOREM EntryTypeCorrect ==
  ASSUME K!KernelEntryAssumption
  PROVE  K!Spec => []K!TypeOK
<1>1. ASSUME EntryIInv
      PROVE  K!TypeOK
  <2>1. ASSUME NEW t \in Thread
        PROVE  Len(stack[t]) <= 3 /\ \A i \in DOMAIN stack[t] : stack[t][i] \in K!Frame
    <3>1. /\ \A c \in K!Context : K!UserFrame(c) \in K!Frame
          /\ \A l \in K!Location : K!KernelFrame(l) \in K!Frame /\ K!SwitchFrame(l) \in K!Frame
      BY DEF K!Frame, K!UserFrame, K!KernelFrame, K!SwitchFrame
    <3>2. Open \subseteq K!Location /\ {"tick", "yield", "entered"} \subseteq K!Location
      BY DEF Open, K!Location
    <3>3. CASE stack[t] = <<>>
      BY <3>3
    <3>4. ASSUME NEW f \in K!Frame, stack[t] = <<f>>
          PROVE  Len(stack[t]) <= 3 /\ \A i \in DOMAIN stack[t] : stack[t][i] \in K!Frame
      BY <3>4
    <3>5. ASSUME NEW f \in K!Frame, NEW g \in K!Frame, stack[t] = <<f, g>>
          PROVE  Len(stack[t]) <= 3 /\ \A i \in DOMAIN stack[t] : stack[t][i] \in K!Frame
      BY <3>5
    <3>6. ASSUME NEW f \in K!Frame, NEW g \in K!Frame, NEW h \in K!Frame, stack[t] = <<f, g, h>>
          PROVE  Len(stack[t]) <= 3 /\ \A i \in DOMAIN stack[t] : stack[t][i] \in K!Frame
      BY <3>6
    <3>7. \/ stack[t] = <<>>
          \/ \E f \in K!Frame : stack[t] = <<f>>
          \/ \E f, g \in K!Frame : stack[t] = <<f, g>>
          \/ \E f, g, h \in K!Frame : stack[t] = <<f, g, h>>
      <4>1. OnlyUser(t, stack[t]) => \E f \in K!Frame : stack[t] = <<f>>
        BY <3>1 DEF OnlyUser
      <4>2. CASE pc[t] \in {"user", "entry", "exit"}
        BY <1>1, <4>2 DEF EntryIInv, Keeps, InUser
      <4>3. CASE pc[t] \in InCall
        BY <1>1, <4>1, <4>3 DEF EntryIInv, Keeps
      <4>4. CASE pc[t] \in InHandler
        BY <1>1, <3>1, <3>2, <4>1, <4>4 DEF EntryIInv, Keeps, Interrupted
      <4>5. CASE pc[t] = "away"
        BY <1>1, <3>1, <3>2, <4>5 DEF EntryIInv, Keeps, SwitchedAway
      <4>6. pc[t] \in K!Location
        BY <1>1 DEF EntryIInv, KindsOK
      <4>. QED
        BY <4>2, <4>3, <4>4, <4>5, <4>6 DEF K!Location, InCall, Open, InHandler
    <3>. QED
      BY <3>3, <3>4, <3>5, <3>6, <3>7
  <2>2. /\ on \in [Thread -> Thread] /\ rsp0 \in Thread /\ gs \in Thread
        /\ space \in Space /\ handler \subseteq Thread /\ pending \in Thread \cup {NULL}
    BY <1>1 DEF EntryIInv, KindsOK, SwitchedWhole, K!KernelEntryAssumption
  <2>. QED
    BY <1>1, <2>1, <2>2 DEF EntryIInv, KindsOK, OneRuns, K!TypeOK
<1>. QED
  BY <1>1, EntryInvariance, PTL

\* Every thread is in the kernel on its own kernel stack, and an entry from
\* ring 3 starts over a stack nobody returns to.
THEOREM StackPrivate ==
  ASSUME K!KernelEntryAssumption
  PROVE  K!Spec => []KernelStackPrivate
<1>1. ASSUME EntryIInv
      PROVE  KernelStackPrivate
  BY <1>1 DEF EntryIInv, KindsOK, SwitchedWhole, Keeps, InUser, KernelStackPrivate,
       K!KernelStackPrivate, K!Is
<1>. QED
  BY <1>1, EntryInvariance, PTL

\* A thread in ring 3 has its own stack, address space and TEB, and goes on
\* where it left or at its handler, unless NtRaiseException interferes.
THEOREM ResumesOwn ==
  ASSUME K!KernelEntryAssumption
  PROVE  K!Spec => []ResumesWhereItLeft
<1>1. ASSUME EntryIInv
      PROVE  ResumesWhereItLeft
  BY <1>1 DEF EntryIInv, KindsOK, SwitchedWhole, Keeps, InUser, Proper, ResumesWhereItLeft,
       K!ResumesWhereItLeft, K!Is
<1>. QED
  BY <1>1, EntryInvariance, PTL

=============================================================================
