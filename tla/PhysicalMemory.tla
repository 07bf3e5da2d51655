--------------------------- MODULE PhysicalMemory ---------------------------
(***************************************************************************)
(* The physical memory manager (mm/physical_memory.cpp), a bitmap of pages *)
(* with a hint below which no page is free, and its most delicate client,  *)
(* AllocStack of ps/process.cpp.  The allocator takes no lock and leaves   *)
(* interrupts alone, and system calls enter it with interrupts on: a call  *)
(* can be preempted between finding a page and taking it.  (It can also be *)
(* preempted inside each of these halves, which adds only further races to *)
(* a memory of which nothing is claimed then.)                             *)
(***************************************************************************)
EXTENDS Integers, FiniteSets

CONSTANTS
  Caller,      \* the threads that allocate and free pages
  MaxPages,    \* MAX_PAGES
  MemoryMap,   \* the loader's memory map, in whole pages
  Reserved,    \* the pages of the bitmap itself and of the first 2 MB
  Runs,        \* the lengths of the runs of pages asked for
  StackPages,  \* the pages of a kernel stack
  Preemptible  \* whether a call can preempt another one

Page == 0 .. MaxPages - 1

Region == [free : BOOLEAN, base : Page, end : 0 .. MaxPages]

Covers(e, p) == e.base <= p /\ p < e.end

(***************************************************************************)
(* UEFI reports every page once.  Where it did not, Init would count a     *)
(* page twice, and take as free what another entry reserves.               *)
(***************************************************************************)
ASSUME PhysicalMemoryAssumption ==
  /\ MaxPages \in Nat \ {0}
  /\ MemoryMap \subseteq Region
  /\ \A d, e \in MemoryMap, p \in Page : Covers(d, p) /\ Covers(e, p) => d = e
  /\ Reserved \subseteq Page
  /\ 0 \in Reserved
  /\ Runs \subseteq Nat \ {0}
  /\ StackPages \in Nat \ {0}
  /\ Preemptible \in BOOLEAN

VARIABLES
  used,        \* s_bitmap: the pages whose bit is set
  free,        \* s_free_pages
  hint,        \* s_search_hint
  found,       \* the page a caller has found and not taken yet, None outside
  held,        \* the pages a caller has been given and not freed
  kept,        \* those of them it took for kernel stacks, never freed
  base,        \* the first page of the kernel stack a caller is allocating
  left,        \* the pages it still has to get for it, 0 if there is none
  stacks       \* the bases of the kernel stacks a caller has been given

vars == <<used, free, hint, found, held, kept, base, left, stacks>>

\* The scan has found no page yet: its index has run past the bitmap.
None == MaxPages

Available == {p \in Page : \E e \in MemoryMap : e.free /\ Covers(e, p)}

\* Each entry of the map counts its pages, and each reserved page that was
\* free is taken off again.
Counted ==
  Cardinality({ep \in MemoryMap \X Page : ep[1].free /\ Covers(ep[1], ep[2])})

Init ==
  /\ used = Page \ (Available \ Reserved)
  /\ free = Counted - Cardinality(Available \cap Reserved)
  /\ hint = 0
  /\ found = [c \in Caller |-> None]
  /\ held = [c \in Caller |-> {}]
  /\ kept = [c \in Caller |-> {}]
  /\ base = [c \in Caller |-> 0]
  /\ left = [c \in Caller |-> 0]
  /\ stacks = [c \in Caller |-> {}]

\* s_free_pages is never taken below zero.
Less(n, k) == IF n > k THEN n - k ELSE 0

\* c enters the allocator: during boot, and as long as only one thread
\* allocates, no other caller is inside.
Enter(c) ==
  /\ found[c] = None
  /\ Preemptible \/ \A d \in Caller : found[d] = None

\* AllocPage, up to finding the first free page from the hint on.
FindPage(c) ==
  /\ Enter(c)
  /\ \E p \in Page \ used :
       /\ p >= hint
       /\ hint .. p - 1 \subseteq used
       /\ found' = [found EXCEPT ![c] = p]
  /\ UNCHANGED <<used, free, hint, held, kept, base, left, stacks>>

\* AllocPage finds nothing: AllocStack gives up and leaks what it has.
FindNothing(c) ==
  /\ Enter(c)
  /\ left[c] > 0
  /\ hint .. MaxPages - 1 \subseteq used
  /\ left' = [left EXCEPT ![c] = 0]
  /\ UNCHANGED <<used, free, hint, found, held, kept, base, stacks>>

\* The caller of AllocPage was AllocStack: one page less to get.
StackPage(c, p) ==
  /\ left[c] > 0
  /\ left' = [left EXCEPT ![c] = @ - 1]
  /\ base' = [base EXCEPT ![c] = IF left[c] = StackPages THEN p ELSE @]
  /\ kept' = [kept EXCEPT ![c] = @ \cup {p}]
  /\ stacks' = [stacks EXCEPT ![c] = IF left[c] = 1 THEN @ \cup {base'[c]} ELSE @]

\* The rest of AllocPage.
TakePage(c) ==
  /\ found[c] # None
  /\ used' = used \cup {found[c]}
  /\ free' = Less(free, 1)
  /\ hint' = found[c] + 1
  /\ held' = [held EXCEPT ![c] = @ \cup {found[c]}]
  /\ found' = [found EXCEPT ![c] = None]
  /\ \/ StackPage(c, found[c])
     \/ left[c] = 0 /\ UNCHANGED <<kept, base, left, stacks>>

\* AllocStack begins.
AllocStack(c) ==
  /\ found[c] = None
  /\ left[c] = 0
  /\ left' = [left EXCEPT ![c] = StackPages]
  /\ UNCHANGED <<used, free, hint, found, held, kept, base, stacks>>

\* Mutants of Lowest: the run begins a page early, or ends one too far.
LowestEarly(p, n) ==
  /\ p + n <= MaxPages
  /\ p + 1 .. p + n - 1 \cap used = {}

LowestPast(p, n) ==
  /\ p + n <= MaxPages + 1
  /\ p .. p + n - 1 \cap used = {}

\* The n pages from p on are free, and the first such run.
Lowest(p, n) ==
  LET Fits(q) == q + n <= MaxPages /\ q .. q + n - 1 \cap used = {}
  IN  Fits(p) /\ \A q \in 0 .. p - 1 : ~Fits(q)

\* AllocPages, during boot: the hint stays where it is.
AllocPages(c, n) ==
  /\ \A d \in Caller : found[d] = None
  /\ left[c] = 0
  /\ \E p \in Page :
       /\ Lowest(p, n)
       /\ used' = used \cup (p .. p + n - 1)
       /\ held' = [held EXCEPT ![c] = @ \cup (p .. p + n - 1)]
  /\ free' = Less(free, n)
  /\ UNCHANGED <<hint, found, kept, base, left, stacks>>

\* Mutants of FreedCount and FreedHint: FreePage leaves them alone.
FreedCountKept(p) == free

FreedHintKept(p) == hint

\* What FreePage leaves in the counter and in the hint.  The bit of p is set
\* unless a race has spoilt the bitmap; FreePage then does nothing.
FreedCount(p) == IF p \in used THEN free + 1 ELSE free

FreedHint(p) == IF p \in used /\ p < hint THEN p ELSE hint

\* FreePage of a page that the caller holds.
FreePage(c, p) ==
  /\ Enter(c)
  /\ left[c] = 0
  /\ p \in held[c] \ kept[c]
  /\ held' = [held EXCEPT ![c] = @ \ {p}]
  /\ used' = used \ {p}
  /\ free' = FreedCount(p)
  /\ hint' = FreedHint(p)
  /\ UNCHANGED <<found, kept, base, left, stacks>>

Next ==
  \E c \in Caller :
    \/ FindPage(c) \/ FindNothing(c) \/ TakePage(c) \/ AllocStack(c)
    \/ \E n \in Runs : AllocPages(c, n)
    \/ \E p \in Page : FreePage(c, p)

Spec == Init /\ [][Next]_vars
-----------------------------------------------------------------------------
(* Properties.                                                             *)

\* Every variable holds a value of its kind.
TypeOK ==
  /\ used \subseteq Page
  /\ free \in Nat
  /\ hint \in 0 .. MaxPages
  /\ found \in [Caller -> Page \cup {None}]
  /\ held \in [Caller -> SUBSET Page]
  /\ kept \in [Caller -> SUBSET Page]
  /\ base \in [Caller -> Page]
  /\ left \in [Caller -> 0 .. StackPages]
  /\ stacks \in [Caller -> SUBSET Page]

\* If no call preempts another, a page given out belongs to one caller only,
\* is not one the map reserves, and stays marked until it is freed.
OneOwner ==
  \A c \in Caller :
    /\ held[c] \subseteq used \cap (Available \ Reserved)
    /\ \A d \in Caller : c # d => held[c] \cap held[d] = {}

\* If no call preempts another, no page below the hint is free, so
\* that AllocPage, which never looks there, fails only when memory is full.
NoFreePageBelowHint == 0 .. hint - 1 \subseteq used

\* If no call preempts another, the counter that NtQuerySystemInformation
\* reports is the number of free pages in the bitmap.
FreeCounted == free = Cardinality(Page \ used)

\* Two processes never hold the same page.
Isolated ==
  \A c, d \in Caller : c # d => held[c] \cap held[d] = {}

\* A kernel stack is StackPages pages from its base on, all taken for it.
StacksContiguous ==
  \A c \in Caller : \A b \in stacks[c] : b .. b + StackPages - 1 \subseteq kept[c]
=============================================================================
