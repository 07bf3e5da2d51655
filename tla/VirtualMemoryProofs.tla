------------------------ MODULE VirtualMemoryProofs -------------------------
(***************************************************************************)
(* Theorems about the virtual memory manager, for any number of pages,     *)
(* sizes of tables, threads and spaces, and whether or not threads preempt *)
(* each other inside MapPageInto.                                          *)
(*                                                                         *)
(* That the tables of two spaces are apart is not inductive: nothing in it *)
(* says what a mapping under way is about to link.  The invariant labels   *)
(* every page that holds a table with its level, the space that owns it    *)
(* and the first address it is for; entries lead from one label to the     *)
(* label below it.  With that invariant, and if threads do not preempt     *)
(* each other there, the tables implement AddressSpaces, one map for each  *)
(* space.                                                                  *)
(***************************************************************************)
EXTENDS VirtualMemory, WellFoundedInduction, TLAPS

Zero == [k \in 1 .. 4 |-> 0]

\* Where the table of level n on the way to va begins.
BeginAt(va, n) == [k \in 1 .. 4 |-> IF k < n THEN va[k] ELSE 0]

\* The owner of what is below entry i of a table of level n owned by s.
OwnerBelow(s, n, i) == IF (n = 1 /\ i # 0) \/ (n = 2 /\ i < Low) THEN Kernel ELSE s

Labels == [level : [Page -> 0 .. 4], owner : [Page -> Page], begin : [Page -> Va]]

Contents == [Page -> [Index -> Entry]]

(***************************************************************************)
(* What the labels b say of the contents tb of the pages.                  *)
(***************************************************************************)
\* An entry for a table leads one level down, to the label that fits.
LinkFits(b, p, i, c) ==
  /\ b.level[p] < 4
  /\ b.level[c] = b.level[p] + 1
  /\ b.owner[c] = OwnerBelow(b.owner[p], b.level[p], i)
  /\ b.begin[c] = [b.begin[p] EXCEPT ![b.level[p]] = i]

LinksFit(tb, b) ==
  \A p \in Page, i \in Index :
    b.level[p] # 0 /\ tb[p][i].kind = "table" => LinkFits(b, p, i, tb[p][i].page)

\* Pages are mapped at the last level only, huge ones by the kernel's tables of
\* the third, and only a program's own pages by its own tables.
EntryFits(b, p, e) ==
  /\ b.level[p] \in {1, 2} => e.kind \in {"absent", "table"}
  /\ b.level[p] = 3 => e.kind \in {"absent", "table", "huge"}
  /\ b.level[p] = 3 /\ b.owner[p] # Kernel => e.kind # "huge"
  /\ b.level[p] = 4 => e.kind \in {"absent", "page"}
  /\ b.level[p] = 4 /\ b.owner[p] # Kernel => e \in {Absent} \cup UserPage

EntriesFit(tb, b) == \A p \in Page, i \in Index : EntryFits(b, p, tb[p][i])

\* Where the kernel maps low addresses by huge pages, whatever happens.
StaysHuge(b, p, i) ==
  /\ b.level[p] = 3
  /\ b.begin[p][1] = 0 /\ b.begin[p][2] < Low
  /\ b.begin[p][2] # KuserVa[2] \/ i # KuserVa[3]

\* The tables of the boot loader are where they were.
KernelTables(tb, b) ==
  /\ b.level[Kernel] = 1 /\ b.owner[Kernel] = Kernel
  /\ tb[Kernel][0].kind = "table" /\ tb[Kernel][0].page = 1
  /\ \A i \in 0 .. Low - 1 : tb[1][i].kind = "table"
  /\ \A p \in Page, i \in Index : StaysHuge(b, p, i) => tb[p][i] = Huge

\* A user space has the kernel's entries, but for a second table of its own.
UserTables(tb, b) ==
  /\ \A i \in Index \ {0} : tb[Kernel][i].kind = "table" => tb[Kernel][i].user
  /\ \A p \in Page \ {Kernel} :
       b.level[p] = 1 =>
         /\ tb[p][0].kind = "table"
         /\ \A i \in Index \ {0} : tb[p][i] = tb[Kernel][i]
  /\ \A p \in Page :
       b.level[p] = 2 /\ b.owner[p] # Kernel =>
         \A i \in 0 .. Low - 1 : tb[p][i] = tb[1][i]

Tree(tb, b) ==
  LinksFit(tb, b) /\ EntriesFit(tb, b) /\ KernelTables(tb, b) /\ UserTables(tb, b)

\* A free page has no label, a root is its own, and roots own all tables.
RootsLabelled(b) ==
  /\ \A p \in free : b.level[p] = 0
  /\ \A p \in Page : b.level[p] = 1 <=> p \in spaces
  /\ \A s \in spaces : b.owner[s] = s /\ b.begin[s] = Zero
  /\ \A p \in Page : b.level[p] # 0 => b.owner[p] \in spaces
  /\ phase # "run" => spaces = {Kernel}

\* Page p holds the table of level n on the way to va in space s.
OwnerOf(s, va, n) == IF (n > 1 /\ va[1] # 0) \/ (n > 2 /\ va[2] < Low) THEN Kernel ELSE s

OnWay(b, s, va, p, n) ==
  b.level[p] = n /\ b.owner[p] = OwnerOf(s, va, n) /\ b.begin[p] = BeginAt(va, n)

\* A mapping under way is where its address leads, and does not get past the
\* kernel's huge pages.
Within(b, o) ==
  /\ IF o.root = Kernel THEN phase = "mapping" /\ o.va = KernelVa /\ o.leaf = TestPage
     ELSE phase = "run" /\ o.va \in UserVa /\ o.leaf \in UserPage
  /\ o.root \in spaces
  /\ OnWay(b, o.root, o.va, o.at, o.level)
  /\ o.root # Kernel /\ o.level = 4 => o.va[2] >= Low

\* What it has allocated is for the level below, in its own space.
Allocated(b, o) ==
  o.new # NULL =>
    /\ o.level < 4
    /\ OnWay(b, o.root, o.va, o.new, o.level + 1)
    /\ o.root # Kernel => o.level > 1 /\ o.va[2] >= Low

Op ==
  [level : 1 .. 4, root : Page, va : UserVa \cup {KernelVa}, leaf : UserPage \cup {TestPage},
   at : Page, new : Page \cup {NULL}]

OpsFit(b) == \A t \in Thread : op[t] # Idle => Within(b, op[t]) /\ Allocated(b, op[t])

\* The boot makes one mapping in the kernel's tables, and nobody else then.
OneAtBoot == \A t, u \in Thread : op[t] # Idle /\ op[u] # Idle /\ op[t].root = Kernel => t = u

Kinds ==
  /\ table \in Contents
  /\ free \subseteq Page
  /\ spaces \subseteq Page
  /\ phase \in {"smoke", "mapping", "mapped", "unmapped", "run"}
  /\ op \in [Thread -> {Idle} \cup Op]

Fits(b) == Tree(table, b) /\ RootsLabelled(b) /\ OpsFit(b)

IInv == Kinds /\ OneAtBoot /\ \E b \in Labels : Fits(b)
-----------------------------------------------------------------------------
(***************************************************************************)
(* Facts about constants.                                                  *)
(***************************************************************************)
LEMMA PageFacts ==
  ASSUME VirtualMemoryAssumption
  PROVE  /\ Page \subseteq Nat /\ Index \subseteq Nat
         /\ Kernel \in Page /\ 1 \in Page /\ 0 \in Index
         /\ Low \in Nat /\ Low >= 1 /\ \A i \in 0 .. Low - 1 : i \in Index /\ 2 + i \in Page
         /\ NULL \notin Page
BY DEF VirtualMemoryAssumption, Page, Index, Kernel

LEMMA VaFacts ==
  ASSUME VirtualMemoryAssumption
  PROVE  /\ \A va \in Va : va \in [1 .. 4 -> Index]
         /\ KuserVa \in Va /\ KuserVa[1] = 0 /\ KuserVa[2] < Low
         /\ KernelVa \in Va /\ KernelVa[1] # 0 /\ KernelVa \notin UserVa
         /\ \A va \in UserVa :
              /\ va \in Va /\ va[1] = 0
              /\ va[2] < Low => va[2] # KuserVa[2] \/ va[3] # KuserVa[3]
BY DEF VirtualMemoryAssumption, Va, LowVa, SharedVa

\* An entry is one of four kinds, and one that is a table leads to a page.
LEMMA EntryFacts ==
  /\ Absent \in Entry /\ Huge \in Entry /\ TestPage \in Entry /\ KuserPage \in Entry
  /\ UserPage \subseteq Entry
  /\ \A va \in LowVa : Identity(va) \in Entry
  /\ \A p \in Page, u \in BOOLEAN : TableAt(p, u) \in Entry
  /\ Absent.kind = "absent" /\ Huge.kind = "huge"
  /\ TestPage.kind = "page" /\ KuserPage.kind = "page"
  /\ \A e \in UserPage : e.kind = "page"
  /\ \A va : Identity(va).kind = "page"
  /\ \A p, u : TableAt(p, u).kind = "table" /\ TableAt(p, u).page = p /\ TableAt(p, u).user = u
<1>1. /\ Absent.kind = "absent" /\ Huge.kind = "huge"
      /\ TestPage.kind = "page" /\ KuserPage.kind = "page"
  BY DEF Absent, Huge, TestPage, KuserPage, PageAt
<1>2. \A e \in UserPage : e.kind = "page"
  BY DEF UserPage, PageAt
<1>3. \A va : Identity(va).kind = "page"
  BY DEF Identity, PageAt
<1>4. \A p, u : TableAt(p, u).kind = "table" /\ TableAt(p, u).page = p /\ TableAt(p, u).user = u
  BY DEF TableAt
<1>5. /\ Absent \in Entry /\ Huge \in Entry /\ TestPage \in Entry /\ KuserPage \in Entry
      /\ UserPage \subseteq Entry
  BY DEF Entry
<1>6. \A va \in LowVa : Identity(va) \in Entry
  BY DEF Entry
<1>7. \A p \in Page, u \in BOOLEAN : TableAt(p, u) \in Entry
  BY DEF Entry
<1>. QED
  BY <1>1, <1>2, <1>3, <1>4, <1>5, <1>6, <1>7

\* Entry e leads to the table at p, and ring 3 may go there.
LeadsTo(e, p) == e.kind = "table" /\ e.page = p /\ e.user

LEMMA OpenTable ==
  ASSUME NEW p
  PROVE  LeadsTo(TableAt(p, TRUE), p)
BY DEF TableAt, LeadsTo

LEMMA TableUser ==
  ASSUME NEW p, NEW u, NEW w
  PROVE  [TableAt(p, u) EXCEPT !.user = w] = TableAt(p, w)
BY DEF TableAt

EntryShape(e) ==
  /\ e.kind \in {"absent", "huge", "page", "table"}
  /\ e.kind = "absent" => e = Absent
  /\ e.kind = "huge" => e = Huge
  /\ e.kind = "table" => e.page \in Page /\ e.user \in BOOLEAN /\ e = TableAt(e.page, e.user)
  /\ e.kind = "table" => [e EXCEPT !.user = TRUE] = TableAt(e.page, TRUE)

LEMMA EntryKinds ==
  ASSUME NEW e \in Entry
  PROVE  EntryShape(e)
<1>1. CASE e \in {Absent, Huge, TestPage, KuserPage} \cup UserPage
                   \cup {Identity(va) : va \in LowVa}
  <2>1. \/ e = Absent \/ e = Huge
        \/ e.kind = "page"
    BY <1>1, EntryFacts
  <2>. QED
    BY <2>1, EntryFacts DEF EntryShape
<1>2. CASE e \in {TableAt(p, u) : p \in Page, u \in BOOLEAN}
  <2>1. PICK p \in Page, u \in BOOLEAN : e = TableAt(p, u)
    BY <1>2
  <2>2. [e EXCEPT !.user = TRUE] = TableAt(p, TRUE)
    BY <2>1, TableUser
  <2>3. e.kind = "table" /\ e.page = p /\ e.user = u
    BY <2>1 DEF TableAt
  <2>4. e.page \in Page /\ e.user \in BOOLEAN
    BY <2>3, Zenon
  <2>5. e = TableAt(e.page, e.user)
    BY <2>1, <2>3, Zenon
  <2>6. [e EXCEPT !.user = TRUE] = TableAt(e.page, TRUE)
    BY <2>2, <2>3
  <2>. QED
    BY <2>3, <2>4, <2>5, <2>6 DEF EntryShape
<1>3. \/ e \in {Absent, Huge, TestPage, KuserPage} \cup UserPage
              \cup {Identity(va) : va \in LowVa}
      \/ e \in {TableAt(p, u) : p \in Page, u \in BOOLEAN}
  BY DEF Entry
<1>. QED
  BY <1>1, <1>2, <1>3

\* AllocPage returns a free page.
LEMMA MinFree ==
  ASSUME NEW S, S \subseteq Nat, S # {}
  PROVE  Min(S) \in S
<1>1. PICK m \in S : \A k \in S : <<k, m>> \notin OpToRel(<, Nat)
  BY NatLessThanWellFounded, WFMin, Zenon
<1>2. \A k \in S : ~(k < m)
  BY <1>1 DEF OpToRel
<1>3. \A k \in S : m =< k
  BY <1>2
<1>. QED
  BY <1>1, <1>3 DEF Min
-----------------------------------------------------------------------------
(***************************************************************************)
(* How the tree of tables bears a change of one entry, or a new table.     *)
(***************************************************************************)
SameBut(tb, t2, p, i) ==
  \A q \in Page, j \in Index : q # p \/ j # i => t2[q][j] = tb[q][j]

LEMMA Shape ==
  ASSUME NEW tb \in Contents, NEW p \in Page, NEW i \in Index
  PROVE  EntryShape(tb[p][i])
BY EntryKinds DEF Contents

\* A link leads to the label that fits, and to a page.
LEMMA LinkOfTree ==
  ASSUME NEW tb \in Contents, NEW b \in Labels, Tree(tb, b), NEW p \in Page, NEW i \in Index,
         b.level[p] # 0, tb[p][i].kind = "table", NEW q, q = tb[p][i].page
  PROVE  q \in Page /\ LinkFits(b, p, i, q)
BY Shape DEF EntryShape, Tree, LinksFit

LEMMA KernelLabels ==
  ASSUME VirtualMemoryAssumption, NEW tb \in Contents, NEW b \in Labels, Tree(tb, b)
  PROVE  /\ b.level[Kernel] = 1 /\ b.owner[Kernel] = Kernel
         /\ b.level[1] = 2 /\ b.owner[1] = Kernel
<1>1. LinkFits(b, Kernel, 0, 1) /\ b.level[Kernel] = 1 /\ b.owner[Kernel] = Kernel
  BY PageFacts DEF Tree, KernelTables, LinksFit
<1>. QED
  BY <1>1 DEF LinkFits, OwnerBelow

LEMMA LeafSet ==
  ASSUME VirtualMemoryAssumption, NEW tb \in Contents, NEW t2 \in Contents, NEW b \in Labels,
         NEW p \in Page, NEW i \in Index, Tree(tb, b),
         b.level[p] = 4, SameBut(tb, t2, p, i), EntryFits(b, p, t2[p][i])
  PROVE  Tree(t2, b)
<1>1. p # Kernel /\ p # 1
  BY KernelLabels
<1>2. t2[p][i].kind # "table"
  BY DEF EntryFits
<1>3. LinksFit(t2, b)
  BY <1>2 DEF LinksFit, SameBut, Tree
<1>4. EntriesFit(t2, b)
  BY DEF EntriesFit, SameBut, Tree
<1>5. KernelTables(t2, b)
  BY <1>1, PageFacts DEF KernelTables, StaysHuge, SameBut, Tree
<1>6. UserTables(t2, b)
  BY <1>1, PageFacts DEF UserTables, SameBut, Tree
<1>. QED
  BY <1>3, <1>4, <1>5, <1>6 DEF Tree

LEMMA LinkSet ==
  ASSUME VirtualMemoryAssumption, NEW tb \in Contents, NEW t2 \in Contents, NEW b \in Labels,
         NEW p \in Page, NEW i \in Index, NEW c \in Page, Tree(tb, b),
         b.level[p] \in 1 .. 3, SameBut(tb, t2, p, i), LeadsTo(t2[p][i], c),
         LinkFits(b, p, i, c), ~StaysHuge(b, p, i),
         b.level[p] = 1 => p = Kernel /\ i # 0 /\ \A q \in Page : b.level[q] = 1 => q = Kernel,
         b.level[p] = 2 => p # 1 /\ (b.owner[p] # Kernel => i >= Low)
  PROVE  Tree(t2, b)
<1>1. p # 1 /\ (p = Kernel => b.level[p] = 1 /\ i # 0)
  BY KernelLabels
<1>2. t2[p][i].kind = "table" /\ t2[p][i].page = c /\ t2[p][i].user
  BY DEF LeadsTo
<1>3. LinksFit(t2, b)
  BY <1>2 DEF LinksFit, SameBut, Tree
<1>4. EntriesFit(t2, b)
  <2>1. b.level[p] # 4
    OBVIOUS
  <2>2. EntryFits(b, p, t2[p][i])
    BY <1>2, <2>1 DEF EntryFits
  <2>. QED
    BY <2>2 DEF EntriesFit, SameBut, Tree
<1>5. KernelTables(t2, b)
  BY <1>1, PageFacts DEF KernelTables, SameBut, Tree
<1>6. UserTables(t2, b)
  <2>1. \A j \in Index \ {0} : t2[Kernel][j].kind = "table" => t2[Kernel][j].user
    BY <1>1, <1>2, PageFacts DEF UserTables, SameBut, Tree
  <2>2. ASSUME NEW q \in Page \ {Kernel}, b.level[q] = 1
        PROVE  /\ t2[q][0].kind = "table"
               /\ \A j \in Index \ {0} : t2[q][j] = t2[Kernel][j]
    <3>1. b.level[p] # 1
      BY <2>2
    <3>2. p # q /\ p # Kernel
      BY <3>1, <2>2, KernelLabels
    <3>. QED
      BY <3>2, <2>2, PageFacts DEF UserTables, SameBut, Tree
  <2>3. ASSUME NEW q \in Page, b.level[q] = 2, b.owner[q] # Kernel, NEW j \in 0 .. Low - 1
        PROVE  t2[q][j] = t2[1][j]
    <3>1. q # p \/ j # i
      BY <2>3, PageFacts
    <3>2. t2[q][j] = tb[q][j] /\ t2[1][j] = tb[1][j] /\ tb[q][j] = tb[1][j]
      BY <1>1, <2>3, <3>1, PageFacts DEF UserTables, SameBut, Tree
    <3>. QED
      BY <3>2
  <2>. QED
    BY <2>1, <2>2, <2>3 DEF UserTables
<1>. QED
  BY <1>3, <1>4, <1>5, <1>6 DEF Tree

\* The labels b, and another one for p.
Label(b, p, n, s, x) ==
  [level |-> [b.level EXCEPT ![p] = n],
   owner |-> [b.owner EXCEPT ![p] = s],
   begin |-> [b.begin EXCEPT ![p] = x]]

SameLabels(b, c, p) ==
  \A q \in Page \ {p} :
    c.level[q] = b.level[q] /\ c.owner[q] = b.owner[q] /\ c.begin[q] = b.begin[q]

LEMMA NewTable ==
  ASSUME VirtualMemoryAssumption, NEW tb \in Contents, NEW t2 \in Contents,
         NEW b \in Labels, NEW c \in Labels, NEW p \in Page, Tree(tb, b),
         b.level[p] = 0, SameLabels(b, c, p),
         \A q \in Page \ {p} : t2[q] = tb[q],
         c.level[p] # 0 => \A i \in Index :
           /\ t2[p][i].kind = "table" =>
                t2[p][i].page # p /\ LinkFits(c, p, i, t2[p][i].page)
           /\ EntryFits(c, p, t2[p][i])
           /\ StaysHuge(c, p, i) => t2[p][i] = Huge,
         c.level[p] = 1 =>
           t2[p][0].kind = "table" /\ \A i \in Index \ {0} : t2[p][i] = tb[Kernel][i],
         c.level[p] = 2 /\ c.owner[p] # Kernel =>
           \A i \in 0 .. Low - 1 : t2[p][i] = tb[1][i]
  PROVE  Tree(t2, c)
<1>1. p # Kernel /\ p # 1
  BY KernelLabels
<1>2. LinksFit(t2, c)
  <2>1. ASSUME NEW q \in Page, NEW i \in Index, c.level[q] # 0, t2[q][i].kind = "table", q # p
        PROVE  LinkFits(c, q, i, t2[q][i].page)
    <3>1. t2[q][i] = tb[q][i] /\ b.level[q] # 0
      BY <2>1 DEF SameLabels
    <3>2. LinkFits(b, q, i, t2[q][i].page)
      BY <2>1, <3>1 DEF LinksFit, Tree
    <3>3. t2[q][i].page \in Page
      BY <2>1, Shape DEF EntryShape
    <3>4. b.level[q] \in 0 .. 4
      BY DEF Labels
    <3>5. t2[q][i].page # p
      BY <3>2, <3>4 DEF LinkFits
    <3>. QED
      BY <2>1, <3>2, <3>3, <3>5 DEF LinkFits, SameLabels
  <2>. QED
    BY <2>1 DEF LinksFit
<1>3. EntriesFit(t2, c)
  <2>1. ASSUME NEW q \in Page, NEW i \in Index, q # p
        PROVE  EntryFits(c, q, t2[q][i])
    BY <2>1 DEF EntriesFit, EntryFits, SameLabels, Tree
  <2>. QED
    BY <2>1 DEF EntriesFit, EntryFits
<1>4. KernelTables(t2, c)
  <2>1. ASSUME NEW q \in Page, NEW i \in Index, q # p, StaysHuge(c, q, i)
        PROVE  t2[q][i] = Huge
    BY <2>1 DEF StaysHuge, SameLabels, KernelTables, Tree
  <2>2. \A q \in Page, i \in Index : StaysHuge(c, q, i) => t2[q][i] = Huge
    <3>1. \A i \in Index : StaysHuge(c, p, i) => t2[p][i] = Huge
      BY DEF StaysHuge
    <3>. QED
      BY <2>1, <3>1
  <2>3. t2[Kernel] = tb[Kernel] /\ t2[1] = tb[1]
    BY <1>1, PageFacts
  <2>4. c.level[Kernel] = 1 /\ c.owner[Kernel] = Kernel
    BY <1>1, KernelLabels, PageFacts DEF SameLabels
  <2>. QED
    BY <2>2, <2>3, <2>4 DEF KernelTables, Tree
<1>5. UserTables(t2, c)
  BY <1>1, PageFacts DEF UserTables, SameLabels, Tree
<1>. QED
  BY <1>2, <1>3, <1>4, <1>5 DEF Tree

LEMMA UserSet ==
  ASSUME VirtualMemoryAssumption, NEW tb \in Contents, NEW t2 \in Contents, NEW b \in Labels,
         NEW p \in Page, NEW i \in Index, Tree(tb, b),
         tb[p][i].kind = "table", LeadsTo(t2[p][i], tb[p][i].page), SameBut(tb, t2, p, i),
         b.level[p] # 0,
         \A q \in Page : b.level[q] = 1 => q = Kernel,
         \A q \in Page : b.level[q] # 0 => b.owner[q] = Kernel
  PROVE  Tree(t2, b)
<1>1. t2[p][i].kind = "table" /\ t2[p][i].page = tb[p][i].page /\ t2[p][i].user
  BY DEF LeadsTo
<1>2. LinksFit(t2, b)
  BY <1>1 DEF LinksFit, SameBut, Tree
<1>3. EntriesFit(t2, b)
  <2>1. EntryFits(b, p, t2[p][i])
    BY <1>1, EntryFacts DEF EntryFits, EntriesFit, Tree, LinksFit, LinkFits
  <2>. QED
    BY <2>1 DEF EntriesFit, SameBut, Tree
<1>4. KernelTables(t2, b)
  <2>1. ~StaysHuge(b, p, i)
    BY EntryFacts DEF KernelTables, Tree
  <2>2. \A q \in Page, j \in Index : t2[q][j].kind = tb[q][j].kind /\ t2[q][j].page = tb[q][j].page
    BY <1>1 DEF SameBut
  <2>3. \A q \in Page, j \in Index : StaysHuge(b, q, j) => t2[q][j] = Huge
    BY <2>1 DEF KernelTables, SameBut, Tree
  <2>. QED
    BY <2>2, <2>3, PageFacts DEF KernelTables, Tree
<1>5. UserTables(t2, b)
  <2>1. ASSUME NEW j \in Index \ {0}, t2[Kernel][j].kind = "table"
        PROVE  t2[Kernel][j].user
    <3>1. CASE p = Kernel /\ i = j
      BY <1>1, <3>1
    <3>2. CASE p # Kernel \/ i # j
      BY <2>1, <3>2, PageFacts DEF UserTables, SameBut, Tree
    <3>. QED
      BY <3>1, <3>2
  <2>. QED
    BY <2>1 DEF UserTables
<1>. QED
  BY <1>2, <1>3, <1>4, <1>5 DEF Tree
-----------------------------------------------------------------------------
(***************************************************************************)
(* The way to an address.                                                  *)
(***************************************************************************)
LEMMA LeafIsUser ==
  ASSUME NEW f \in Frame, NEW w \in BOOLEAN
  PROVE  PageAt(f, TRUE, w) \in UserPage
BY DEF UserPage, PageAt

LEMMA BeginNext ==
  ASSUME VirtualMemoryAssumption, NEW va \in Va, NEW n \in 1 .. 3
  PROVE  /\ BeginAt(va, n + 1) = [BeginAt(va, n) EXCEPT ![n] = va[n]]
         /\ BeginAt(va, 1) = Zero
         /\ BeginAt(va, n + 1) \in Va /\ Zero \in Va
<1>1. va \in [1 .. 4 -> Index] /\ 0 \in Index
  BY PageFacts, VaFacts
<1>2. BeginAt(va, n + 1) = [BeginAt(va, n) EXCEPT ![n] = va[n]]
  <2>1. \A k \in 1 .. 4 : BeginAt(va, n + 1)[k] = [BeginAt(va, n) EXCEPT ![n] = va[n]][k]
    BY DEF BeginAt
  <2>. QED
    BY <2>1 DEF BeginAt
<1>3. BeginAt(va, 1) = Zero
  BY DEF BeginAt, Zero
<1>4. BeginAt(va, n + 1) \in Va /\ Zero \in Va
  BY <1>1 DEF BeginAt, Zero, Va
<1>. QED
  BY <1>2, <1>3, <1>4

LEMMA OwnerNext ==
  ASSUME NEW s, NEW va \in Va, NEW n \in 1 .. 3
  PROVE  OwnerBelow(OwnerOf(s, va, n), n, va[n]) = OwnerOf(s, va, n + 1)
<1>1. CASE n = 1
  BY <1>1 DEF OwnerOf, OwnerBelow
<1>2. CASE n = 2
  BY <1>2 DEF OwnerOf, OwnerBelow
<1>3. CASE n = 3
  BY <1>3 DEF OwnerOf, OwnerBelow
<1>. QED
  BY <1>1, <1>2, <1>3

\* The entry for va leads to the next table on the way to va.
LEMMA NextOnWay ==
  ASSUME VirtualMemoryAssumption, NEW tb \in Contents, NEW b \in Labels, Tree(tb, b),
         NEW s, NEW va \in Va, NEW p \in Page, NEW n \in 1 .. 4, OnWay(b, s, va, p, n),
         tb[p][va[n]].kind = "table"
  PROVE  /\ n < 4 /\ tb[p][va[n]].page \in Page
         /\ OnWay(b, s, va, tb[p][va[n]].page, n + 1)
<1>1. va[n] \in Index
  BY VaFacts
<1>2. LinkFits(b, p, va[n], tb[p][va[n]].page) /\ b.level[p] = n
  BY <1>1 DEF Tree, LinksFit, OnWay
<1>3. n \in 1 .. 3
  BY <1>2 DEF LinkFits
<1>4. tb[p][va[n]].page \in Page
  BY <1>1, Shape DEF EntryShape
<1>. QED
  BY <1>2, <1>3, <1>4, BeginNext, OwnerNext DEF OnWay, LinkFits

\* Conversely a table one step further on the way fits to be linked.
LEMMA FitsOnWay ==
  ASSUME VirtualMemoryAssumption, NEW b \in Labels, NEW s, NEW va \in Va,
         NEW p \in Page, NEW c \in Page, NEW n \in 1 .. 3,
         OnWay(b, s, va, p, n), OnWay(b, s, va, c, n + 1)
  PROVE  LinkFits(b, p, va[n], c)
BY BeginNext, OwnerNext DEF OnWay, LinkFits

\* A program's address below Low meets a huge page.
LEMMA LowIsHuge ==
  ASSUME VirtualMemoryAssumption, NEW tb \in Contents, NEW b \in Labels, Tree(tb, b),
         NEW s, NEW va \in UserVa, NEW p \in Page, OnWay(b, s, va, p, 3), va[2] < Low
  PROVE  tb[p][va[3]] = Huge
<1>1. va \in Va /\ va[3] \in Index /\ va[1] = 0 /\ (va[2] # KuserVa[2] \/ va[3] # KuserVa[3])
  BY VaFacts
<1>2. b.begin[p][1] = 0 /\ b.begin[p][2] = va[2]
  BY <1>1 DEF OnWay, BeginAt
<1>3. StaysHuge(b, p, va[3])
  BY <1>1, <1>2 DEF StaysHuge, OnWay
<1>. QED
  BY <1>1, <1>3 DEF Tree, KernelTables

(***************************************************************************)
(* The walk for an address meets the tables on the way to it, in order.    *)
(***************************************************************************)
LEMMA WalkSteps ==
  ASSUME NEW s, NEW va
  PROVE  /\ Walk(s, va)[1] = table[s][va[1]]
         /\ Walk(s, va)[2] = Below(Walk(s, va)[1], va[2])
         /\ Walk(s, va)[3] = Below(Walk(s, va)[2], va[3])
         /\ Walk(s, va)[4] = Below(Walk(s, va)[3], va[4])
BY DEF Walk

LEMMA WalkTables ==
  ASSUME NEW s, NEW va
  PROVE  /\ HasTable(s, va, 1) /\ TableOf(s, va, 1) = s
         /\ HasTable(s, va, 2) <=> Walk(s, va)[1].kind = "table"
         /\ HasTable(s, va, 3) <=> HasTable(s, va, 2) /\ Walk(s, va)[2].kind = "table"
         /\ HasTable(s, va, 4) <=> HasTable(s, va, 3) /\ Walk(s, va)[3].kind = "table"
         /\ TableOf(s, va, 2) = Walk(s, va)[1].page
         /\ TableOf(s, va, 3) = Walk(s, va)[2].page
         /\ TableOf(s, va, 4) = Walk(s, va)[3].page
<1>1. /\ 1 .. 1 - 1 = {} /\ 1 .. 2 - 1 = {1} /\ 1 .. 3 - 1 = {1, 2} /\ 1 .. 4 - 1 = {1, 2, 3}
  OBVIOUS
<1>. QED
  BY <1>1 DEF HasTable, TableOf

\* Where there is a table of level n, it is the one on the way, and the walk
\* reads its entry.
WalkFits(b, s, va, n) ==
  HasTable(s, va, n) =>
    /\ TableOf(s, va, n) \in Page
    /\ OnWay(b, s, va, TableOf(s, va, n), n)
    /\ Walk(s, va)[n] = table[TableOf(s, va, n)][va[n]]

LEMMA WalkOnWay ==
  ASSUME VirtualMemoryAssumption, table \in Contents, NEW b \in Labels, Tree(table, b),
         NEW s \in Page, NEW va \in Va, OnWay(b, s, va, s, 1)
  PROVE  /\ WalkFits(b, s, va, 1) /\ WalkFits(b, s, va, 2)
         /\ WalkFits(b, s, va, 3) /\ WalkFits(b, s, va, 4)
<1>1. WalkFits(b, s, va, 1)
  BY WalkSteps, WalkTables DEF WalkFits
<1>2. WalkFits(b, s, va, 2)
  <2>1. SUFFICES ASSUME HasTable(s, va, 2) PROVE WalkFits(b, s, va, 2)
    BY DEF WalkFits
  <2>2. PICK e : e = table[s][va[1]] /\ e = Walk(s, va)[1] /\ e.kind = "table"
    BY <2>1, WalkSteps, WalkTables
  <2>3. e.page \in Page /\ OnWay(b, s, va, e.page, 1 + 1)
    <3>1. PICK n \in 1 .. 4 : n = 1
      OBVIOUS
    <3>2. OnWay(b, s, va, s, n) /\ table[s][va[n]] = e
      BY <2>2, <3>1
    <3>3. e.page \in Page /\ OnWay(b, s, va, e.page, n + 1)
      BY <2>2, <3>2, NextOnWay
    <3>. QED
      BY <3>1, <3>3
  <2>4. Walk(s, va)[2] = table[e.page][va[2]]
    BY <2>2, WalkSteps DEF Below
  <2>. QED
    BY <2>2, <2>3, <2>4, WalkTables DEF WalkFits
<1>3. WalkFits(b, s, va, 3)
  <2>1. SUFFICES ASSUME HasTable(s, va, 3) PROVE WalkFits(b, s, va, 3)
    BY DEF WalkFits
  <2>2. PICK p \in Page : p = TableOf(s, va, 2) /\ OnWay(b, s, va, p, 2)
                          /\ Walk(s, va)[2] = table[p][va[2]]
    BY <1>2, <2>1, WalkTables DEF WalkFits
  <2>3. PICK e : e = table[p][va[2]] /\ e = Walk(s, va)[2] /\ e.kind = "table"
    BY <2>1, <2>2, WalkTables
  <2>4. e.page \in Page /\ OnWay(b, s, va, e.page, 2 + 1)
    BY <2>2, <2>3, NextOnWay
  <2>5. Walk(s, va)[3] = table[e.page][va[3]]
    BY <2>3, WalkSteps DEF Below
  <2>. QED
    BY <2>3, <2>4, <2>5, WalkTables DEF WalkFits
<1>4. WalkFits(b, s, va, 4)
  <2>1. SUFFICES ASSUME HasTable(s, va, 4) PROVE WalkFits(b, s, va, 4)
    BY DEF WalkFits
  <2>2. PICK p \in Page : p = TableOf(s, va, 3) /\ OnWay(b, s, va, p, 3)
                          /\ Walk(s, va)[3] = table[p][va[3]]
    BY <1>3, <2>1, WalkTables DEF WalkFits
  <2>3. PICK e : e = table[p][va[3]] /\ e = Walk(s, va)[3] /\ e.kind = "table"
    BY <2>1, <2>2, WalkTables
  <2>4. e.page \in Page /\ OnWay(b, s, va, e.page, 3 + 1)
    BY <2>2, <2>3, NextOnWay
  <2>5. Walk(s, va)[4] = table[e.page][va[4]]
    BY <2>3, WalkSteps DEF Below
  <2>. QED
    BY <2>3, <2>4, <2>5, WalkTables DEF WalkFits
<1>. QED
  BY <1>1, <1>2, <1>3, <1>4

\* A space is on the way to all its addresses.
LEMMA RootOnWay ==
  ASSUME VirtualMemoryAssumption, NEW b \in Labels, RootsLabelled(b), NEW s \in spaces, s \in Page,
         NEW va \in Va
  PROVE  OnWay(b, s, va, s, 1)
BY BeginNext DEF RootsLabelled, OnWay, OwnerOf

\* Only tables of the last level map pages.
LEMMA PageIsLast ==
  ASSUME VirtualMemoryAssumption, table \in Contents, NEW b \in Labels, Tree(table, b),
         NEW s \in Page, NEW va \in Va, OnWay(b, s, va, s, 1), Walk(s, va)[4].kind = "page"
  PROVE  HasTable(s, va, 4)
<1>1. /\ WalkFits(b, s, va, 1) /\ WalkFits(b, s, va, 2) /\ WalkFits(b, s, va, 3)
  BY WalkOnWay
<1>2. ASSUME NEW n \in 1 .. 3, HasTable(s, va, n)
      PROVE  Walk(s, va)[n].kind # "page"
  <2>1. PICK p \in Page : OnWay(b, s, va, p, n) /\ Walk(s, va)[n] = table[p][va[n]]
    BY <1>1, <1>2 DEF WalkFits
  <2>2. EntryFits(b, p, table[p][va[n]]) /\ b.level[p] = n
    BY <2>1, VaFacts DEF Tree, EntriesFit, OnWay
  <2>. QED
    BY <2>1, <2>2 DEF EntryFits
<1>3. HasTable(s, va, 2)
  <2>1. SUFFICES ASSUME Walk(s, va)[1].kind # "table" PROVE FALSE
    BY WalkTables
  <2>2. Walk(s, va)[4] = Walk(s, va)[1]
    BY <2>1, WalkSteps DEF Below
  <2>. QED
    BY <1>2, <2>2, WalkTables
<1>4. HasTable(s, va, 3)
  <2>1. SUFFICES ASSUME Walk(s, va)[2].kind # "table" PROVE FALSE
    BY <1>3, WalkTables
  <2>2. Walk(s, va)[4] = Walk(s, va)[2]
    BY <2>1, WalkSteps DEF Below
  <2>. QED
    BY <1>2, <1>3, <2>2
<1>5. CASE Walk(s, va)[3].kind # "table"
  <2>2. Walk(s, va)[4] = Walk(s, va)[3]
    BY <1>5, WalkSteps DEF Below
  <2>. QED
    BY <1>2, <1>4, <2>2
<1>. QED
  BY <1>4, <1>5, WalkTables

LEMMA TableKind ==
  \A p : /\ TableAt(p, FALSE).kind = "table" /\ TableAt(p, FALSE).page = p
         /\ TableAt(p, TRUE).kind = "table" /\ TableAt(p, TRUE).page = p
BY DEF TableAt

LEMMA AbsentKind == Absent.kind = "absent"
BY DEF Absent

LEMMA HugeIsNone ==
  Huge.kind # "table" /\ Huge.kind # "page" /\ Huge # Absent /\ Absent.kind # "table"
BY EntryFacts

(***************************************************************************)
(* The mappings under way.                                                 *)
(***************************************************************************)
LEMMA OpFacts ==
  ASSUME NEW o \in {Idle} \cup Op
  PROVE  /\ Idle.level = 0
         /\ o # Idle <=> o.level \in 1 .. 4
         /\ o # Idle => o \in Op
BY DEF Op, Idle

LEMMA OpFields ==
  ASSUME VirtualMemoryAssumption, NEW o \in Op
  PROVE  /\ o.level \in 1 .. 4 /\ o.root \in Page /\ o.at \in Page /\ o.va \in Va
         /\ o.va[o.level] \in Index
         /\ o.leaf \in Entry /\ o.leaf.kind = "page"
         /\ o.new # NULL => o.new \in Page
<1>1. o.level \in 1 .. 4 /\ o.va \in Va
  BY VaFacts DEF Op
<1>2. o.va[o.level] \in Index
  BY <1>1, VaFacts
<1>. QED
  BY <1>1, <1>2, EntryFacts DEF Op

\* New labels for pages without one leave the mappings under way where they are.
LEMMA StillWithin ==
  ASSUME NEW b \in Labels, NEW c \in Labels, NEW o \in Op,
         \A p \in Page : b.level[p] # 0 =>
           c.level[p] = b.level[p] /\ c.owner[p] = b.owner[p] /\ c.begin[p] = b.begin[p],
         Within(b, o), Allocated(b, o), phase' = phase, spaces \subseteq spaces'
  PROVE  Within(c, o)' /\ Allocated(c, o)'
<1>1. o.at \in Page /\ o.level \in 1 .. 4 /\ (o.new # NULL => o.new \in Page)
  BY DEF Op
<1>2. Within(c, o)'
  BY <1>1 DEF Within, OnWay
<1>3. Allocated(c, o)'
  BY <1>1 DEF Allocated, OnWay
<1>. QED
  BY <1>2, <1>3

\* One mapping goes on, the others stay where they are.
LEMMA OneMoves ==
  ASSUME Kinds, NEW b \in Labels, OpsFit(b), OneAtBoot,
         NEW t \in Thread, NEW o \in {Idle} \cup Op,
         op' = [op EXCEPT ![t] = o], phase' = phase, spaces' = spaces, op[t] # Idle,
         o # Idle => o.root = op[t].root /\ Within(b, o)' /\ Allocated(b, o)'
  PROVE  OpsFit(b)' /\ OneAtBoot' /\ op' \in [Thread -> {Idle} \cup Op]
<1>1. op' \in [Thread -> {Idle} \cup Op]
  BY DEF Kinds
<1>2. op'[t] = o /\ \A u \in Thread \ {t} : op'[u] = op[u]
  BY DEF Kinds
<1>3. ASSUME NEW u \in Thread, op'[u] # Idle
      PROVE  Within(b, op[u])' /\ Allocated(b, op[u])'
  <2>1. PICK x \in {Idle} \cup Op : x = op'[u]
    BY <1>1
  <2>2. x \in Op
    BY <1>3, <2>1
  <2>3. Within(b, x)' /\ Allocated(b, x)'
    <3>1. CASE u = t
      BY <1>2, <1>3, <2>1, <3>1
    <3>2. CASE u # t
      <4>1. x = op[u]
        BY <1>2, <2>1, <3>2
      <4>2. Within(b, x) /\ Allocated(b, x)
        BY <1>3, <2>1, <4>1 DEF OpsFit
      <4>. QED
        BY <2>2, <4>2, StillWithin
    <3>. QED
      BY <3>1, <3>2
  <2>. QED
    BY <2>1, <2>3 DEF Within, Allocated
<1>4. OpsFit(b)'
  BY <1>3 DEF OpsFit
<1>5. OneAtBoot'
  BY <1>2 DEF OneAtBoot
<1>. QED
  BY <1>1, <1>4, <1>5
-----------------------------------------------------------------------------
(***************************************************************************)
(* The invariant holds at first, and each action keeps it.                 *)
(***************************************************************************)
\* The entries of the boot loader's tables, and of pages that hold none.
LEMMA BootEntries ==
  ASSUME VirtualMemoryAssumption
  PROVE  /\ \A i \in Index : BootTables[Kernel][i] = IF i = 0 THEN TableAt(1, FALSE) ELSE Absent
         /\ \A i \in Index : BootTables[1][i] = IF i < Low THEN TableAt(2 + i, FALSE) ELSE Absent
         /\ \A p \in Page, i \in Index : 2 <= p /\ p <= Low + 1 => BootTables[p][i] = Huge
         /\ \A p \in Page, i \in Index :
              p # Kernel /\ p # 1 /\ ~(2 <= p /\ p <= Low + 1) => BootTables[p][i] = TableAt(Kernel, TRUE)
<1>1. \A i \in Index : BootTables[Kernel][i] = IF i = 0 THEN TableAt(1, FALSE) ELSE Absent
  <2>1. BootTables[Kernel] = [i \in Index |-> IF i = 0 THEN TableAt(1, FALSE) ELSE Absent]
    BY PageFacts DEF BootTables, Kernel
  <2>. QED
    BY <2>1
<1>2. \A i \in Index : BootTables[1][i] = IF i < Low THEN TableAt(2 + i, FALSE) ELSE Absent
  <2>1. BootTables[1] = [i \in Index |-> IF i < Low THEN TableAt(2 + i, FALSE) ELSE Absent]
    BY PageFacts DEF BootTables, Kernel
  <2>. QED
    BY <2>1
<1>3. \A p \in Page, i \in Index : 2 <= p /\ p <= Low + 1 => BootTables[p][i] = Huge
  <2>1. \A p \in Page : 2 <= p /\ p <= Low + 1 => BootTables[p] = [i \in Index |-> Huge]
    BY PageFacts DEF BootTables, Kernel
  <2>. QED
    BY <2>1
<1>4. \A p \in Page, i \in Index :
        p # Kernel /\ p # 1 /\ ~(2 <= p /\ p <= Low + 1) => BootTables[p][i] = TableAt(Kernel, TRUE)
  <2>1. \A p \in Page : p # Kernel /\ p # 1 /\ ~(2 <= p /\ p <= Low + 1) => BootTables[p] = Stale
    BY PageFacts DEF BootTables
  <2>. QED
    BY <2>1 DEF Stale
<1>. QED
  BY <1>1, <1>2, <1>3, <1>4

LEMMA InitIInv ==
  ASSUME VirtualMemoryAssumption, Init
  PROVE  IInv
<1> DEFINE boot(p) == 2 <= p /\ p <= Low + 1
           b == [level |-> [p \in Page |-> IF p = Kernel THEN 1 ELSE IF p = 1 THEN 2
                                          ELSE IF boot(p) THEN 3 ELSE 0],
                 owner |-> [p \in Page |-> Kernel],
                 begin |-> [p \in Page |-> [k \in 1 .. 4 |-> IF k = 2 /\ boot(p) THEN p - 2 ELSE 0]]]
<1>1. b \in Labels
  <2>1. \A p \in Page : boot(p) => p - 2 \in 0 .. Low - 1
    BY PageFacts
  <2>. QED
    BY <2>1, PageFacts DEF Labels, Va
<1>2. table = BootTables
  BY DEF Init
<1>3. \A i \in Index : BootTables[Kernel][i] = IF i = 0 THEN TableAt(1, FALSE) ELSE Absent
  BY BootEntries
<1>4. \A i \in Index : BootTables[1][i] = IF i < Low THEN TableAt(2 + i, FALSE) ELSE Absent
  BY BootEntries
<1>4t. ASSUME NEW i \in Index, i < Low
       PROVE  BootTables[1][i].kind = "table" /\ BootTables[1][i].page = 2 + i
  <2>1. BootTables[1][i] = TableAt(2 + i, FALSE)
    BY <1>4, <1>4t
  <2>2. TableAt(2 + i, FALSE).kind = "table" /\ TableAt(2 + i, FALSE).page = 2 + i
    BY DEF TableAt
  <2>. QED
    BY <2>1, <2>2
<1>4n. \A i \in Index : i < Low \/ BootTables[1][i] = Absent
  BY <1>4
<1>5. \A p \in Page, i \in Index : boot(p) => BootTables[p][i] = Huge
  BY BootEntries
<1>6. \A p \in Page, i \in Index :
        p # Kernel /\ p # 1 /\ ~boot(p) => BootTables[p][i] = TableAt(Kernel, TRUE)
  BY BootEntries
<1>7. table \in Contents
  <2>1. \A i \in Index : BootTables[Kernel][i] \in Entry
    BY <1>3, EntryFacts, PageFacts
  <2>2. \A i \in Index : BootTables[1][i] \in Entry
    <3>1. \A i \in Index : i < Low => 2 + i \in Page
      BY PageFacts
    <3>. QED
      BY <1>4, <3>1, EntryFacts
  <2>3. \A p \in Page, i \in Index : p # Kernel /\ p # 1 => BootTables[p][i] \in Entry
    BY <1>5, <1>6, EntryFacts, PageFacts
  <2>4. BootTables \in [Page -> [Index -> Entry]]
    <3> DEFINE row(p) == CASE p = Kernel -> [i \in Index |-> IF i = 0 THEN TableAt(1, FALSE) ELSE Absent]
                           [] p = 1 -> [i \in Index |-> IF i < Low THEN TableAt(2 + i, FALSE) ELSE Absent]
                           [] p \in 2 .. Low + 1 -> [i \in Index |-> Huge]
                           [] OTHER -> Stale
    <3>1. BootTables = [p \in Page |-> row(p)]
      BY DEF BootTables
    <3>2. ASSUME NEW p \in Page PROVE row(p) = [i \in Index |-> row(p)[i]]
      <4>1. CASE p = Kernel
        BY <4>1 DEF Kernel
      <4>2. CASE p = 1
        BY <4>2 DEF Kernel
      <4>3. CASE p \in 2 .. Low + 1
        BY <4>3 DEF Kernel
      <4>4. CASE p # Kernel /\ p # 1 /\ p \notin 2 .. Low + 1
        BY <4>4 DEF Stale
      <4>. QED
        BY <4>1, <4>2, <4>3, <4>4
    <3> HIDE DEF row
    <3>3. \A p \in Page : BootTables[p] = row(p)
      BY <3>1
    <3>4. \A p \in Page, i \in Index : row(p)[i] \in Entry
      BY <2>1, <2>2, <2>3, <3>3
    <3>. QED
      BY <3>1, <3>2, <3>4
  <2>. QED
    BY <1>2, <2>4 DEF Contents
<1>8. Kinds
  BY <1>7, PageFacts DEF Init, Kinds, Page
<1>9. /\ \A p \in Page : b.level[p] = IF p = Kernel THEN 1 ELSE IF p = 1 THEN 2
                                     ELSE IF boot(p) THEN 3 ELSE 0
      /\ \A p \in Page : b.owner[p] = Kernel
      /\ \A p \in Page : b.begin[p] = [k \in 1 .. 4 |-> IF k = 2 /\ boot(p) THEN p - 2 ELSE 0]
  OBVIOUS
<1> HIDE DEF b
<1>10. LinksFit(BootTables, b)
  <2>1. LinkFits(b, Kernel, 0, 1)
    <3>0. b.begin[1] = [k \in 1 .. 4 |-> 0] /\ b.begin[Kernel] = [k \in 1 .. 4 |-> 0]
      <4>1. ~boot(1) /\ ~boot(Kernel)
        BY DEF Kernel
      <4>. QED
        BY <1>9, <4>1, PageFacts
    <3>1. b.begin[1] = [b.begin[Kernel] EXCEPT ![1] = 0]
      BY <3>0
    <3>2. b.level[Kernel] = 1 /\ b.level[1] = 2 /\ b.owner[Kernel] = Kernel /\ b.owner[1] = Kernel
      BY <1>9, PageFacts DEF Kernel
    <3>. QED
      BY <3>1, <3>2 DEF LinkFits, OwnerBelow
  <2>2. ASSUME NEW i \in 0 .. Low - 1
        PROVE  LinkFits(b, 1, i, 2 + i)
    <3>0. /\ b.begin[1] = [k \in 1 .. 4 |-> 0]
          /\ b.begin[2 + i] = [k \in 1 .. 4 |-> IF k = 2 THEN i ELSE 0]
      <4>1. ~boot(1) /\ boot(2 + i) /\ 2 + i \in Page /\ (2 + i) - 2 = i
        BY PageFacts
      <4>. QED
        BY <1>9, <4>1, PageFacts
    <3>1. b.begin[2 + i] = [b.begin[1] EXCEPT ![2] = i]
      BY <3>0
    <3>2. boot(2 + i) /\ ~boot(1) /\ 2 + i \in Page
      BY PageFacts
    <3>3. b.level[2 + i] = 3 /\ b.level[1] = 2 /\ b.owner[1] = Kernel /\ b.owner[2 + i] = Kernel
      BY <1>9, <3>2, PageFacts DEF Kernel
    <3>4. OwnerBelow(Kernel, 2, i) = Kernel
      BY DEF OwnerBelow
    <3>. QED
      BY <3>1, <3>3, <3>4 DEF LinkFits
  <2>3. ASSUME NEW p \in Page, NEW i \in Index, b.level[p] # 0, BootTables[p][i].kind = "table"
        PROVE  \/ p = Kernel /\ i = 0 /\ BootTables[p][i].page = 1
               \/ p = 1 /\ i \in 0 .. Low - 1 /\ BootTables[p][i].page = 2 + i
    <3>1. ~boot(p)
      BY <1>5, <2>3, HugeIsNone
    <3>2. CASE p = Kernel
      BY <1>3, <2>3, <3>2, TableKind, HugeIsNone
    <3>3. CASE p = 1
      BY <1>4n, <1>4t, <2>3, <3>3, HugeIsNone, PageFacts
    <3>. QED
      BY <1>9, <2>3, <3>1, <3>2, <3>3
  <2>. QED
    BY <2>1, <2>2, <2>3 DEF LinksFit
<1>11. EntriesFit(BootTables, b)
  <2>1. ASSUME NEW p \in Page, NEW i \in Index PROVE EntryFits(b, p, BootTables[p][i])
    <3>1. CASE p = Kernel \/ p = 1
      <4>1. b.level[p] \in {1, 2}
        BY <1>9, <3>1, PageFacts DEF Kernel
      <4>2. BootTables[p][i].kind \in {"absent", "table"}
        <5>1. CASE p = Kernel
          BY <1>3, <5>1, AbsentKind, TableKind
        <5>2. CASE p = 1
          BY <1>4n, <1>4t, <5>2, AbsentKind
        <5>. QED
          BY <3>1, <5>1, <5>2
      <4>. QED
        BY <4>1, <4>2 DEF EntryFits
    <3>2. CASE boot(p)
      BY <1>5, <1>9, <3>2, EntryFacts, PageFacts DEF EntryFits, Kernel
    <3>3. CASE p # Kernel /\ p # 1 /\ ~boot(p)
      BY <1>9, <3>3 DEF EntryFits
    <3>. QED
      BY <3>1, <3>2, <3>3
  <2>. QED
    BY <2>1 DEF EntriesFit
<1>12. KernelTables(BootTables, b)
  <2>1. \A p \in Page : b.level[p] = 3 => boot(p)
    BY <1>9
  <2>2. BootTables[Kernel][0].kind = "table" /\ BootTables[Kernel][0].page = 1
    BY <1>3, TableKind, PageFacts
  <2>3. \A i \in 0 .. Low - 1 : BootTables[1][i].kind = "table"
    BY <1>4t, PageFacts
  <2>4. b.level[Kernel] = 1 /\ b.owner[Kernel] = Kernel
    BY <1>9, PageFacts
  <2>. QED
    BY <1>5, <2>1, <2>2, <2>3, <2>4 DEF KernelTables, StaysHuge
<1>13. UserTables(BootTables, b)
  <2>1. \A i \in Index \ {0} : BootTables[Kernel][i].kind # "table"
    BY <1>3, EntryFacts
  <2>2. \A p \in Page : b.level[p] = 1 => p = Kernel
    BY <1>9
  <2>. QED
    BY <1>9, <2>1, <2>2 DEF UserTables
<1>14. RootsLabelled(b)
  <2>1. b.begin[Kernel] = Zero
    BY <1>9, PageFacts DEF Zero, Kernel
  <2>2. \A p \in free : p \in Page /\ p # Kernel /\ p # 1 /\ ~boot(p)
    BY PageFacts DEF Init, Page, Kernel
  <2>3. \A p \in Page : b.level[p] = 1 <=> p = Kernel
    BY <1>9
  <2>. QED
    BY <1>9, <2>1, <2>2, <2>3, PageFacts DEF Init, RootsLabelled
<1>15. OpsFit(b) /\ OneAtBoot
  BY DEF Init, OpsFit, OneAtBoot
<1>. QED
  BY <1>1, <1>2, <1>8, <1>10, <1>11, <1>12, <1>13, <1>14, <1>15 DEF IInv, Fits, Tree

LEMMA MapPageIInv ==
  ASSUME VirtualMemoryAssumption, IInv, NEW t \in Thread, MapPage(t)
  PROVE  IInv'
<1>1. PICK b \in Labels : Fits(b)
  BY DEF IInv
<1>2. PICK o : o = [level |-> 1, root |-> Kernel, va |-> KernelVa, leaf |-> TestPage,
                    at |-> Kernel, new |-> NULL]
  OBVIOUS
<1>3. o \in Op /\ op' = [op EXCEPT ![t] = o]
  BY <1>2, PageFacts DEF Op, MapPage, Start
<1>4. \A u \in Thread : op[u] = Idle
  <2>1. ASSUME NEW u \in Thread, op[u] # Idle PROVE FALSE
    BY <1>1, <2>1 DEF Fits, OpsFit, Within, MapPage
  <2>. QED
    BY <2>1
<1>5. \A u \in Thread : op'[u] = IF u = t THEN o ELSE Idle
  BY <1>3, <1>4 DEF IInv, Kinds
<1>6. (Within(b, o) /\ Allocated(b, o))'
  <2>1. OnWay(b, Kernel, KernelVa, Kernel, 1)
    BY <1>1, PageFacts, VaFacts, BeginNext DEF Fits, RootsLabelled, Tree, KernelTables, OnWay, OwnerOf
  <2>. QED
    BY <1>1, <1>2, <2>1 DEF Within, Allocated, MapPage, Fits, RootsLabelled
<1>7. OpsFit(b)'
  <2>1. ASSUME NEW u \in Thread, op'[u] # Idle PROVE (Within(b, op[u]) /\ Allocated(b, op[u]))'
    BY <1>5, <1>6, <2>1 DEF Within, Allocated
  <2>. QED
    BY <2>1 DEF OpsFit
<1>8. OneAtBoot'
  BY <1>5 DEF OneAtBoot
<1>9. RootsLabelled(b)' /\ Tree(table, b)'
  BY <1>1 DEF Fits, RootsLabelled, MapPage, Tree, LinksFit, EntriesFit, KernelTables, UserTables
<1>10. Kinds'
  BY <1>3 DEF IInv, Kinds, MapPage
<1>. QED
  BY <1>7, <1>8, <1>9, <1>10 DEF IInv, Fits

LEMMA MapPageIntoIInv ==
  ASSUME VirtualMemoryAssumption, IInv, NEW t \in Thread, MapPageInto(t)
  PROVE  IInv'
<1>1. PICK b \in Labels : Fits(b)
  BY DEF IInv
<1>2. PICK root \in spaces \ {Kernel}, va \in UserVa, leaf \in UserPage : Start(t, root, va, leaf)
  BY LeafIsUser DEF MapPageInto
<1>3. PICK o : o = [level |-> 1, root |-> root, va |-> va, leaf |-> leaf,
                    at |-> root, new |-> NULL]
  OBVIOUS
<1>4. root \in Page
  BY DEF IInv, Kinds
<1>5. o \in Op /\ op' = [op EXCEPT ![t] = o]
  BY <1>2, <1>3, <1>4 DEF Op, Start
<1>6. (Within(b, o) /\ Allocated(b, o))'
  <2>1. OnWay(b, root, va, root, 1)
    BY <1>1, <1>4, VaFacts, BeginNext DEF Fits, RootsLabelled, OnWay, OwnerOf
  <2>. QED
    BY <1>1, <1>3, <1>4, <2>1 DEF Within, Allocated, MapPageInto
<1>7. /\ op'[t] = o /\ op[t] = Idle
      /\ \A u \in Thread \ {t} : op'[u] = op[u]
  BY <1>2, <1>5 DEF IInv, Kinds, Start
<1>8. OpsFit(b)'
  <2>1. ASSUME NEW u \in Thread, op'[u] # Idle PROVE (Within(b, op[u]) /\ Allocated(b, op[u]))'
    <3>1. CASE u = t
      BY <1>6, <1>7, <3>1 DEF Within, Allocated
    <3>2. CASE u # t
      BY <1>1, <1>7, <2>1, <3>2 DEF Within, Allocated, Fits, OpsFit, MapPageInto
    <3>. QED
      BY <3>1, <3>2
  <2>. QED
    BY <2>1 DEF OpsFit
<1>9. OneAtBoot'
  <2>1. \A u \in Thread : op[u] # Idle => op[u].root # Kernel
    BY <1>1 DEF Fits, OpsFit, Within, MapPageInto
  <2>. QED
    BY <1>3, <1>7, <2>1 DEF OneAtBoot
<1>10. RootsLabelled(b)' /\ Tree(table, b)'
  BY <1>1 DEF Fits, RootsLabelled, MapPageInto, Tree, LinksFit, EntriesFit, KernelTables, UserTables
<1>11. Kinds'
  BY <1>5 DEF IInv, Kinds, MapPageInto
<1>. QED
  BY <1>8, <1>9, <1>10, <1>11 DEF IInv, Fits

LEMMA DescendIInv ==
  ASSUME VirtualMemoryAssumption, IInv, NEW t \in Thread, Descend(t)
  PROVE  IInv'
<1>1. PICK b \in Labels : Fits(b)
  BY DEF IInv
<1>2. op[t] \in Op /\ op[t] # Idle /\ op[t].level \in 1 .. 3 /\ op[t].new = NULL
  BY OpFacts DEF IInv, Kinds, Descend, AtTable
<1>3. PICK x \in Op : x = op[t]
  BY <1>2
<1>4. PICK c : c = table[x.at][x.va[x.level]].page
  OBVIOUS
<1>5. PICK o : o = [x EXCEPT !.level = x.level + 1, !.at = c]
  OBVIOUS
<1>6. Within(b, x) /\ x.level \in 1 .. 3
  BY <1>1, <1>2, <1>3 DEF Fits, OpsFit
<1>7. table[x.at][x.va[x.level]].kind = "table"
  BY <1>3 DEF Descend, EntryOf
<1>8. c \in Page /\ OnWay(b, x.root, x.va, c, x.level + 1)
  BY <1>1, <1>4, <1>6, <1>7, NextOnWay, OpFields DEF IInv, Kinds, Fits, Within
<1>9. /\ o \in Op /\ o.level = x.level + 1 /\ o.at = c
      /\ o.root = x.root /\ o.va = x.va /\ o.leaf = x.leaf /\ o.new = NULL
  <2>1. x.new = NULL /\ x.level + 1 \in 1 .. 4
    BY <1>2, <1>3
  <2>. QED
    BY <1>5, <1>8, <2>1 DEF Op
<1>10. op' = [op EXCEPT ![t] = o]
  BY <1>3, <1>4, <1>5 DEF Descend, EntryOf
<1>11. x.root # Kernel /\ x.level = 3 => x.va[2] >= Low
  <2>1. SUFFICES ASSUME x.root # Kernel, x.level = 3, x.va[2] < Low PROVE FALSE
    BY OpFields, VaFacts, PageFacts DEF Va
  <2>2. table[x.at][x.va[3]] = Huge
    BY <1>1, <1>6, <2>1, LowIsHuge, OpFields DEF IInv, Kinds, Fits, Within
  <2>. QED
    BY <1>7, <2>1, <2>2, HugeIsNone
<1>12. Within(b, o)' /\ Allocated(b, o)' /\ o.root = op[t].root
  BY <1>3, <1>6, <1>8, <1>9, <1>11 DEF Within, Allocated, Descend
<1>13. OpsFit(b)' /\ OneAtBoot' /\ op' \in [Thread -> {Idle} \cup Op]
  <2>1. Kinds /\ OneAtBoot /\ OpsFit(b)
    BY <1>1 DEF IInv, Fits
  <2>2. phase' = phase /\ spaces' = spaces
    BY DEF Descend
  <2>. QED
    BY <1>2, <1>9, <1>10, <1>12, <2>1, <2>2, OneMoves
<1>14. RootsLabelled(b)' /\ Tree(table, b)'
  BY <1>1 DEF Fits, RootsLabelled, Descend, Tree, LinksFit, EntriesFit, KernelTables, UserTables
<1>15. Kinds'
  BY <1>13 DEF IInv, Kinds, Descend
<1>. QED
  BY <1>13, <1>14, <1>15 DEF IInv, Fits

LEMMA RefuseIInv ==
  ASSUME VirtualMemoryAssumption, IInv, NEW t \in Thread, Refuse(t)
  PROVE  IInv'
<1>1. PICK b \in Labels : Fits(b)
  BY DEF IInv
<1>2. op[t] # Idle
  BY OpFacts DEF IInv, Kinds, Refuse, AtTable
<1>3. PICK o \in {Idle} \cup Op : o = Idle
  OBVIOUS
<1>4. op' = [op EXCEPT ![t] = o]
  BY <1>3 DEF Refuse
<1>5. OpsFit(b)' /\ OneAtBoot' /\ op' \in [Thread -> {Idle} \cup Op]
  BY <1>1, <1>2, <1>3, <1>4, OneMoves DEF Refuse, IInv, Fits
<1>6. RootsLabelled(b)' /\ Tree(table, b)'
  BY <1>1 DEF Fits, RootsLabelled, Refuse, Tree, LinksFit, EntriesFit, KernelTables, UserTables
<1>7. Kinds'
  BY <1>5 DEF IInv, Kinds, Refuse
<1>. QED
  BY <1>5, <1>6, <1>7 DEF IInv, Fits

\* The pages that are free after AllocPage.
LEMMA AllocPage ==
  ASSUME VirtualMemoryAssumption, free \subseteq Page, free # {}
  PROVE  Lowest \in free /\ Lowest \in Page /\ Taken \subseteq free /\ Lowest \notin Taken
<1>1. Lowest \in free
  BY PageFacts, MinFree DEF Lowest
<1>. QED
  BY <1>1 DEF Taken

\* An operation that is to allocate is where only its own space has tables.
LEMMA AllocatesOwn ==
  ASSUME VirtualMemoryAssumption, NEW tb \in Contents, NEW b \in Labels, Tree(tb, b),
         RootsLabelled(b), NEW x \in Op, Within(b, x), x.level \in 1 .. 3,
         tb[x.at][x.va[x.level]] = Absent, x.root # Kernel
  PROVE  x.level > 1 /\ x.va[2] >= Low
<1>1. /\ x.at \in Page /\ x.va \in UserVa /\ x.va \in Va /\ x.va[1] = 0 /\ x.va[2] \in Index
      /\ x.va[2] \in Nat
  BY OpFields, VaFacts, PageFacts DEF Within
<1>2. OnWay(b, x.root, x.va, x.at, x.level)
  BY DEF Within
<1>3. x.level # 1
  <2>1. SUFFICES ASSUME x.level = 1 PROVE FALSE
    OBVIOUS
  <2>2. b.level[x.at] = 1 /\ b.owner[x.at] = x.root
    BY <1>2, <2>1 DEF OnWay, OwnerOf
  <2>3. x.at # Kernel
    BY <2>2, KernelLabels
  <2>4. tb[x.at][0].kind = "table"
    BY <1>1, <2>2, <2>3 DEF Tree, UserTables
  <2>. QED
    BY <1>1, <2>1, <2>4, HugeIsNone
<1>4. CASE x.level = 2 /\ x.va[2] < Low
  <2>1. b.level[x.at] = 2 /\ b.owner[x.at] = x.root
    BY <1>1, <1>2, <1>4 DEF OnWay, OwnerOf
  <2>2. x.va[2] \in 0 .. Low - 1
    BY <1>1, <1>4, PageFacts
  <2>3. tb[x.at][x.va[2]] = tb[1][x.va[2]] /\ tb[1][x.va[2]].kind = "table"
    BY <1>1, <2>1, <2>2 DEF Tree, UserTables, KernelTables
  <2>. QED
    BY <1>4, <2>3, HugeIsNone
<1>5. CASE x.level = 3 /\ x.va[2] < Low
  <2>1. tb[x.at][x.va[3]] = Huge
    BY <1>1, <1>2, <1>5, LowIsHuge
  <2>. QED
    BY <1>5, <2>1, HugeIsNone
<1>. QED
  BY <1>1, <1>3, <1>4, <1>5, PageFacts

\* Below Low only the kernel's own tables are of the third level.
LEMMA NotStaysHuge ==
  ASSUME VirtualMemoryAssumption, NEW b \in Labels, NEW s, NEW va \in Va, NEW p \in Page,
         NEW n \in 1 .. 4, OnWay(b, s, va, p, n), NEW i,
         va[1] # 0 \/ va[2] >= Low
  PROVE  ~StaysHuge(b, p, i)
<1>1. va[2] \in Nat
  BY VaFacts, PageFacts
<1>2. CASE n = 3
  <2>1. b.begin[p][1] = va[1] /\ b.begin[p][2] = va[2]
    BY <1>2 DEF OnWay, BeginAt
  <2>. QED
    BY <1>1, <2>1, PageFacts DEF StaysHuge
<1>3. CASE n # 3
  BY <1>3 DEF StaysHuge, OnWay
<1>. QED
  BY <1>2, <1>3

LEMMA GetOrAllocIInv ==
  ASSUME VirtualMemoryAssumption, IInv, NEW t \in Thread, GetOrAlloc(t)
  PROVE  IInv'
<1>1. PICK b \in Labels : Fits(b)
  BY DEF IInv
<1>2. op[t] \in Op /\ op[t] # Idle /\ op[t].level \in 1 .. 3 /\ op[t].new = NULL
  BY OpFacts DEF IInv, Kinds, GetOrAlloc, AtTable
<1>3. PICK x \in Op : x = op[t]
  BY <1>2
<1>4. PICK p \in Page : p = Lowest /\ p \in free /\ p \notin Taken /\ Taken \subseteq free
  BY AllocPage DEF IInv, Kinds, GetOrAlloc
<1>5. PICK o : o = [x EXCEPT !.new = p]
  OBVIOUS
<1>6. /\ o \in Op /\ o.level = x.level /\ o.at = x.at /\ o.new = p
      /\ o.root = x.root /\ o.va = x.va /\ o.leaf = x.leaf
  BY <1>5 DEF Op
<1>7. op' = [op EXCEPT ![t] = o]
  BY <1>3, <1>4, <1>5 DEF GetOrAlloc
<1>8. /\ Within(b, x) /\ x.level \in 1 .. 3 /\ x.at \in Page /\ x.va \in Va /\ x.root \in Page
      /\ x.level + 1 \in 2 .. 4 /\ table[x.at][x.va[x.level]] = Absent
  BY <1>1, <1>2, <1>3, OpFields DEF Fits, OpsFit, GetOrAlloc, EntryOf
<1>9. Tree(table, b) /\ RootsLabelled(b) /\ table \in Contents
  BY <1>1 DEF IInv, Kinds, Fits
<1>10. x.root # Kernel => x.level > 1 /\ x.va[2] >= Low
  BY <1>8, <1>9, AllocatesOwn
<1>11. x.root = Kernel => x.va = KernelVa
  BY <1>8 DEF Within
<1>12. PICK c : c = Label(b, p, x.level + 1, x.root, BeginAt(x.va, x.level + 1))
  OBVIOUS
<1>13. /\ c \in Labels /\ SameLabels(b, c, p) /\ c.level[p] = x.level + 1
       /\ c.owner[p] = x.root /\ c.begin[p] = BeginAt(x.va, x.level + 1)
  <2>1. BeginAt(x.va, x.level + 1) \in Va /\ x.level + 1 \in 0 .. 4
    BY <1>8, BeginNext
  <2>. QED
    <3>1. PICK n \in 0 .. 4, w \in Va : n = x.level + 1 /\ w = BeginAt(x.va, x.level + 1)
      BY <2>1
    <3>2. c = Label(b, p, n, x.root, w)
      BY <1>12, <3>1
    <3>3. x.root \in Page
      BY <1>8
    <3>4. c \in Labels /\ SameLabels(b, c, p) /\ c.level[p] = n /\ c.owner[p] = x.root /\ c.begin[p] = w
      BY <3>2, <3>3 DEF Label, Labels, SameLabels
    <3>. QED
      BY <3>1, <3>4
<1>14. OwnerOf(x.root, x.va, x.level + 1) = x.root
  <2>1. x.root # Kernel => x.va[1] = 0 /\ ~(x.va[2] < Low)
    BY <1>8, <1>10, VaFacts, PageFacts DEF Within
  <2>. QED
    BY <2>1 DEF OwnerOf
<1>15. OnWay(c, x.root, x.va, p, x.level + 1)
  BY <1>13, <1>14 DEF OnWay
<1>16. b.level[p] = 0
  BY <1>4, <1>9 DEF RootsLabelled
<1>17. x.va[1] # 0 \/ x.va[2] >= Low
  BY <1>10, <1>11, VaFacts
<1>18. /\ table' \in Contents /\ table'[p] = Cleared(p)
       /\ \A q \in Page \ {p} : table'[q] = table[q]
  <2>1. Cleared(p) \in [Index -> Entry]
    BY EntryFacts DEF Cleared
  <2>2. PICK t2 : t2 = table'
    OBVIOUS
  <2>3. t2 = [table EXCEPT ![p] = Cleared(p)]
    BY <1>4, <2>2 DEF GetOrAlloc
  <2>4. t2 \in Contents /\ t2[p] = Cleared(p) /\ \A q \in Page \ {p} : t2[q] = table[q]
    <3>1. PICK row \in [Index -> Entry] : row = Cleared(p)
      BY <2>1
    <3>2. t2 = [table EXCEPT ![p] = row]
      BY <2>3, <3>1
    <3>. QED
      BY <1>9, <3>1, <3>2 DEF Contents
  <2>. QED
    BY <2>2, <2>4
<1>19. Tree(table, c)'
  <2>1. \A i \in Index : table'[p][i] = Absent
    BY <1>18 DEF Cleared
  <2>2. \A i \in Index : ~StaysHuge(c, p, i)
    BY <1>8, <1>13, <1>15, <1>17, NotStaysHuge
  <2>3. \A i \in Index : EntryFits(c, p, Absent)
    BY AbsentKind DEF EntryFits
  <2>4. c.level[p] # 1 /\ ~(c.level[p] = 2 /\ c.owner[p] # Kernel)
    BY <1>8, <1>10, <1>13
  <2>5. Absent.kind # "table"
    BY HugeIsNone
  <2>6. PICK t2 \in Contents : t2 = table'
    BY <1>18
  <2>7. Tree(t2, c)
    BY <1>9, <1>13, <1>16, <1>18, <2>1, <2>2, <2>3, <2>4, <2>5, <2>6, NewTable
  <2>. QED
    BY <2>6, <2>7 DEF Tree, LinksFit, EntriesFit, KernelTables, UserTables
<1>20. RootsLabelled(c)'
  BY <1>4, <1>8, <1>9, <1>13, <1>16 DEF RootsLabelled, SameLabels, GetOrAlloc, Within, IInv, Kinds
<1>21. \A q \in Page : b.level[q] # 0 =>
          c.level[q] = b.level[q] /\ c.owner[q] = b.owner[q] /\ c.begin[q] = b.begin[q]
  BY <1>13, <1>16 DEF SameLabels
<1>22. Within(c, o)' /\ Allocated(c, o)' /\ o.root = op[t].root
  <2>1. OnWay(c, x.root, x.va, x.at, x.level)
    BY <1>8, <1>21 DEF Within, OnWay
  <2>. QED
    BY <1>3, <1>6, <1>8, <1>10, <1>15, <2>1 DEF Within, Allocated, GetOrAlloc
<1>23. OpsFit(c)
  <2>1. ASSUME NEW u \in Thread, op[u] # Idle
        PROVE  Within(c, op[u]) /\ Allocated(c, op[u])
    <3>1. op[u] \in Op /\ Within(b, op[u]) /\ Allocated(b, op[u])
      BY <1>1, <2>1, OpFacts DEF Fits, OpsFit, IInv, Kinds
    <3>2. op[u].at \in Page /\ op[u].level \in 1 .. 4 /\ (op[u].new # NULL => op[u].new \in Page)
      BY <3>1 DEF Op
    <3>3. Within(c, op[u])
      BY <1>21, <3>1, <3>2 DEF Within, OnWay
    <3>4. Allocated(c, op[u])
      BY <1>21, <3>1, <3>2 DEF Allocated, OnWay
    <3>. QED
      BY <3>3, <3>4
  <2>. QED
    BY <2>1 DEF OpsFit
<1>24. OpsFit(c)' /\ OneAtBoot' /\ op' \in [Thread -> {Idle} \cup Op]
  <2>1. Kinds /\ OneAtBoot /\ phase' = phase /\ spaces' = spaces
    BY DEF IInv, GetOrAlloc
  <2>. QED
    BY <1>2, <1>6, <1>7, <1>13, <1>22, <1>23, <2>1, OneMoves
<1>25. Kinds'
  BY <1>4, <1>18, <1>24 DEF IInv, Kinds, GetOrAlloc
<1>. QED
  BY <1>13, <1>19, <1>20, <1>24, <1>25 DEF IInv, Fits

LEMMA LinkIInv ==
  ASSUME VirtualMemoryAssumption, IInv, NEW t \in Thread, Link(t)
  PROVE  IInv'
<1>1. PICK b \in Labels : Fits(b)
  BY DEF IInv
<1>2. op[t] \in Op /\ op[t] # Idle /\ op[t].level \in 1 .. 3 /\ op[t].new # NULL
  BY OpFacts DEF IInv, Kinds, Link
<1>3. PICK x \in Op : x = op[t]
  BY <1>2
<1>4. PICK o : o = [x EXCEPT !.level = x.level + 1, !.at = x.new, !.new = NULL]
  OBVIOUS
<1>5. /\ Within(b, x) /\ Allocated(b, x) /\ x.level \in 1 .. 3 /\ x.at \in Page /\ x.va \in Va
      /\ x.root \in Page /\ x.level + 1 \in 2 .. 4 /\ x.new \in Page /\ x.new # NULL
      /\ x.va[x.level] \in Index
  BY <1>1, <1>2, <1>3, OpFields DEF Fits, OpsFit
<1>6. /\ o \in Op /\ o.level = x.level + 1 /\ o.at = x.new /\ o.new = NULL
      /\ o.root = x.root /\ o.va = x.va /\ o.leaf = x.leaf
  <2>1. x.level + 1 \in 1 .. 4 /\ x.new \in Page
    BY <1>5
  <2>. QED
    BY <1>4, <2>1 DEF Op
<1>7. op' = [op EXCEPT ![t] = o]
  BY <1>3, <1>4 DEF Link
<1>8. Tree(table, b) /\ RootsLabelled(b) /\ table \in Contents
  BY <1>1 DEF IInv, Kinds, Fits
<1>9. PICK i \in Index : i = x.va[x.level]
  BY <1>5
<1>10. PICK t2 \in Contents :
         t2 = table' /\ LeadsTo(t2[x.at][i], x.new) /\ SameBut(table, t2, x.at, i)
  <2>1. PICK e \in Entry : e = TableAt(x.new, TRUE)
    BY <1>5, EntryFacts
  <2>2. table' = [table EXCEPT ![x.at][i] = e]
    BY <1>3, <1>9, <2>1 DEF Link
  <2>3. LeadsTo(e, x.new)
    BY <2>1, OpenTable, Zenon
  <2>4. table' \in Contents /\ table'[x.at][i] = e
    BY <1>5, <1>8, <2>2 DEF Contents
  <2>5. SameBut(table, table', x.at, i)
    <3>1. table[x.at] \in [Index -> Entry] /\ \A q \in Page : q # x.at => table'[q] = table[q]
      BY <1>5, <1>8, <2>2 DEF Contents
    <3>2. \A j \in Index : j # i => table'[x.at][j] = table[x.at][j]
      BY <1>5, <1>8, <2>2, <3>1 DEF Contents
    <3>. QED
      BY <3>1, <3>2, Zenon DEF SameBut
  <2>. QED
    BY <2>3, <2>4, <2>5
<1>11. OnWay(b, x.root, x.va, x.at, x.level) /\ OnWay(b, x.root, x.va, x.new, x.level + 1)
  BY <1>5 DEF Within, Allocated
<1>12. LinkFits(b, x.at, i, x.new)
  BY <1>5, <1>9, <1>11, FitsOnWay
<1>13. x.root = Kernel => x.va = KernelVa /\ x.va[1] # 0
  BY <1>5, VaFacts DEF Within
<1>14. x.root # Kernel => x.level > 1 /\ x.va[2] >= Low /\ x.va[1] = 0 /\ ~(x.va[2] < Low)
  BY <1>5, VaFacts, PageFacts DEF Within, Allocated
<1>15. ~StaysHuge(b, x.at, i)
  BY <1>5, <1>11, <1>13, <1>14, NotStaysHuge
<1>16. ASSUME x.level = 1
       PROVE  x.at = Kernel /\ i # 0 /\ \A q \in Page : b.level[q] = 1 => q = Kernel
  <2>1. x.root = Kernel
    BY <1>14, <1>16
  <2>2. phase # "run" /\ spaces = {Kernel}
    BY <1>5, <1>8, <2>1 DEF Within, RootsLabelled
  <2>3. b.level[x.at] = 1
    BY <1>11, <1>16 DEF OnWay
  <2>. QED
    BY <1>5, <1>8, <1>9, <1>13, <1>16, <2>1, <2>2, <2>3 DEF RootsLabelled
<1>17. ASSUME x.level = 2
       PROVE  x.at # 1 /\ (b.owner[x.at] # Kernel => i >= Low)
  <2>1. CASE x.root = Kernel
    <3>1. b.owner[x.at] = Kernel /\ b.begin[x.at] = BeginAt(x.va, 2)
      BY <1>11, <1>17, <2>1 DEF OnWay, OwnerOf
    <3>2. b.begin[x.at][1] # 0
      BY <1>13, <2>1, <3>1 DEF BeginAt
    <3>3. b.begin[1][1] = 0
      <4>1. LinkFits(b, Kernel, 0, 1) /\ b.level[Kernel] = 1 /\ b.begin[Kernel] \in Va
        BY <1>8, PageFacts DEF Tree, KernelTables, LinksFit, Labels
      <4>. QED
        BY <4>1 DEF LinkFits, Va
    <3>. QED
      BY <3>1, <3>2, <3>3
  <2>2. CASE x.root # Kernel
    <3>1. b.owner[x.at] = x.root
      BY <1>11, <1>14, <1>17, <2>2 DEF OnWay, OwnerOf
    <3>2. x.at # 1
      BY <1>8, <2>2, <3>1, KernelLabels
    <3>. QED
      BY <1>9, <1>14, <1>17, <2>2, <3>2
  <2>. QED
    BY <2>1, <2>2
<1>18. Tree(table, b)'
  <2>1. b.level[x.at] = x.level
    BY <1>11 DEF OnWay
  <2>2. Tree(t2, b)
    BY <1>5, <1>8, <1>9, <1>10, <1>12, <1>15, <1>16, <1>17, <2>1, LinkSet
  <2>. QED
    BY <1>10, <2>2 DEF Tree, LinksFit, EntriesFit, KernelTables, UserTables
<1>19. RootsLabelled(b)'
  BY <1>8 DEF RootsLabelled, Link
<1>20. Within(b, o)' /\ Allocated(b, o)' /\ o.root = op[t].root
  BY <1>3, <1>5, <1>6, <1>11, <1>14 DEF Within, Allocated, Link
<1>21. OpsFit(b)' /\ OneAtBoot' /\ op' \in [Thread -> {Idle} \cup Op]
  <2>1. Kinds /\ OneAtBoot /\ OpsFit(b)
    BY <1>1 DEF IInv, Fits
  <2>2. phase' = phase /\ spaces' = spaces
    BY DEF Link
  <2>. QED
    BY <1>2, <1>6, <1>7, <1>20, <2>1, <2>2, OneMoves
<1>22. Kinds'
  BY <1>10, <1>21 DEF IInv, Kinds, Link
<1>. QED
  BY <1>18, <1>19, <1>21, <1>22 DEF IInv, Fits

LEMMA SetEntryIInv ==
  ASSUME VirtualMemoryAssumption, IInv, NEW t \in Thread, SetEntry(t)
  PROVE  IInv'
<1>1. PICK b \in Labels : Fits(b)
  BY DEF IInv
<1>2. op[t] \in Op /\ op[t] # Idle /\ op[t].level = 4
  BY OpFacts DEF IInv, Kinds, SetEntry
<1>3. PICK x \in Op : x = op[t]
  BY <1>2
<1>4. /\ Within(b, x) /\ x.level = 4 /\ x.at \in Page /\ x.va[4] \in Index /\ x.va \in Va
      /\ x.leaf \in Entry /\ x.leaf.kind = "page"
  BY <1>1, <1>2, <1>3, OpFields DEF Fits, OpsFit
<1>5. Tree(table, b) /\ RootsLabelled(b) /\ table \in Contents
  BY <1>1 DEF IInv, Kinds, Fits
<1>6. PICK i \in Index, e \in Entry : i = x.va[4] /\ e = x.leaf
  BY <1>4
<1>7. PICK t2 \in Contents : t2 = table' /\ t2[x.at][i] = e /\ SameBut(table, t2, x.at, i)
  <2>1. table' = [table EXCEPT ![x.at][i] = e]
    BY <1>3, <1>6 DEF SetEntry
  <2>. QED
    BY <1>4, <1>5, <2>1 DEF Contents, SameBut
<1>8. b.level[x.at] = 4 /\ b.owner[x.at] = OwnerOf(x.root, x.va, 4)
  BY <1>4 DEF Within, OnWay
<1>9. b.owner[x.at] # Kernel => e \in UserPage
  <2>1. x.root = Kernel => b.owner[x.at] = Kernel
    BY <1>8 DEF OwnerOf
  <2>. QED
    BY <1>4, <1>6, <2>1 DEF Within
<1>10. EntryFits(b, x.at, t2[x.at][i])
  BY <1>4, <1>6, <1>7, <1>8, <1>9 DEF EntryFits
<1>11. Tree(table, b)'
  <2>1. Tree(t2, b)
    BY <1>4, <1>5, <1>7, <1>8, <1>10, LeafSet
  <2>. QED
    BY <1>7, <2>1 DEF Tree, LinksFit, EntriesFit, KernelTables, UserTables
<1>12. phase' # "run" => phase # "run"
  BY DEF SetEntry
<1>13. RootsLabelled(b)'
  BY <1>5, <1>12 DEF RootsLabelled, SetEntry
<1>14. op' \in [Thread -> {Idle} \cup Op] /\ op'[t] = Idle /\ \A u \in Thread \ {t} : op'[u] = op[u]
  BY DEF SetEntry, IInv, Kinds
<1>15. OpsFit(b)'
  <2>1. ASSUME NEW u \in Thread, op'[u] # Idle PROVE Within(b, op[u])' /\ Allocated(b, op[u])'
    <3>1. u # t /\ op'[u] = op[u] /\ op[u] # Idle /\ Within(b, op[u]) /\ Allocated(b, op[u])
      BY <1>1, <1>14, <2>1 DEF Fits, OpsFit
    <3>2. phase' = phase
      <4>1. CASE phase = "mapping"
        <5>1. x.root = Kernel
          BY <1>4, <4>1 DEF Within
        <5>. QED
          BY <1>2, <1>3, <3>1, <5>1 DEF OneAtBoot, IInv
      <4>2. CASE phase # "mapping"
        BY <4>2 DEF SetEntry
      <4>. QED
        BY <4>1, <4>2
    <3>. QED
      BY <3>1, <3>2 DEF Within, Allocated, SetEntry
  <2>. QED
    BY <2>1 DEF OpsFit
<1>16. OneAtBoot'
  BY <1>14 DEF OneAtBoot, IInv
<1>17. Kinds'
  BY <1>7, <1>14 DEF IInv, Kinds, SetEntry
<1>. QED
  BY <1>11, <1>13, <1>15, <1>16, <1>17 DEF IInv, Fits
\* UnmapPageFrom and ProtectPageInto store in a table of the last level.
LEMMA StoreFits ==
  ASSUME VirtualMemoryAssumption, Kinds, NEW b \in Labels, Tree(table, b), RootsLabelled(b),
         NEW s \in spaces, NEW va \in Va, HasTable(s, va, 4),
         NEW e \in {Absent} \cup UserPage,
         table' = [table EXCEPT ![TableOf(s, va, 4)][va[4]] = e]
  PROVE  table' \in Contents /\ Tree(table, b)'
<1>1. s \in Page /\ table \in Contents
  BY DEF Kinds
<1>2. WalkFits(b, s, va, 4)
  BY <1>1, RootOnWay, WalkOnWay
<1>3. PICK p \in Page : p = TableOf(s, va, 4) /\ b.level[p] = 4
  BY <1>2 DEF WalkFits, OnWay
<1>4. PICK i \in Index : i = va[4]
  BY VaFacts
<1>5. e \in Entry /\ e.kind \in {"absent", "page"}
  BY EntryFacts
<1>6. PICK t2 \in Contents : t2 = table' /\ t2[p][i] = e /\ SameBut(table, t2, p, i)
  <2>1. table' = [table EXCEPT ![p][i] = e]
    BY <1>3, <1>4
  <2>. QED
    BY <1>1, <1>5, <2>1 DEF Contents, SameBut
<1>7. EntryFits(b, p, t2[p][i])
  BY <1>3, <1>5, <1>6 DEF EntryFits
<1>8. Tree(t2, b)
  BY <1>1, <1>3, <1>6, <1>7, LeafSet
<1>. QED
  BY <1>6, <1>8 DEF Tree, LinksFit, EntriesFit, KernelTables, UserTables

\* UnmapPage and UnmapPageFrom.
LEMMA ClearFits ==
  ASSUME VirtualMemoryAssumption, Kinds, NEW b \in Labels, Tree(table, b), RootsLabelled(b),
         NEW s \in spaces, NEW va \in Va, Clear(s, va)
  PROVE  table' \in Contents /\ Tree(table, b)'
<1>1. CASE HasTable(s, va, 4)
  <2>1. table' = [table EXCEPT ![TableOf(s, va, 4)][va[4]] = Absent]
    BY <1>1 DEF Clear
  <2>. QED
    BY <1>1, <2>1, StoreFits
<1>2. CASE ~HasTable(s, va, 4)
  <2>1. table' = table
    BY <1>2 DEF Clear
  <2>. QED
    BY <2>1 DEF Kinds, Tree, LinksFit, EntriesFit, KernelTables, UserTables
<1>. QED
  BY <1>1, <1>2

\* Before and after the mapping of the smoke test nobody maps.
LEMMA NobodyMaps ==
  ASSUME NEW b \in Labels, OpsFit(b), phase \notin {"mapping", "run"}
  PROVE  \A t \in Thread : op[t] = Idle
BY DEF OpsFit, Within

LEMMA UnmapPageIInv ==
  ASSUME VirtualMemoryAssumption, IInv, UnmapPage
  PROVE  IInv'
<1>1. PICK b \in Labels : Fits(b)
  BY DEF IInv
<1>2. \A t \in Thread : op[t] = Idle
  BY <1>1, NobodyMaps DEF Fits, UnmapPage
<1>3. spaces = {Kernel}
  BY <1>1 DEF Fits, RootsLabelled, UnmapPage
<1>4. table' \in Contents /\ Tree(table, b)'
  BY <1>1, <1>3, VaFacts, ClearFits DEF Fits, IInv, UnmapPage
<1>5. RootsLabelled(b)'
  BY <1>1, <1>3 DEF Fits, RootsLabelled, UnmapPage
<1>6. OpsFit(b)' /\ OneAtBoot'
  BY <1>2 DEF OpsFit, OneAtBoot, UnmapPage
<1>7. Kinds'
  BY <1>4 DEF IInv, Kinds, UnmapPage
<1>. QED
  BY <1>4, <1>5, <1>6, <1>7 DEF IInv, Fits

\* What only stores in tables leaves the labels and the mappings under way.
LEMMA OthersKept ==
  ASSUME IInv, NEW b \in Labels, Fits(b), table' \in Contents, Tree(table, b)',
         UNCHANGED <<free, spaces, phase, op>>
  PROVE  IInv'
<1>1. RootsLabelled(b)'
  BY DEF Fits, RootsLabelled
<1>2. OpsFit(b)' /\ OneAtBoot'
  BY DEF Fits, IInv, OpsFit, OneAtBoot, Within, Allocated
<1>3. Kinds'
  BY DEF IInv, Kinds
<1>. QED
  BY <1>1, <1>2, <1>3 DEF IInv, Fits

LEMMA UnmapPageFromIInv ==
  ASSUME VirtualMemoryAssumption, IInv, NEW t \in Thread, UnmapPageFrom(t)
  PROVE  IInv'
<1>1. PICK b \in Labels : Fits(b)
  BY DEF IInv
<1>2. PICK s \in spaces, va \in Va : Clear(s, va)
  BY VaFacts DEF UnmapPageFrom
<1>3. table' \in Contents /\ Tree(table, b)'
  BY <1>1, <1>2, ClearFits DEF Fits, IInv
<1>. QED
  BY <1>1, <1>3, OthersKept DEF UnmapPageFrom

\* A program's address with a table of the last level is not below Low.
LEMMA LastIsPrivate ==
  ASSUME VirtualMemoryAssumption, table \in Contents, NEW b \in Labels, Tree(table, b),
         NEW s \in Page, NEW va \in UserVa, OnWay(b, s, va, s, 1), HasTable(s, va, 4)
  PROVE  ~(va[2] < Low)
<1>1. SUFFICES ASSUME va[2] < Low PROVE FALSE
  OBVIOUS
<1>2. HasTable(s, va, 3) /\ Walk(s, va)[3].kind = "table"
  BY WalkTables
<1>3. va \in Va /\ WalkFits(b, s, va, 3)
  BY VaFacts, WalkOnWay
<1>4. PICK q \in Page : OnWay(b, s, va, q, 3) /\ Walk(s, va)[3] = table[q][va[3]]
  BY <1>2, <1>3 DEF WalkFits
<1>5. table[q][va[3]] = Huge
  BY <1>1, <1>4, LowIsHuge
<1>. QED
  BY <1>2, <1>4, <1>5, HugeIsNone

\* What ProtectPageInto changes is a page of the program's own.
LEMMA ProtectsUserPage ==
  ASSUME VirtualMemoryAssumption, Kinds, NEW b \in Labels, Tree(table, b), RootsLabelled(b),
         NEW s \in spaces \ {Kernel}, NEW va \in UserVa, NEW w \in BOOLEAN,
         Walk(s, va)[4].kind = "page",
         table' = [table EXCEPT ![TableOf(s, va, 4)][va[4]] = PageAt(@.frame, TRUE, w)]
  PROVE  /\ HasTable(s, va, 4)
         /\ \E e \in UserPage : table' = [table EXCEPT ![TableOf(s, va, 4)][va[4]] = e]
<1>1. s \in Page /\ table \in Contents /\ va \in Va /\ va[1] = 0
  BY VaFacts DEF Kinds
<1>2. OnWay(b, s, va, s, 1)
  BY <1>1, RootOnWay
<1>3. HasTable(s, va, 4)
  BY <1>1, <1>2, PageIsLast
<1>4. WalkFits(b, s, va, 4)
  BY <1>1, <1>2, WalkOnWay
<1>5. PICK p \in Page : /\ p = TableOf(s, va, 4) /\ OnWay(b, s, va, p, 4)
                        /\ Walk(s, va)[4] = table[p][va[4]]
  BY <1>3, <1>4 DEF WalkFits
<1>6. ~(va[2] < Low)
  BY <1>1, <1>2, <1>3, LastIsPrivate
<1>7. b.level[p] = 4 /\ b.owner[p] # Kernel
  BY <1>1, <1>5, <1>6 DEF OnWay, OwnerOf
<1>8. PICK i \in Index : i = va[4]
  BY <1>1, VaFacts
<1>9. table[p][i] \in UserPage
  BY <1>5, <1>7, <1>8, AbsentKind DEF Tree, EntriesFit, EntryFits
<1>10. PICK e \in UserPage : e = PageAt(table[p][i].frame, TRUE, w)
  BY <1>9, LeafIsUser DEF UserPage
<1>11. table' = [table EXCEPT ![TableOf(s, va, 4)][va[4]] = e]
  BY <1>5, <1>8, <1>10
<1>. QED
  BY <1>3, <1>11

LEMMA ProtectPageIntoIInv ==
  ASSUME VirtualMemoryAssumption, IInv, NEW t \in Thread, ProtectPageInto(t)
  PROVE  IInv'
<1>1. PICK b \in Labels : Fits(b)
  BY DEF IInv
<1>2. PICK s \in spaces \ {Kernel}, va \in UserVa, w \in BOOLEAN :
        /\ Walk(s, va)[4].kind = "page"
        /\ table' = [table EXCEPT ![TableOf(s, va, 4)][va[4]] = PageAt(@.frame, TRUE, w)]
  BY DEF ProtectPageInto
<1>3. Tree(table, b) /\ RootsLabelled(b) /\ Kinds /\ va \in Va
  BY <1>1, VaFacts DEF Fits, IInv
<1>4. HasTable(s, va, 4)
  BY <1>2, <1>3, ProtectsUserPage
<1>5. PICK e \in UserPage : table' = [table EXCEPT ![TableOf(s, va, 4)][va[4]] = e]
  BY <1>2, <1>3, ProtectsUserPage
<1>6. table' \in Contents /\ Tree(table, b)'
  BY <1>3, <1>4, <1>5, StoreFits
<1>. QED
  BY <1>1, <1>6, OthersKept DEF ProtectPageInto

-----------------------------------------------------------------------------
(***************************************************************************)
(* MapSharedUserData: only the kernel's tables are there.                  *)
(***************************************************************************)
LEMMA KernelAlone ==
  ASSUME Kinds, NEW b \in Labels, RootsLabelled(b), phase # "run"
  PROVE  /\ \A p \in Page : b.level[p] = 1 => p = Kernel
         /\ \A p \in Page : b.level[p] # 0 => b.owner[p] = Kernel
BY DEF RootsLabelled

\* The tables that it walks.
LEMMA KuserTables ==
  ASSUME VirtualMemoryAssumption, table \in Contents, NEW b \in Labels, Tree(table, b),
         RootsLabelled(b), Kernel \in spaces
  PROVE  /\ TableOf(Kernel, KuserVa, 2) = 1
         /\ TableOf(Kernel, KuserVa, 3) = table[1][KuserVa[2]].page
         /\ table[1][KuserVa[2]].kind = "table"
         /\ table[1][KuserVa[2]].page \in Page
         /\ OnWay(b, Kernel, KuserVa, table[1][KuserVa[2]].page, 3)
<1>1. /\ KuserVa \in Va /\ KuserVa[1] = 0 /\ KuserVa[2] \in 0 .. Low - 1 /\ KuserVa[2] \in Index
      /\ Kernel \in Page /\ 1 \in Page
  BY VaFacts, PageFacts
<1>2. table[Kernel][0].kind = "table" /\ table[Kernel][0].page = 1
  BY DEF Tree, KernelTables
<1>3. table[1][KuserVa[2]].kind = "table"
  BY <1>1 DEF Tree, KernelTables
<1>4. WalkFits(b, Kernel, KuserVa, 2) /\ WalkFits(b, Kernel, KuserVa, 3)
  BY <1>1, RootOnWay, WalkOnWay
<1>5. Walk(Kernel, KuserVa)[1] = table[Kernel][0]
  BY <1>1, WalkSteps
<1>6. TableOf(Kernel, KuserVa, 2) = 1 /\ HasTable(Kernel, KuserVa, 2)
  BY <1>2, <1>5, WalkTables
<1>7. Walk(Kernel, KuserVa)[2] = table[1][KuserVa[2]]
  BY <1>4, <1>6 DEF WalkFits
<1>8. HasTable(Kernel, KuserVa, 3) /\ TableOf(Kernel, KuserVa, 3) = table[1][KuserVa[2]].page
  BY <1>3, <1>6, <1>7, WalkTables
<1>. QED
  BY <1>3, <1>4, <1>6, <1>8 DEF WalkFits

\* The same, or a table that another level of privilege may use.
Alike(e, f) == f = e \/ (e.kind = "table" /\ f.kind = "table" /\ f.page = e.page)

\* The way to KuserVa opens, and all tables stay where they are.
LEMMA UserWayFits ==
  ASSUME VirtualMemoryAssumption, Kinds, NEW b \in Labels, Tree(table, b), RootsLabelled(b),
         phase # "run"
  PROVE  /\ UserWay(table) \in Contents /\ Tree(UserWay(table), b)
         /\ UserWay(table)[1][KuserVa[2]].page = table[1][KuserVa[2]].page
         /\ UserWay(table)[Kernel][0].user
         /\ \A q \in Page, j \in Index : Alike(table[q][j], UserWay(table)[q][j])
<1>1. /\ KuserVa[1] = 0 /\ KuserVa[2] \in 0 .. Low - 1 /\ KuserVa[2] \in Index /\ 0 \in Index
      /\ Kernel \in Page /\ 1 \in Page /\ Kernel # 1
  BY VaFacts, PageFacts DEF Kernel
<1>2. table \in Contents /\ Kernel \in spaces
  BY DEF Kinds, RootsLabelled
<1>3. TableOf(Kernel, KuserVa, 2) = 1
  BY <1>2, KuserTables
<1>4. /\ \A p \in Page : b.level[p] = 1 => p = Kernel
      /\ \A p \in Page : b.level[p] # 0 => b.owner[p] = Kernel
  BY KernelAlone
<1>5. b.level[Kernel] # 0 /\ b.level[1] # 0
  BY <1>2, KernelLabels
<1>6. PICK i \in Index : i = KuserVa[2]
  BY <1>1
<1>7. PICK e \in Entry : e = TableAt(table[Kernel][0].page, TRUE)
  BY <1>1, <1>2, EntryFacts, Shape DEF EntryShape, Tree, KernelTables
<1>8. PICK f \in Entry : f = TableAt(table[1][i].page, TRUE)
  BY <1>1, <1>2, <1>6, EntryFacts, Shape DEF EntryShape, Tree, KernelTables
<1>9. [table[Kernel][0] EXCEPT !.user = TRUE] = e
  <2>1. PICK old : old = table[Kernel][0] /\ old.kind = "table" /\ EntryShape(old)
    BY <1>1, <1>2, Shape DEF Tree, KernelTables
  <2>2. [old EXCEPT !.user = TRUE] = TableAt(old.page, TRUE)
    BY <2>1 DEF EntryShape
  <2>. QED
    BY <1>7, <2>1, <2>2, Zenon
<1>10. [table[1][i] EXCEPT !.user = TRUE] = f
  <2>1. PICK old : old = table[1][i] /\ old.kind = "table" /\ EntryShape(old)
    BY <1>1, <1>2, <1>6, Shape DEF Tree, KernelTables
  <2>2. [old EXCEPT !.user = TRUE] = TableAt(old.page, TRUE)
    BY <2>1 DEF EntryShape
  <2>. QED
    BY <1>8, <2>1, <2>2, Zenon
<1>11. PICK t1 : t1 = [table EXCEPT ![Kernel][0] = e]
  OBVIOUS
<1>12. t1 \in Contents /\ t1[Kernel][0] = e /\ SameBut(table, t1, Kernel, 0)
  BY <1>1, <1>2, <1>11 DEF Contents, SameBut
<1>13. Tree(t1, b)
  <2>1. LeadsTo(e, table[Kernel][0].page)
    BY <1>7, OpenTable, Zenon
  <2>. QED
    BY <1>1, <1>2, <1>4, <1>5, <1>12, <2>1, UserSet DEF Tree, KernelTables
<1>14. PICK t2 : t2 = [t1 EXCEPT ![1][i] = f]
  OBVIOUS
<1>15. t2 \in Contents /\ t2[1][i] = f /\ SameBut(t1, t2, 1, i)
  BY <1>1, <1>12, <1>14 DEF Contents, SameBut
<1>16. t1[1][i] = table[1][i]
  BY <1>1, <1>12 DEF SameBut
<1>17. t1[1][i].kind = "table" /\ LeadsTo(t2[1][i], t1[1][i].page)
  <2>1. LeadsTo(f, table[1][i].page)
    BY <1>8, OpenTable, Zenon
  <2>. QED
    BY <1>1, <1>6, <1>15, <1>16, <2>1 DEF Tree, KernelTables
<1>18. Tree(t2, b)
  BY <1>1, <1>4, <1>5, <1>12, <1>13, <1>15, <1>17, UserSet
<1>19. UserWay(table) = t2
  <2>1. UserWay(table) = [table EXCEPT ![Kernel][0].user = TRUE, ![1][i].user = TRUE]
    BY <1>1, <1>3, <1>6 DEF UserWay
  <2>2. [table EXCEPT ![Kernel][0].user = TRUE] = t1
    BY <1>9, <1>11
  <2>3. [t1 EXCEPT ![1][i].user = TRUE] = t2
    BY <1>10, <1>14, <1>16
  <2>. QED
    BY <2>1, <2>2, <2>3
<1>20. t2[1][i].page = table[1][i].page
  BY <1>16, <1>17 DEF LeadsTo
<1>21. t2[Kernel][0] = e /\ e.user
  <2>1. e.user
    BY <1>7, OpenTable, Zenon DEF LeadsTo
  <2>2. t2[Kernel][0] = t1[Kernel][0]
    BY <1>1, <1>15 DEF SameBut
  <2>. QED
    BY <1>12, <2>1, <2>2
<1>22. ASSUME NEW q \in Page, NEW j \in Index PROVE Alike(table[q][j], t2[q][j])
  <2>1. e.kind = "table" /\ e.page = table[Kernel][0].page
    BY <1>7, OpenTable, Zenon DEF LeadsTo
  <2>2. f.kind = "table" /\ f.page = table[1][i].page
    BY <1>8, OpenTable, Zenon DEF LeadsTo
  <2>3. table[Kernel][0].kind = "table" /\ table[1][i].kind = "table"
    BY <1>1, <1>6 DEF Tree, KernelTables
  <2>4. CASE q = Kernel /\ j = 0
    BY <1>21, <2>1, <2>3, <2>4 DEF Alike
  <2>5. CASE q = 1 /\ j = i
    BY <1>15, <2>2, <2>3, <2>5 DEF Alike
  <2>6. CASE ~(q = Kernel /\ j = 0) /\ ~(q = 1 /\ j = i)
    BY <1>12, <1>15, <2>6 DEF Alike, SameBut
  <2>. QED
    BY <2>4, <2>5, <2>6
<1>. QED
  BY <1>6, <1>15, <1>18, <1>19, <1>20, <1>21, <1>22

LEMMA SplitFits ==
  ASSUME VirtualMemoryAssumption
  PROVE  /\ Split \in [Index -> Entry]
         /\ \A i \in Index : Split[i].kind = "page"
<1>1. ASSUME NEW i \in Index PROVE [KuserVa EXCEPT ![4] = i] \in LowVa
  BY VaFacts DEF LowVa, Va
<1>2. ASSUME NEW i \in Index PROVE Split[i] \in Entry /\ Split[i].kind = "page"
  <2>1. CASE i = KuserVa[4]
    <3>1. Split[i] = KuserPage
      BY <2>1 DEF Split
    <3>. QED
      BY <3>1, EntryFacts
  <2>2. CASE i # KuserVa[4]
    <3>1. PICK va \in LowVa : va = [KuserVa EXCEPT ![4] = i]
      BY <1>1
    <3>2. Split[i] = Identity(va)
      BY <2>2, <3>1 DEF Split
    <3>. QED
      BY <3>2, EntryFacts
  <2>. QED
    BY <2>1, <2>2
<1>3. Split = [i \in Index |-> Split[i]]
  BY DEF Split
<1>. QED
  BY <1>2, <1>3

LEMMA MapSharedUserDataIInv ==
  ASSUME VirtualMemoryAssumption, IInv, MapSharedUserData
  PROVE  IInv'
<1>1. PICK b \in Labels : Fits(b)
  BY DEF IInv
<1>2. /\ Tree(table, b) /\ RootsLabelled(b) /\ OpsFit(b) /\ Kinds /\ phase = "unmapped"
      /\ table \in Contents
  BY <1>1 DEF Fits, IInv, Kinds, MapSharedUserData
<1>3. \A t \in Thread : op[t] = Idle
  BY <1>2, NobodyMaps
<1>4. phase' = "run" /\ spaces' = spaces /\ op' = op
  BY DEF MapSharedUserData
<1>5. \A c \in Labels : OpsFit(c)' /\ OneAtBoot'
  BY <1>3, <1>4 DEF OpsFit, OneAtBoot
<1>6. PICK t2 \in Contents : t2 = UserWay(table) /\ Tree(t2, b)
                             /\ t2[1][KuserVa[2]].page = table[1][KuserVa[2]].page
  BY <1>2, UserWayFits
<1>7. CASE free = {}
  <2>1. table' = t2 /\ free' = free
    BY <1>6, <1>7 DEF MapSharedUserData
  <2>2. Tree(table, b)'
    BY <1>6, <2>1 DEF Tree, LinksFit, EntriesFit, KernelTables, UserTables
  <2>3. RootsLabelled(b)'
    BY <1>2, <1>4, <2>1 DEF RootsLabelled
  <2>4. Kinds'
    BY <1>2, <1>4, <1>6, <2>1 DEF Kinds
  <2>. QED
    BY <1>5, <2>2, <2>3, <2>4 DEF IInv, Fits
<1>8. CASE free # {}
  <2>1. PICK p \in Page : p = Lowest /\ p \in free /\ p \notin Taken /\ Taken \subseteq free
    BY <1>2, <1>8, AllocPage DEF Kinds
  <2>2. /\ free' = Taken
        /\ table' = [t2 EXCEPT ![TableOf(Kernel, KuserVa, 3)][KuserVa[3]] = TableAt(p, TRUE),
                               ![p] = Split]
    BY <1>6, <1>8, <2>1 DEF MapSharedUserData
  <2>3. b.level[p] = 0
    BY <1>2, <2>1 DEF RootsLabelled
  <2>4. PICK q \in Page : q = TableOf(Kernel, KuserVa, 3) /\ OnWay(b, Kernel, KuserVa, q, 3)
    BY <1>2, KuserTables DEF RootsLabelled
  <2>5. b.level[q] = 3 /\ q # p
    BY <2>3, <2>4 DEF OnWay
  <2>6. PICK i \in Index : i = KuserVa[3]
    BY VaFacts
  <2>7. PICK w \in Va : w = BeginAt(KuserVa, 4)
    <3>1. PICK n \in 1 .. 3 : n = 3
      OBVIOUS
    <3>2. BeginAt(KuserVa, n + 1) \in Va
      BY VaFacts, BeginNext
    <3>. QED
      BY <3>1, <3>2
  <2>8. PICK c : c = Label(b, p, 4, Kernel, w)
    OBVIOUS
  <2>9. /\ c \in Labels /\ SameLabels(b, c, p)
        /\ c.level[p] = 4 /\ c.owner[p] = Kernel /\ c.begin[p] = w
    BY <2>8, PageFacts DEF Label, Labels, SameLabels
  <2>10. PICK row \in [Index -> Entry] : row = Split /\ \A j \in Index : row[j].kind = "page"
    BY SplitFits
  <2>11. PICK t3 \in Contents : /\ t3 = [t2 EXCEPT ![p] = row] /\ t3[p] = row
                                /\ \A r \in Page \ {p} : t3[r] = t2[r]
    <3>1. PICK t3 : t3 = [t2 EXCEPT ![p] = row]
      OBVIOUS
    <3>2. t3 \in Contents /\ t3[p] = row /\ \A r \in Page \ {p} : t3[r] = t2[r]
      BY <1>6, <3>1 DEF Contents
    <3>. QED
      BY <3>1, <3>2
  <2>12. Tree(t3, c)
    <3>1. \A j \in Index : t3[p][j].kind # "table" /\ EntryFits(c, p, t3[p][j])
      BY <2>9, <2>10, <2>11 DEF EntryFits
    <3>2. \A j \in Index : ~StaysHuge(c, p, j)
      BY <2>9 DEF StaysHuge
    <3>3. c.level[p] # 1 /\ ~(c.level[p] = 2 /\ c.owner[p] # Kernel)
      BY <2>9
    <3>4. \A j \in Index :
            /\ t3[p][j].kind = "table" => t3[p][j].page # p /\ LinkFits(c, p, j, t3[p][j].page)
            /\ EntryFits(c, p, t3[p][j])
            /\ StaysHuge(c, p, j) => t3[p][j] = Huge
      BY <3>1, <3>2
    <3>5. \A r \in Page \ {p} : t3[r] = t2[r]
      BY <2>11
    <3>6. SameLabels(b, c, p) /\ c \in Labels
      BY <2>9
    <3>. QED
      BY <1>6, <2>3, <3>3, <3>4, <3>5, <3>6, NewTable
  <2>13. PICK e \in Entry : e = TableAt(p, TRUE)
    BY EntryFacts
  <2>14. PICK t4 \in Contents : /\ t4 = [t3 EXCEPT ![q][i] = e] /\ t4[q][i] = e
                                /\ SameBut(t3, t4, q, i)
    <3>1. PICK t4 : t4 = [t3 EXCEPT ![q][i] = e]
      OBVIOUS
    <3>2. t4 \in Contents /\ t4[q][i] = e /\ SameBut(t3, t4, q, i)
      BY <2>11, <3>1 DEF Contents, SameBut
    <3>. QED
      BY <3>1, <3>2
  <2>15. table' = t4
    <3>1. table' = [[t2 EXCEPT ![q][i] = e] EXCEPT ![p] = row]
      BY <2>2, <2>4, <2>6, <2>10, <2>13
    <3>2. t4 = [[t2 EXCEPT ![p] = row] EXCEPT ![q][i] = e]
      BY <2>11, <2>14
    <3>3. t2 \in [Page -> [Index -> Entry]] /\ p # q
      BY <1>6, <2>5 DEF Contents
    <3>4. \A r \in Page : [[t2 EXCEPT ![q][i] = e] EXCEPT ![p] = row][r]
                          = [[t2 EXCEPT ![p] = row] EXCEPT ![q][i] = e][r]
      BY <3>3
    <3>. QED
      BY <3>1, <3>2, <3>3, <3>4
  <2>16. LinkFits(c, q, i, p) /\ c.level[q] = 3 /\ ~StaysHuge(c, q, i)
    <3>1. PICK n \in 1 .. 3 : n = 3
      OBVIOUS
    <3>2. OnWay(c, Kernel, KuserVa, q, n)
      BY <2>4, <2>5, <2>9, <3>1 DEF OnWay, SameLabels
    <3>3. OnWay(c, Kernel, KuserVa, p, n + 1)
      BY <2>7, <2>9, <3>1 DEF OnWay, OwnerOf
    <3>4. LinkFits(c, q, KuserVa[n], p)
      BY <2>9, <3>2, <3>3, VaFacts, FitsOnWay
    <3>5. c.level[q] = 3 /\ c.begin[q][2] = KuserVa[2]
      BY <3>1, <3>2 DEF OnWay, BeginAt
    <3>. QED
      BY <2>6, <3>1, <3>4, <3>5 DEF StaysHuge
  <2>17. Tree(t4, c)
    <3>1. c.level[q] \in 1 .. 3 /\ c.level[q] # 1 /\ c.level[q] # 2 /\ LeadsTo(t4[q][i], p)
      <4>1. c.level[q] = 3
        BY <2>16
      <4>2. LeadsTo(e, p)
        BY <2>13, OpenTable, Zenon
      <4>. QED
        BY <2>14, <4>1, <4>2
    <3>. QED
      BY <2>9, <2>12, <2>14, <2>16, <3>1, LinkSet
  <2>18. Tree(table, c)'
    BY <2>15, <2>17 DEF Tree, LinksFit, EntriesFit, KernelTables, UserTables
  <2>19. RootsLabelled(c)'
    <3>1. spaces = {Kernel} /\ p # Kernel /\ Kernel \in Page
      BY <1>2, <2>3, PageFacts DEF RootsLabelled
    <3>2. \A r \in free' : c.level[r] = 0
      BY <1>2, <2>1, <2>2, <2>9 DEF RootsLabelled, SameLabels, Kinds
    <3>3. \A r \in Page : c.level[r] = 1 <=> r \in spaces'
      BY <1>2, <1>4, <2>9, <3>1 DEF RootsLabelled, SameLabels
    <3>4. \A r \in spaces' : c.owner[r] = r /\ c.begin[r] = Zero
      BY <1>2, <1>4, <2>9, <3>1 DEF RootsLabelled, SameLabels
    <3>5. \A r \in Page : c.level[r] # 0 => c.owner[r] \in spaces'
      BY <1>2, <1>4, <2>9, <3>1 DEF RootsLabelled, SameLabels
    <3>. QED
      BY <1>4, <3>2, <3>3, <3>4, <3>5 DEF RootsLabelled
  <2>20. Kinds'
    BY <1>2, <1>4, <2>1, <2>2, <2>15 DEF Kinds
  <2>. QED
    BY <1>5, <2>9, <2>18, <2>19, <2>20 DEF IInv, Fits
<1>. QED
  BY <1>7, <1>8

(***************************************************************************)
(* CreateUserPml4: a root and a second table, both for the new space.      *)
(***************************************************************************)
LEMMA UserRootFits ==
  ASSUME VirtualMemoryAssumption, table \in Contents, NEW b \in Labels, Tree(table, b),
         NEW first \in Entry
  PROVE  /\ UserRoot(first) \in [Index -> Entry]
         /\ UserRoot(first)[0] = first
         /\ \A i \in Index \ {0} : UserRoot(first)[i] = table[Kernel][i]
<1>1. ASSUME NEW i \in Index \ {0}
      PROVE  UserRoot(first)[i] = table[Kernel][i]
  <2>1. PICK e : e = table[Kernel][i] /\ EntryShape(e) /\ e.kind \in {"absent", "table"}
                 /\ (e.kind = "table" => e.user)
    BY KernelLabels, PageFacts, Shape DEF Tree, EntriesFit, EntryFits, UserTables
  <2>2. CASE e.kind = "table"
    <3>1. UserRoot(first)[i] = [e EXCEPT !.user = TRUE]
      BY <2>1, <2>2 DEF UserRoot
    <3>2. e = TableAt(e.page, TRUE)
      BY <2>1, <2>2 DEF EntryShape
    <3>. QED
      BY <2>1, <2>2, <3>1, <3>2 DEF EntryShape
  <2>3. CASE e.kind = "absent"
    <3>1. UserRoot(first)[i] = Absent
      BY <2>1, <2>3 DEF UserRoot
    <3>. QED
      BY <2>1, <2>3, <3>1 DEF EntryShape
  <2>. QED
    BY <2>1, <2>2, <2>3
<1>2. UserRoot(first)[0] = first
  BY PageFacts DEF UserRoot
<1>3. \A i \in Index : UserRoot(first)[i] \in Entry
  BY <1>1, <1>2, PageFacts DEF Contents
<1>4. UserRoot(first) = [i \in Index |-> UserRoot(first)[i]]
  BY DEF UserRoot
<1>. QED
  BY <1>1, <1>2, <1>3, <1>4

LEMMA LowTableFits ==
  ASSUME VirtualMemoryAssumption, table \in Contents, NEW b \in Labels, Tree(table, b), NEW p
  PROVE  /\ LowTable(p) \in [Index -> Entry]
         /\ \A i \in Index : i < Low => LowTable(p)[i] = table[1][i]
         /\ \A i \in Index : ~(i < Low) => LowTable(p)[i] = Absent
<1>1. table[Kernel][0].page = 1
  BY DEF Tree, KernelTables
<1>2. LowTable(p) = [i \in Index |-> IF i < Low THEN table[1][i] ELSE Absent]
  BY <1>1 DEF LowTable
<1>3. \A i \in Index : table[1][i] \in Entry
  BY PageFacts DEF Contents
<1>. QED
  BY <1>2, <1>3, EntryFacts

\* A second table for the space s, which is to come.
LEMMA SecondTable ==
  ASSUME VirtualMemoryAssumption, table \in Contents, NEW b \in Labels, NEW c \in Labels,
         Tree(table, b), b.begin[Kernel] = Zero,
         NEW p \in Page, NEW s \in Page, s # Kernel, b.level[p] = 0, SameLabels(b, c, p),
         c.level[p] = 2, c.owner[p] = s, c.begin[p] = Zero,
         NEW t1 \in Contents, t1[p] = LowTable(p), \A q \in Page \ {p} : t1[q] = table[q]
  PROVE  Tree(t1, c)
<1>1. /\ \A i \in Index : i < Low => t1[p][i] = table[1][i]
      /\ \A i \in Index : ~(i < Low) => t1[p][i] = Absent
  BY LowTableFits
<1>2. b.level[1] = 2 /\ b.owner[1] = Kernel /\ b.begin[1] = Zero /\ 1 \in Page /\ 0 \in Index
  <2>1. LinkFits(b, Kernel, 0, 1) /\ b.level[Kernel] = 1
    BY PageFacts DEF Tree, KernelTables, LinksFit
  <2>2. b.begin[1] = [Zero EXCEPT ![1] = 0]
    BY <2>1 DEF LinkFits
  <2>3. b.begin[1] = Zero
    BY <2>2 DEF Zero
  <2>. QED
    BY <2>3, KernelLabels, PageFacts
<1>3. ASSUME NEW i \in Index, i < Low
      PROVE  /\ t1[p][i].kind = "table" /\ t1[p][i].page # p
             /\ LinkFits(c, p, i, t1[p][i].page)
  <2>1. PICK q : q = table[1][i].page /\ q = t1[p][i].page
    BY <1>1, <1>3
  <2>2. table[1][i].kind = "table" /\ t1[p][i].kind = "table"
    BY <1>1, <1>3, PageFacts DEF Tree, KernelTables
  <2>3. LinkFits(b, 1, i, q) /\ q \in Page
    <3>1. b.level[1] # 0 /\ 1 \in Page
      BY <1>2
    <3>2. table[1][i].kind = "table" /\ q = table[1][i].page
      BY <2>1, <2>2, Zenon
    <3>. QED
      BY <3>1, <3>2, LinkOfTree
  <2>4. b.level[q] = 3 /\ b.owner[q] = Kernel /\ b.begin[q] = [Zero EXCEPT ![2] = i]
    BY <1>2, <1>3, <2>3 DEF LinkFits, OwnerBelow
  <2>5. q # p
    BY <2>4
  <2>6. c.level[q] = 3 /\ c.owner[q] = Kernel /\ c.begin[q] = [Zero EXCEPT ![2] = i]
    BY <2>3, <2>4, <2>5 DEF SameLabels
  <2>7. LinkFits(c, p, i, q)
    BY <1>3, <2>6 DEF LinkFits, OwnerBelow
  <2>. QED
    BY <2>1, <2>2, <2>5, <2>7
<1>4. \A i \in Index :
        /\ t1[p][i].kind = "table" => t1[p][i].page # p /\ LinkFits(c, p, i, t1[p][i].page)
        /\ EntryFits(c, p, t1[p][i])
        /\ StaysHuge(c, p, i) => t1[p][i] = Huge
  <2>1. ASSUME NEW i \in Index
        PROVE  /\ t1[p][i].kind = "table" => t1[p][i].page # p /\ LinkFits(c, p, i, t1[p][i].page)
               /\ t1[p][i].kind \in {"absent", "table"}
    BY <1>1, <1>3, AbsentKind
  <2>2. \A i \in Index : EntryFits(c, p, t1[p][i])
    BY <2>1 DEF EntryFits
  <2>. QED
    BY <2>1, <2>2 DEF StaysHuge
<1>5. \A i \in 0 .. Low - 1 : t1[p][i] = table[1][i]
  BY <1>1, PageFacts
<1>6. c.level[p] # 1
  OBVIOUS
<1>. QED
  BY <1>4, <1>5, <1>6, NewTable

\* The kernel's root leads to second tables of its own.
LEMMA KernelLink ==
  ASSUME VirtualMemoryAssumption, NEW tb \in Contents, NEW b \in Labels, Tree(tb, b),
         b.begin[Kernel] = Zero, NEW i \in Index \ {0}, tb[Kernel][i].kind = "table",
         NEW q, q = tb[Kernel][i].page
  PROVE  /\ q \in Page
         /\ b.level[q] = 2 /\ b.owner[q] = Kernel /\ b.begin[q] = [Zero EXCEPT ![1] = i]
<1>1. b.level[Kernel] = 1 /\ b.owner[Kernel] = Kernel /\ Kernel \in Page
  BY KernelLabels, PageFacts
<1>2. q \in Page /\ LinkFits(b, Kernel, i, q)
  BY <1>1, LinkOfTree
<1>. QED
  BY <1>1, <1>2 DEF LinkFits, OwnerBelow

\* The root of a space that has its second table p.
LEMMA RootTable ==
  ASSUME VirtualMemoryAssumption, NEW b \in Labels, NEW c \in Labels,
         NEW t1 \in Contents, NEW t2 \in Contents, NEW p \in Page, NEW s \in Page,
         Tree(t1, b), b.begin[Kernel] = Zero,
         b.level[s] = 0, SameLabels(b, c, s), p # s,
         c.level[s] = 1, c.owner[s] = s, c.begin[s] = Zero,
         b.level[p] = 2, b.owner[p] = s, b.begin[p] = Zero,
         t2[s][0].kind = "table", t2[s][0].page = p,
         \A i \in Index \ {0} : t2[s][i] = t1[Kernel][i],
         \A q \in Page \ {s} : t2[q] = t1[q]
  PROVE  Tree(t2, c)
<1>1. b.level[Kernel] = 1 /\ b.owner[Kernel] = Kernel /\ Kernel \in Page /\ 0 \in Index
  BY KernelLabels, PageFacts
<1>2. LinkFits(c, s, 0, p)
  <2>1. c.level[p] = 2 /\ c.owner[p] = s /\ c.begin[p] = Zero
    BY DEF SameLabels
  <2>2. Zero = [Zero EXCEPT ![1] = 0]
    BY DEF Zero
  <2>. QED
    BY <2>1, <2>2 DEF LinkFits, OwnerBelow
<1>3. ASSUME NEW i \in Index \ {0}, t2[s][i].kind = "table"
      PROVE  t2[s][i].page # s /\ LinkFits(c, s, i, t2[s][i].page)
  <2>1. PICK q : q = t1[Kernel][i].page /\ q = t2[s][i].page
    OBVIOUS
  <2>2. t1[Kernel][i].kind = "table"
    BY <1>3
  <2>3. /\ q \in Page
        /\ b.level[q] = 2 /\ b.owner[q] = Kernel /\ b.begin[q] = [Zero EXCEPT ![1] = i]
    BY <2>1, <2>2, KernelLink
  <2>4. c.level[q] = 2 /\ c.owner[q] = Kernel /\ c.begin[q] = [Zero EXCEPT ![1] = i] /\ q # s
    BY <2>3 DEF SameLabels
  <2>5. LinkFits(c, s, i, q)
    BY <2>4 DEF LinkFits, OwnerBelow
  <2>. QED
    BY <2>1, <2>4, <2>5
<1>4. ASSUME NEW i \in Index PROVE t2[s][i].kind \in {"absent", "table"}
  <2>1. EntryFits(b, Kernel, t1[Kernel][i])
    BY <1>1 DEF Tree, EntriesFit
  <2>. QED
    BY <1>1, <2>1 DEF EntryFits
<1>5. \A i \in Index :
        /\ t2[s][i].kind = "table" => t2[s][i].page # s /\ LinkFits(c, s, i, t2[s][i].page)
        /\ EntryFits(c, s, t2[s][i])
        /\ StaysHuge(c, s, i) => t2[s][i] = Huge
  <2>1. ASSUME NEW i \in Index PROVE EntryFits(c, s, t2[s][i])
    <3>1. t2[s][i].kind \in {"absent", "table"} /\ c.level[s] # 3 /\ c.level[s] # 4
      BY <1>4
    <3>. QED
      BY <3>1 DEF EntryFits
  <2>2. ASSUME NEW i \in Index, t2[s][i].kind = "table"
        PROVE  t2[s][i].page # s /\ LinkFits(c, s, i, t2[s][i].page)
    <3>1. CASE i = 0
      BY <1>2, <3>1
    <3>2. CASE i # 0
      BY <1>3, <2>2, <3>2
    <3>. QED
      BY <3>1, <3>2
  <2>3. \A i \in Index : ~StaysHuge(c, s, i)
    <3>1. c.level[s] # 3
      OBVIOUS
    <3>. QED
      BY <3>1 DEF StaysHuge
  <2>. QED
    BY <2>1, <2>2, <2>3
<1>6. t2[s][0].kind = "table" /\ \A i \in Index \ {0} : t2[s][i] = t1[Kernel][i]
  OBVIOUS
<1>7. c.level[s] # 2
  OBVIOUS
<1>. QED
  BY <1>5, <1>6, <1>7, NewTable

LEMMA CreateUserPml4IInv ==
  ASSUME VirtualMemoryAssumption, IInv, NEW t \in Thread, CreateUserPml4(t)
  PROVE  IInv'
<1>1. PICK b \in Labels : Fits(b)
  BY DEF IInv
<1>2. /\ Tree(table, b) /\ RootsLabelled(b) /\ OpsFit(b) /\ Kinds /\ OneAtBoot
      /\ table \in Contents /\ phase = "run" /\ phase' = phase /\ op' = op
  BY <1>1 DEF Fits, IInv, Kinds, CreateUserPml4
<1>3. PICK s \in Page : s = Lowest /\ s \in free /\ free # {}
  BY <1>2, AllocPage DEF Kinds, CreateUserPml4
<1>4. PICK rest : rest = free \ {s} /\ rest \subseteq Page
  BY <1>2 DEF Kinds
<1>5. b.level[s] = 0
  BY <1>2, <1>3 DEF RootsLabelled
<1>6. /\ s # Kernel /\ Kernel \in Page /\ s # 1
      /\ b.level[Kernel] = 1 /\ b.owner[Kernel] = Kernel /\ b.begin[Kernel] = Zero
  BY <1>2, <1>5, KernelLabels, PageFacts DEF RootsLabelled
<1>7. CASE rest = {}
  <2>1. table' = [table EXCEPT ![s] = UserRoot(Absent)] /\ UNCHANGED <<free, spaces, phase, op>>
    BY <1>3, <1>4, <1>7 DEF CreateUserPml4
  <2>2. PICK row \in [Index -> Entry] : row = UserRoot(Absent)
    BY <1>2, EntryFacts, UserRootFits
  <2>3. PICK t1 : t1 = [table EXCEPT ![s] = row]
    OBVIOUS
  <2>4. t1 \in Contents /\ \A q \in Page \ {s} : t1[q] = table[q]
    BY <1>2, <2>3 DEF Contents
  <2>5. SameLabels(b, b, s) /\ ~(b.level[s] # 0) /\ b.level[s] # 1 /\ b.level[s] # 2
    BY <1>5 DEF SameLabels
  <2>6. Tree(t1, b)
    BY <1>2, <1>5, <2>4, <2>5, NewTable
  <2>7. table' = t1
    BY <2>1, <2>2, <2>3
  <2>8. table' \in Contents /\ Tree(table, b)'
    BY <2>4, <2>6, <2>7 DEF Tree, LinksFit, EntriesFit, KernelTables, UserTables
  <2>. QED
    BY <1>1, <2>1, <2>8, OthersKept
<1>8. CASE rest # {}
  <2>1. PICK p \in rest : p = Min(rest)
    BY <1>4, <1>8, PageFacts, MinFree
  <2>2. /\ table' = [table EXCEPT ![s] = UserRoot(TableAt(p, TRUE)), ![p] = LowTable(p)]
        /\ free' = rest \ {p} /\ spaces' = spaces \cup {s}
    BY <1>3, <1>4, <1>8, <2>1 DEF CreateUserPml4
  <2>3. p \in Page /\ p # s /\ p \in free /\ b.level[p] = 0
    BY <1>2, <1>4, <2>1 DEF RootsLabelled
  <2>4. p # Kernel
    BY <1>6, <2>3
  <2>5. PICK w \in Va : w = Zero
    BY VaFacts, BeginNext
  <2>6. PICK d : d = Label(b, p, 2, s, w)
    OBVIOUS
  <2>7. /\ d \in Labels /\ SameLabels(b, d, p)
        /\ d.level[p] = 2 /\ d.owner[p] = s /\ d.begin[p] = Zero
    BY <2>3, <2>5, <2>6 DEF Label, Labels, SameLabels
  <2>8. PICK c : c = Label(d, s, 1, s, w)
    OBVIOUS
  <2>9. /\ c \in Labels /\ SameLabels(d, c, s)
        /\ c.level[s] = 1 /\ c.owner[s] = s /\ c.begin[s] = Zero
    BY <2>5, <2>7, <2>8 DEF Label, Labels, SameLabels
  <2>10. PICK low \in [Index -> Entry] : low = LowTable(p)
    BY <1>2, LowTableFits
  <2>11. PICK row \in [Index -> Entry] : row = UserRoot(TableAt(p, TRUE))
    <3>1. PICK e \in Entry : e = TableAt(p, TRUE)
      BY <2>3, EntryFacts
    <3>2. UserRoot(e) \in [Index -> Entry]
      BY <1>2, UserRootFits
    <3>. QED
      BY <3>1, <3>2
  <2>12. PICK t1 : t1 = [table EXCEPT ![p] = low]
    OBVIOUS
  <2>13. t1 \in Contents /\ t1[p] = low /\ \A q \in Page \ {p} : t1[q] = table[q]
    BY <1>2, <2>3, <2>12 DEF Contents
  <2>14. PICK t2 : t2 = [t1 EXCEPT ![s] = row]
    OBVIOUS
  <2>15. t2 \in Contents /\ t2[s] = row /\ \A q \in Page \ {s} : t2[q] = t1[q]
    BY <2>13, <2>14 DEF Contents
  <2>16. table' = t2
    <3>1. table \in [Page -> [Index -> Entry]] /\ p # s /\ p \in Page
      BY <1>2, <2>3 DEF Contents
    <3>2. table' = [table EXCEPT ![s] = row, ![p] = low]
      BY <2>2, <2>10, <2>11
    <3>. QED
      BY <2>12, <2>14, <3>1, <3>2
  <2>17. Tree(t1, d)
    BY <1>2, <1>6, <2>3, <2>7, <2>10, <2>13, SecondTable
  <2>18. Tree(t2, c)
    <3>1. d.level[s] = 0 /\ d.begin[Kernel] = Zero /\ t1[Kernel] = table[Kernel]
      BY <1>5, <1>6, <2>3, <2>4, <2>7, <2>13 DEF SameLabels
    <3>2. PICK e \in Entry : e = TableAt(p, TRUE) /\ e.kind = "table" /\ e.page = p
      <4>1. PICK e \in Entry : e = TableAt(p, TRUE)
        BY <2>3, EntryFacts
      <4>2. e.kind = "table" /\ e.page = p
        BY <4>1, TableKind, Zenon
      <4>. QED
        BY <4>1, <4>2, Zenon
    <3>3. row = UserRoot(e)
      BY <2>11, <3>2, Zenon
    <3>4. row[0] = e /\ \A i \in Index \ {0} : row[i] = table[Kernel][i]
      BY <1>2, <3>3, UserRootFits
    <3>5. /\ t2[s][0].kind = "table" /\ t2[s][0].page = p
          /\ \A i \in Index \ {0} : t2[s][i] = t1[Kernel][i]
      BY <2>15, <3>1, <3>2, <3>4
    <3>. QED
      BY <2>3, <2>7, <2>9, <2>13, <2>15, <2>17, <3>1, <3>5, RootTable
  <2>19. table' \in Contents /\ Tree(table, c)'
    BY <2>15, <2>16, <2>18 DEF Tree, LinksFit, EntriesFit, KernelTables, UserTables
  <2>20. /\ c.level[p] = 2 /\ c.owner[p] = s /\ c.begin[p] = Zero
         /\ \A q \in Page : q # p /\ q # s =>
              c.level[q] = b.level[q] /\ c.owner[q] = b.owner[q] /\ c.begin[q] = b.begin[q]
    BY <2>3, <2>7, <2>9 DEF SameLabels
  <2>21. RootsLabelled(c)'
    <3>1. \A r \in free' : c.level[r] = 0
      BY <1>2, <1>4, <2>2, <2>20 DEF RootsLabelled
    <3>2. \A r \in Page : c.level[r] = 1 <=> r \in spaces'
      BY <1>2, <2>2, <2>3, <2>9, <2>20 DEF RootsLabelled
    <3>3. \A r \in spaces' : c.owner[r] = r /\ c.begin[r] = Zero
      <4>1. \A r \in spaces : r \in Page /\ r # p
        BY <1>2, <2>3 DEF RootsLabelled, Kinds
      <4>. QED
        BY <1>2, <2>2, <2>9, <2>20, <4>1 DEF RootsLabelled
    <3>4. \A r \in Page : c.level[r] # 0 => c.owner[r] \in spaces'
      BY <1>2, <2>2, <2>9, <2>20 DEF RootsLabelled
    <3>. QED
      BY <1>2, <3>1, <3>2, <3>3, <3>4 DEF RootsLabelled
  <2>22. OpsFit(c)'
    <3>1. ASSUME NEW u \in Thread, op[u] # Idle
          PROVE  Within(c, op[u])' /\ Allocated(c, op[u])'
      <4>1. PICK o \in Op : o = op[u] /\ Within(b, o) /\ Allocated(b, o)
        BY <1>2, <3>1, OpFacts DEF Kinds, OpsFit
      <4>2. \A q \in Page : b.level[q] # 0 =>
              c.level[q] = b.level[q] /\ c.owner[q] = b.owner[q] /\ c.begin[q] = b.begin[q]
        BY <1>5, <2>3, <2>20
      <4>3. Within(c, o)' /\ Allocated(c, o)'
        BY <1>2, <2>2, <2>9, <4>1, <4>2, StillWithin
      <4>. QED
        BY <1>2, <4>1, <4>3 DEF Within, Allocated
    <3>. QED
      BY <1>2, <3>1 DEF OpsFit
  <2>23. OneAtBoot'
    BY <1>2 DEF OneAtBoot
  <2>24. Kinds'
    BY <1>2, <1>4, <2>2, <2>19 DEF Kinds
  <2>. QED
    BY <2>9, <2>19, <2>21, <2>22, <2>23, <2>24 DEF IInv, Fits
<1>. QED
  BY <1>7, <1>8

LEMMA NextIInv ==
  ASSUME VirtualMemoryAssumption, IInv, [Next]_vars
  PROVE  IInv'
<1>1. CASE UnmapPage
  BY <1>1, UnmapPageIInv
<1>2. CASE MapSharedUserData
  BY <1>2, MapSharedUserDataIInv
<1>3. ASSUME NEW t \in Thread, MapPage(t) PROVE IInv'
  BY <1>3, MapPageIInv
<1>4. ASSUME NEW t \in Thread, MapPageInto(t) PROVE IInv'
  BY <1>4, MapPageIntoIInv
<1>5. ASSUME NEW t \in Thread, Descend(t) PROVE IInv'
  BY <1>5, DescendIInv
<1>6. ASSUME NEW t \in Thread, Refuse(t) PROVE IInv'
  BY <1>6, RefuseIInv
<1>7. ASSUME NEW t \in Thread, GetOrAlloc(t) PROVE IInv'
  BY <1>7, GetOrAllocIInv
<1>8. ASSUME NEW t \in Thread, Link(t) PROVE IInv'
  BY <1>8, LinkIInv
<1>9. ASSUME NEW t \in Thread, SetEntry(t) PROVE IInv'
  BY <1>9, SetEntryIInv
<1>10. ASSUME NEW t \in Thread, UnmapPageFrom(t) PROVE IInv'
  BY <1>10, UnmapPageFromIInv
<1>11. ASSUME NEW t \in Thread, ProtectPageInto(t) PROVE IInv'
  BY <1>11, ProtectPageIntoIInv
<1>12. ASSUME NEW t \in Thread, CreateUserPml4(t) PROVE IInv'
  BY <1>12, CreateUserPml4IInv
<1>13. CASE UNCHANGED vars
  <2>1. PICK b \in Labels : Fits(b)
    BY DEF IInv
  <2>2. table' \in Contents /\ Tree(table, b)'
    BY <1>13, <2>1 DEF vars, IInv, Kinds, Fits, Tree, LinksFit, EntriesFit, KernelTables, UserTables
  <2>. QED
    BY <1>13, <2>1, <2>2, OthersKept DEF vars
<1>. QED
  BY <1>1, <1>2, <1>3, <1>4, <1>5, <1>6, <1>7, <1>8, <1>9, <1>10, <1>11, <1>12, <1>13 DEF Next
-----------------------------------------------------------------------------
(***************************************************************************)
(* What the invariant says of types and tables.                            *)
(***************************************************************************)
LEMMA IInvTypeOK ==
  ASSUME VirtualMemoryAssumption, IInv
  PROVE  TypeOK
<1>1. PICK b \in Labels : Fits(b)
  BY DEF IInv
<1>2. Kinds /\ RootsLabelled(b) /\ OpsFit(b) /\ NULL \notin Page
  BY <1>1, PageFacts DEF Fits, IInv
<1>3. spaces \subseteq Page \ free
  BY <1>2 DEF RootsLabelled, Kinds
<1>4. ASSUME NEW t \in Thread, op[t] # Idle
      PROVE  /\ op[t].level \in 1 .. 4
             /\ op[t].root \in spaces
             /\ op[t].va \in UserVa \cup {KernelVa}
             /\ op[t].leaf \in UserPage \cup {TestPage}
             /\ op[t].at \in Page \ free
             /\ op[t].new \in (Page \ free) \cup {NULL}
  <2>1. PICK o \in Op : o = op[t] /\ Within(b, o) /\ Allocated(b, o)
    BY <1>2, <1>4, OpFacts DEF Kinds, OpsFit
  <2>2. /\ o.level \in 1 .. 4 /\ o.at \in Page /\ o.new \in Page \cup {NULL}
        /\ o.va \in UserVa \cup {KernelVa} /\ o.leaf \in UserPage \cup {TestPage}
    BY DEF Op
  <2>3. o.root \in spaces
    BY <2>1 DEF Within
  <2>4. o.at \notin free
    BY <1>2, <2>1, <2>2 DEF Within, OnWay, RootsLabelled
  <2>5. o.new \notin free
    BY <1>2, <2>1, <2>2 DEF Allocated, OnWay, RootsLabelled, Kinds
  <2>. QED
    BY <2>1, <2>2, <2>3, <2>4, <2>5
<1>. QED
  BY <1>2, <1>3, <1>4 DEF TypeOK, Kinds, Contents

LEMMA ChildFacts ==
  ASSUME NEW S, NEW q
  PROVE  q \in Children(S) <=>
           \E p \in S, i \in Index : table[p][i].kind = "table" /\ q = table[p][i].page
<1>1. ASSUME q \in Children(S)
      PROVE  \E p \in S, i \in Index : table[p][i].kind = "table" /\ q = table[p][i].page
  BY <1>1 DEF Children
<1>2. ASSUME NEW p \in S, NEW i \in Index, table[p][i].kind = "table", q = table[p][i].page
      PROVE  q \in Children(S)
  <2>1. PICK x \in S \X Index : x[1] = p /\ x[2] = i
    <3>1. <<p, i>> \in S \X Index /\ <<p, i>>[1] = p /\ <<p, i>>[2] = i
      OBVIOUS
    <3>. QED
      BY <3>1
  <2>. QED
    BY <1>2, <2>1 DEF Children
<1>. QED
  BY <1>1, <1>2

\* The tables of a space at the levels below its root.
Seconds(s) == Children({s})

Thirds(s) == Children(Seconds(s))

Fourths(s) == Children(Thirds(s))

\* Each table there has the level's label, and is the space's own or the kernel's.
OwnOrKernels(b, s, S, K, n) ==
  \A p \in S :
    /\ p \in Page /\ b.level[p] = n
    /\ b.owner[p] = s \/ p \in K

LEMMA SpaceTables ==
  ASSUME VirtualMemoryAssumption, table \in Contents, NEW b \in Labels, Tree(table, b),
         RootsLabelled(b), spaces \subseteq Page, NEW s \in spaces
  PROVE  /\ OwnOrKernels(b, s, Seconds(s), Seconds(Kernel), 2)
         /\ OwnOrKernels(b, s, Thirds(s), Thirds(Kernel), 3)
         /\ OwnOrKernels(b, s, Fourths(s), Fourths(Kernel), 4)
         /\ s # Kernel => 1 \notin Seconds(s)
<1>1. /\ s \in Page /\ b.level[s] = 1 /\ b.owner[s] = s /\ b.begin[s] = Zero
      /\ Kernel \in Page /\ 0 \in Index /\ 1 \in Page
      /\ table[Kernel][0].kind = "table" /\ table[Kernel][0].page = 1
      /\ b.begin[Kernel] = Zero
  BY PageFacts DEF RootsLabelled, Tree, KernelTables
<1>2. ASSUME NEW S, S \subseteq Page, NEW n \in 1 .. 3, \A p \in S : b.level[p] = n, NEW q \in Children(S)
      PROVE  \E p \in S, i \in Index : /\ table[p][i].kind = "table" /\ q = table[p][i].page
                                       /\ q \in Page /\ LinkFits(b, p, i, q) /\ b.level[q] = n + 1
  <2>1. PICK p \in S, i \in Index : table[p][i].kind = "table" /\ q = table[p][i].page
    BY ChildFacts
  <2>2. p \in Page /\ b.level[p] = n
    BY <1>2, Zenon
  <2>3. q \in Page /\ LinkFits(b, p, i, q)
    BY <2>1, <2>2, LinkOfTree
  <2>4. b.level[q] = n + 1
    BY <2>2, <2>3 DEF LinkFits
  <2>. QED
    BY <2>1, <2>3, <2>4
<1>3. 1 \in Seconds(Kernel)
  BY <1>1, ChildFacts DEF Seconds
<1>4. OwnOrKernels(b, s, Seconds(s), Seconds(Kernel), 2)
  <2>1. SUFFICES ASSUME NEW q \in Seconds(s)
                 PROVE  q \in Page /\ b.level[q] = 2 /\ (b.owner[q] = s \/ q \in Seconds(Kernel))
    BY DEF OwnOrKernels
  <2>2. PICK i \in Index : /\ table[s][i].kind = "table" /\ q = table[s][i].page /\ q \in Page
                           /\ LinkFits(b, s, i, q) /\ b.level[q] = 2
    <3>1. PICK n \in 1 .. 3 : n = 1
      OBVIOUS
    <3>2. {s} \subseteq Page /\ \A p \in {s} : b.level[p] = n
      BY <1>1, <3>1
    <3>3. \E p \in {s}, i \in Index : /\ table[p][i].kind = "table" /\ q = table[p][i].page
                                      /\ q \in Page /\ LinkFits(b, p, i, q) /\ b.level[q] = n + 1
      BY <1>2, <3>2 DEF Seconds
    <3>. QED
      BY <3>1, <3>3
  <2>3. CASE s = Kernel
    BY <2>2, <2>3
  <2>4. CASE s # Kernel /\ i = 0
    BY <1>1, <2>2, <2>4 DEF LinkFits, OwnerBelow
  <2>5. CASE s # Kernel /\ i # 0
    <3>1. table[s][i] = table[Kernel][i]
      BY <1>1, <2>5 DEF Tree, UserTables
    <3>2. q \in Seconds(Kernel)
      BY <2>2, <3>1, ChildFacts DEF Seconds
    <3>. QED
      BY <2>2, <3>2
  <2>. QED
    BY <2>3, <2>4, <2>5
<1>5. OwnOrKernels(b, s, Thirds(s), Thirds(Kernel), 3)
  <2>1. SUFFICES ASSUME NEW q \in Thirds(s)
                 PROVE  q \in Page /\ b.level[q] = 3 /\ (b.owner[q] = s \/ q \in Thirds(Kernel))
    BY DEF OwnOrKernels
  <2>2. PICK p \in Seconds(s), i \in Index :
          /\ table[p][i].kind = "table" /\ q = table[p][i].page /\ q \in Page
          /\ LinkFits(b, p, i, q) /\ b.level[q] = 3
    <3>1. PICK n \in 1 .. 3 : n = 2
      OBVIOUS
    <3>2. Seconds(s) \subseteq Page /\ \A p \in Seconds(s) : b.level[p] = n
      BY <1>4, <3>1 DEF OwnOrKernels
    <3>3. \E p \in Seconds(s), i \in Index : /\ table[p][i].kind = "table" /\ q = table[p][i].page
                                      /\ q \in Page /\ LinkFits(b, p, i, q) /\ b.level[q] = n + 1
      BY <1>2, <3>2 DEF Thirds
    <3>. QED
      BY <3>1, <3>3
  <2>3. p \in Page /\ b.level[p] = 2 /\ (b.owner[p] = s \/ p \in Seconds(Kernel))
    BY <1>4 DEF OwnOrKernels
  <2>4. CASE p \in Seconds(Kernel)
    BY <2>2, <2>4, ChildFacts DEF Thirds
  <2>5. CASE b.owner[p] = s /\ p \notin Seconds(Kernel) /\ i < Low
    <3>1. s # Kernel \/ p \in Seconds(Kernel)
      OBVIOUS
    <3>2. i \in 0 .. Low - 1
      BY <2>5, PageFacts
    <3>3. table[p][i] = table[1][i]
      BY <2>3, <2>5, <3>1, <3>2 DEF Tree, UserTables
    <3>4. q \in Thirds(Kernel)
      BY <1>3, <2>2, <3>3, ChildFacts DEF Thirds
    <3>. QED
      BY <2>2, <3>4
  <2>6. CASE b.owner[p] = s /\ ~(i < Low)
    BY <2>2, <2>3, <2>6 DEF LinkFits, OwnerBelow
  <2>. QED
    BY <2>3, <2>4, <2>5, <2>6
<1>6. OwnOrKernels(b, s, Fourths(s), Fourths(Kernel), 4)
  <2>1. SUFFICES ASSUME NEW q \in Fourths(s)
                 PROVE  q \in Page /\ b.level[q] = 4 /\ (b.owner[q] = s \/ q \in Fourths(Kernel))
    BY DEF OwnOrKernels
  <2>2. PICK p \in Thirds(s), i \in Index :
          /\ table[p][i].kind = "table" /\ q = table[p][i].page /\ q \in Page
          /\ LinkFits(b, p, i, q) /\ b.level[q] = 4
    <3>1. PICK n \in 1 .. 3 : n = 3
      OBVIOUS
    <3>2. Thirds(s) \subseteq Page /\ \A p \in Thirds(s) : b.level[p] = n
      BY <1>5, <3>1 DEF OwnOrKernels
    <3>3. \E p \in Thirds(s), i \in Index : /\ table[p][i].kind = "table" /\ q = table[p][i].page
                                      /\ q \in Page /\ LinkFits(b, p, i, q) /\ b.level[q] = n + 1
      BY <1>2, <3>2 DEF Fourths
    <3>. QED
      BY <3>1, <3>3
  <2>3. p \in Page /\ b.level[p] = 3 /\ (b.owner[p] = s \/ p \in Thirds(Kernel))
    BY <1>5 DEF OwnOrKernels
  <2>4. CASE p \in Thirds(Kernel)
    BY <2>2, <2>4, ChildFacts DEF Fourths
  <2>5. CASE b.owner[p] = s
    BY <2>2, <2>3, <2>5 DEF LinkFits, OwnerBelow
  <2>. QED
    BY <2>3, <2>4, <2>5
<1>7. ASSUME s # Kernel, 1 \in Seconds(s)
      PROVE  FALSE
  <2>1. PICK i \in Index : table[s][i].kind = "table" /\ table[s][i].page = 1
    BY <1>7, ChildFacts DEF Seconds
  <2>2. LinkFits(b, s, i, 1) /\ LinkFits(b, Kernel, 0, 1)
    BY <1>1, <2>1, KernelLabels DEF Tree, LinksFit
  <2>3. b.begin[1] = [Zero EXCEPT ![1] = i] /\ b.begin[1] = [Zero EXCEPT ![1] = 0]
    BY <1>1, <2>2, KernelLabels DEF LinkFits
  <2>4. i = 0
    BY <2>3 DEF Zero
  <2>5. b.owner[1] = s
    BY <1>1, <2>2, <2>4 DEF LinkFits, OwnerBelow
  <2>. QED
    BY <1>7, <2>5, KernelLabels
<1>. QED
  BY <1>4, <1>5, <1>6, <1>7

LEMMA IInvTables ==
  ASSUME VirtualMemoryAssumption, IInv
  PROVE  TablesPrivate
<1>1. PICK b \in Labels : Fits(b)
  BY DEF IInv
<1>2. /\ Tree(table, b) /\ RootsLabelled(b) /\ table \in Contents /\ spaces \subseteq Page
      /\ \A p \in free : b.level[p] = 0
  BY <1>1 DEF Fits, IInv, Kinds, RootsLabelled
<1>3. \A s : Tables(s) = {s} \cup Seconds(s) \cup Thirds(s) \cup Fourths(s)
  BY DEF Tables, Seconds, Thirds, Fourths
<1>4. ASSUME NEW s \in spaces
      PROVE  /\ s \in Page /\ b.level[s] = 1
             /\ OwnOrKernels(b, s, Seconds(s), Seconds(Kernel), 2)
             /\ OwnOrKernels(b, s, Thirds(s), Thirds(Kernel), 3)
             /\ OwnOrKernels(b, s, Fourths(s), Fourths(Kernel), 4)
             /\ s # Kernel => 1 \notin Seconds(s)
  BY <1>2, SpaceTables DEF RootsLabelled
<1>5. ASSUME NEW s \in spaces
      PROVE  Tables(s) \cap free = {}
  BY <1>2, <1>3, <1>4 DEF OwnOrKernels
<1>6. ASSUME NEW s \in spaces, NEW r \in spaces, s # r, NEW p \in Tables(s) \cap Tables(r)
      PROVE  p \in Tables(Kernel) \ {Kernel, 1}
  <2>1. /\ b.level[Kernel] = 1 /\ b.level[1] = 2 /\ Kernel # 1
    BY <1>2, KernelLabels
  <2>2. p # Kernel
    BY <1>3, <1>4, <1>6, <2>1 DEF OwnOrKernels
  <2>3. p # 1
    BY <1>3, <1>4, <1>6, <2>1 DEF OwnOrKernels
  <2>4. p \in Tables(Kernel)
    BY <1>3, <1>4, <1>6 DEF OwnOrKernels
  <2>. QED
    BY <2>2, <2>3, <2>4
<1>7. table[Kernel][0].page = 1
  BY <1>2 DEF Tree, KernelTables
<1>. QED
  BY <1>5, <1>6, <1>7, IInvTypeOK DEF TablesPrivate
-----------------------------------------------------------------------------
(***************************************************************************)
(* The theorems.                                                           *)
(***************************************************************************)
\* The inductive invariant: every page that is in use as a table has one
\* level, one owner and one place, and each mapping under way is on the way to
\* its address, whatever threads of one process do in between (MapPageInto,
\* CreateUserPml4, MapSharedUserData).
THEOREM Invariance ==
  ASSUME VirtualMemoryAssumption
  PROVE  Spec => []IInv
<1>1. Init => IInv
  BY InitIInv
<1>2. IInv /\ [Next]_vars => IInv'
  BY NextIInv
<1>. QED
  BY <1>1, <1>2, PTL DEF Spec

\* Every variable keeps its kind, and no page under construction or with
\* tables in it is one that AllocPage may return.
THEOREM TypeCorrect ==
  ASSUME VirtualMemoryAssumption
  PROVE  Spec => []TypeOK
<1>1. IInv => TypeOK
  BY IInvTypeOK
<1>. QED
  BY <1>1, Invariance, PTL

\* Two address spaces never have a table in common but those of the kernel's
\* addresses, and no table is free, although get_or_alloc reads, allocates and
\* stores in steps that other threads come between.
THEOREM TablesApart ==
  ASSUME VirtualMemoryAssumption
  PROVE  Spec => []TablesPrivate
<1>1. IInv => TablesPrivate
  BY IInvTables
<1>. QED
  BY <1>1, Invariance, PTL
-----------------------------------------------------------------------------
(***************************************************************************)
(* The tables implement one map for each space, if no mapping interrupts   *)
(* another.  Walks in given contents of the pages, to compare those before *)
(* a step and after it.                                                    *)
(***************************************************************************)
BelowIn(tb, e, i) == IF e.kind = "table" THEN tb[e.page][i] ELSE e

First(tb, s, va) == tb[s][va[1]]

Second(tb, s, va) == BelowIn(tb, First(tb, s, va), va[2])

Third(tb, s, va) == BelowIn(tb, Second(tb, s, va), va[3])

Fourth(tb, s, va) == BelowIn(tb, Third(tb, s, va), va[4])

\* What the processor sees at va, of whose walk e1 .. e4 are the entries.
Seen(e1, e2, e3, e4, va) ==
  CASE e4.kind = "huge" -> [frame |-> va, user |-> FALSE, writable |-> TRUE]
    [] e4.kind = "page" -> [frame |-> e4.frame,
                            user |-> e1.user /\ e2.user /\ e3.user /\ e4.user,
                            writable |-> e4.writable]
    [] OTHER -> NULL

Map(tb, s, va) == Seen(First(tb, s, va), Second(tb, s, va), Third(tb, s, va), Fourth(tb, s, va), va)

LEMMA WalkIs ==
  ASSUME NEW s, NEW va
  PROVE  /\ Walk(s, va) = <<First(table, s, va), Second(table, s, va),
                            Third(table, s, va), Fourth(table, s, va)>>
         /\ Walk(s, va)' = <<First(table', s, va), Second(table', s, va),
                             Third(table', s, va), Fourth(table', s, va)>>
BY DEF Walk, Below, First, Second, Third, Fourth, BelowIn

LEMMA SeenIs ==
  ASSUME NEW e1, NEW e2, NEW e3, NEW e4, NEW va, NEW walk, walk = <<e1, e2, e3, e4>>
  PROVE  Seen(e1, e2, e3, e4, va) =
           CASE walk[4].kind = "huge" ->
                  [frame |-> va, user |-> FALSE, writable |-> TRUE]
             [] walk[4].kind = "page" ->
                  [frame |-> walk[4].frame,
                   user |-> \A n \in 1 .. 4 : walk[n].user,
                   writable |-> walk[4].writable]
             [] OTHER -> NULL
<1>1. (\A n \in 1 .. 4 : walk[n].user) = (e1.user /\ e2.user /\ e3.user /\ e4.user)
  <2>1. 1 .. 4 = {1, 2, 3, 4}
    OBVIOUS
  <2>2. walk[1] = e1 /\ walk[2] = e2 /\ walk[3] = e3 /\ walk[4] = e4
    OBVIOUS
  <2>3. (\A n \in 1 .. 4 : walk[n].user) <=> (e1.user /\ e2.user /\ e3.user /\ e4.user)
    BY <2>1, <2>2
  <2>. QED
    BY <2>3
<1>2. walk[4] = e4
  OBVIOUS
<1>. QED
  BY <1>1, <1>2, Zenon DEF Seen

LEMMA MappingIs ==
  ASSUME NEW s, NEW va
  PROVE  Mapping(s, va) = Map(table, s, va) /\ Mapping(s, va)' = Map(table', s, va)
<1>1. Mapping(s, va) = Map(table, s, va)
  <2>1. PICK e1, e2, e3, e4 : /\ e1 = First(table, s, va) /\ e2 = Second(table, s, va)
                              /\ e3 = Third(table, s, va) /\ e4 = Fourth(table, s, va)
    OBVIOUS
  <2>2. Walk(s, va) = <<e1, e2, e3, e4>>
    BY <2>1, WalkIs, Zenon
  <2>3. Mapping(s, va) = Seen(e1, e2, e3, e4, va)
    BY <2>2, SeenIs, Zenon DEF Mapping
  <2>. QED
    BY <2>1, <2>3, Zenon DEF Map
<1>2. Mapping(s, va)' = Map(table', s, va)
  <2>1. PICK e1, e2, e3, e4 : /\ e1 = First(table', s, va) /\ e2 = Second(table', s, va)
                              /\ e3 = Third(table', s, va) /\ e4 = Fourth(table', s, va)
    OBVIOUS
  <2>2. Walk(s, va)' = <<e1, e2, e3, e4>>
    BY <2>1, WalkIs, Zenon
  <2>3. Mapping(s, va)' = Seen(e1, e2, e3, e4, va)
    BY <2>2, SeenIs, Zenon DEF Mapping
  <2>. QED
    BY <2>1, <2>3, Zenon DEF Map
<1>. QED
  BY <1>1, <1>2

\* The entry on the way to va at level n leads on.
OnWayOnward(tb, b, s, va, p, n, m) ==
  tb[p][va[n]].kind = "table" => tb[p][va[n]].page \in Page /\ OnWay(b, s, va, tb[p][va[n]].page, m)

LEMMA OnWayOn ==
  ASSUME VirtualMemoryAssumption, NEW tb \in Contents, NEW b \in Labels, Tree(tb, b),
         NEW s, NEW va \in Va, NEW p \in Page
  PROVE  /\ OnWay(b, s, va, p, 1) => OnWayOnward(tb, b, s, va, p, 1, 2)
         /\ OnWay(b, s, va, p, 2) => OnWayOnward(tb, b, s, va, p, 2, 3)
         /\ OnWay(b, s, va, p, 3) => OnWayOnward(tb, b, s, va, p, 3, 4)
         /\ OnWay(b, s, va, p, 4) => tb[p][va[4]].kind # "table"
<1>1. ASSUME NEW n \in 1 .. 4, OnWay(b, s, va, p, n), tb[p][va[n]].kind = "table"
      PROVE  /\ n < 4 /\ tb[p][va[n]].page \in Page
             /\ OnWay(b, s, va, tb[p][va[n]].page, n + 1)
  BY <1>1, NextOnWay
<1>2. 1 + 1 = 2 /\ 2 + 1 = 3 /\ 3 + 1 = 4 /\ 1 \in 1 .. 4 /\ 2 \in 1 .. 4 /\ 3 \in 1 .. 4 /\ 4 \in 1 .. 4
  OBVIOUS
<1>3. ASSUME OnWay(b, s, va, p, 1) PROVE OnWayOnward(tb, b, s, va, p, 1, 2)
  BY <1>1, <1>2, <1>3 DEF OnWayOnward
<1>4. ASSUME OnWay(b, s, va, p, 2) PROVE OnWayOnward(tb, b, s, va, p, 2, 3)
  BY <1>1, <1>2, <1>4 DEF OnWayOnward
<1>5. ASSUME OnWay(b, s, va, p, 3) PROVE OnWayOnward(tb, b, s, va, p, 3, 4)
  BY <1>1, <1>2, <1>5 DEF OnWayOnward
<1>6. ASSUME OnWay(b, s, va, p, 4) PROVE tb[p][va[4]].kind # "table"
  BY <1>1, <1>2, <1>6
<1>. QED
  BY <1>3, <1>4, <1>5, <1>6

\* The tables that a walk reads are those on the way.
LEMMA ReadsOnWay ==
  ASSUME VirtualMemoryAssumption, NEW tb \in Contents, NEW b \in Labels, Tree(tb, b),
         NEW s \in Page, NEW va \in Va, OnWay(b, s, va, s, 1),
         NEW e1, NEW e2, NEW e3,
         e1 = First(tb, s, va), e2 = Second(tb, s, va), e3 = Third(tb, s, va)
  PROVE  /\ e1.kind = "table" => e1.page \in Page /\ OnWay(b, s, va, e1.page, 2)
         /\ e2.kind = "table" => e2.page \in Page /\ OnWay(b, s, va, e2.page, 3)
         /\ e3.kind = "table" => e3.page \in Page /\ OnWay(b, s, va, e3.page, 4)
<1>1. e1.kind = "table" => e1.page \in Page /\ OnWay(b, s, va, e1.page, 2)
  BY OnWayOn DEF OnWayOnward, First
<1>2. ASSUME e2.kind = "table" PROVE e2.page \in Page /\ OnWay(b, s, va, e2.page, 3)
  <2>1. e1.kind = "table" /\ e2 = tb[e1.page][va[2]]
    BY <1>1, <1>2, OnWayOn DEF OnWayOnward, First, Second, BelowIn
  <2>. QED
    BY <1>1, <1>2, <2>1, OnWayOn DEF OnWayOnward
<1>3. ASSUME e3.kind = "table" PROVE e3.page \in Page /\ OnWay(b, s, va, e3.page, 4)
  <2>1. e2.kind = "table" /\ e3 = tb[e2.page][va[3]]
    <3>1. e3 = BelowIn(tb, e2, va[3])
      BY DEF Third
    <3>2. e2.kind # "table" => e3 = e2
      BY <3>1 DEF BelowIn
    <3>3. e2.kind = "table"
      BY <1>3, <3>2
    <3>. QED
      BY <3>1, <3>3 DEF BelowIn
  <2>. QED
    BY <1>2, <1>3, <2>1, OnWayOn DEF OnWayOnward
<1>. QED
  BY <1>1, <1>2, <1>3

\* A walk goes on the same if it has come to the same entry, and the entries on
\* its way from there are the same.
LEMMA SameFromSecond ==
  ASSUME VirtualMemoryAssumption, NEW tb \in Contents, NEW t2 \in Contents, NEW b \in Labels,
         Tree(tb, b), NEW s \in Page, NEW va \in Va, OnWay(b, s, va, s, 1), NEW r,
         Second(t2, r, va) = Second(tb, s, va),
         \A p \in Page, n \in 3 .. 4 : OnWay(b, s, va, p, n) => t2[p][va[n]] = tb[p][va[n]]
  PROVE  Third(t2, r, va) = Third(tb, s, va) /\ Fourth(t2, r, va) = Fourth(tb, s, va)
<1>1. PICK e2 : e2 = Second(tb, s, va) /\ e2 = Second(t2, r, va)
  OBVIOUS
<1>2. PICK e3 : e3 = Third(tb, s, va)
  OBVIOUS
<1>3. /\ e2.kind = "table" => e2.page \in Page /\ OnWay(b, s, va, e2.page, 3)
      /\ e3.kind = "table" => e3.page \in Page /\ OnWay(b, s, va, e3.page, 4)
  BY <1>1, <1>2, ReadsOnWay
<1>4. Third(t2, r, va) = e3
  <2>1. CASE e2.kind = "table"
    <3>1. t2[e2.page][va[3]] = tb[e2.page][va[3]]
      BY <1>3, <2>1
    <3>. QED
      BY <1>1, <1>2, <2>1, <3>1 DEF Third, BelowIn
  <2>2. CASE e2.kind # "table"
    BY <1>1, <1>2, <2>2 DEF Third, BelowIn
  <2>. QED
    BY <2>1, <2>2
<1>5. Fourth(t2, r, va) = Fourth(tb, s, va)
  <2>1. CASE e3.kind = "table"
    <3>1. t2[e3.page][va[4]] = tb[e3.page][va[4]]
      BY <1>3, <2>1
    <3>. QED
      BY <1>2, <1>4, <2>1, <3>1 DEF Fourth, BelowIn
  <2>2. CASE e3.kind # "table"
    BY <1>2, <1>4, <2>2 DEF Fourth, BelowIn
  <2>. QED
    BY <2>1, <2>2
<1>. QED
  BY <1>2, <1>4, <1>5

LEMMA SameFromFirst ==
  ASSUME VirtualMemoryAssumption, NEW tb \in Contents, NEW t2 \in Contents, NEW b \in Labels,
         Tree(tb, b), NEW s \in Page, NEW va \in Va, OnWay(b, s, va, s, 1), NEW r,
         First(t2, r, va) = First(tb, s, va),
         \A p \in Page, n \in 2 .. 4 : OnWay(b, s, va, p, n) => t2[p][va[n]] = tb[p][va[n]]
  PROVE  Map(t2, r, va) = Map(tb, s, va)
<1>1. PICK e1 : e1 = First(tb, s, va) /\ e1 = First(t2, r, va)
  OBVIOUS
<1>2. e1.kind = "table" => e1.page \in Page /\ OnWay(b, s, va, e1.page, 2)
  BY <1>1, ReadsOnWay
<1>3. Second(t2, r, va) = Second(tb, s, va)
  <2>1. CASE e1.kind = "table"
    <3>1. t2[e1.page][va[2]] = tb[e1.page][va[2]]
      BY <1>2, <2>1
    <3>. QED
      BY <1>1, <2>1, <3>1 DEF Second, BelowIn
  <2>2. CASE e1.kind # "table"
    BY <1>1, <2>2 DEF Second, BelowIn
  <2>. QED
    BY <2>1, <2>2
<1>4. \A p \in Page, n \in 3 .. 4 : OnWay(b, s, va, p, n) => t2[p][va[n]] = tb[p][va[n]]
  OBVIOUS
<1>5. Third(t2, r, va) = Third(tb, s, va) /\ Fourth(t2, r, va) = Fourth(tb, s, va)
  BY <1>3, <1>4, SameFromSecond
<1>. QED
  BY <1>1, <1>3, <1>5 DEF Map

LEMMA SameOnWay ==
  ASSUME VirtualMemoryAssumption, NEW tb \in Contents, NEW t2 \in Contents, NEW b \in Labels,
         Tree(tb, b), NEW s \in Page, NEW va \in Va, OnWay(b, s, va, s, 1),
         \A p \in Page, n \in 1 .. 4 : OnWay(b, s, va, p, n) => t2[p][va[n]] = tb[p][va[n]]
  PROVE  Map(t2, s, va) = Map(tb, s, va)
<1>1. First(t2, s, va) = First(tb, s, va)
  BY DEF First
<1>2. \A p \in Page, n \in 2 .. 4 : OnWay(b, s, va, p, n) => t2[p][va[n]] = tb[p][va[n]]
  OBVIOUS
<1>. QED
  BY <1>1, <1>2, SameFromFirst

\* The store of an entry for a new table, which is empty, maps nothing.
LEMMA LinkMapsNothing ==
  ASSUME NEW tb \in Contents, NEW t2 \in Contents, NEW p \in Page, NEW i \in Index,
         NEW c \in Page, c # p, SameBut(tb, t2, p, i), tb[p][i] = Absent,
         t2[p][i].kind = "table", t2[p][i].page = c, \A j \in Index : tb[c][j] = Absent,
         NEW s \in Page, NEW va \in [1 .. 4 -> Index]
  PROVE  Map(t2, s, va) = Map(tb, s, va)
<1>1. PICK e1, f1 : e1 = First(tb, s, va) /\ f1 = First(t2, s, va)
  OBVIOUS
<1>2. PICK e2, f2 : e2 = Second(tb, s, va) /\ f2 = Second(t2, s, va)
  OBVIOUS
<1>3. PICK e3, f3 : e3 = Third(tb, s, va) /\ f3 = Third(t2, s, va)
  OBVIOUS
<1>4. PICK e4, f4 : e4 = Fourth(tb, s, va) /\ f4 = Fourth(t2, s, va)
  OBVIOUS
<1>5. va[1] \in Index /\ va[2] \in Index /\ va[3] \in Index /\ va[4] \in Index
  OBVIOUS
<1>6. /\ e1 = tb[s][va[1]] /\ e2 = BelowIn(tb, e1, va[2])
      /\ e3 = BelowIn(tb, e2, va[3]) /\ e4 = BelowIn(tb, e3, va[4])
      /\ f1 = t2[s][va[1]] /\ f2 = BelowIn(t2, f1, va[2])
      /\ f3 = BelowIn(t2, f2, va[3]) /\ f4 = BelowIn(t2, f3, va[4])
  BY <1>1, <1>2, <1>3, <1>4 DEF First, Second, Third, Fourth
<1>7. \A q \in Page, j \in Index : tb[q][j].kind = "table" => tb[q][j].page \in Page
  BY Shape DEF EntryShape
<1>8. \A q \in Page, j \in Index :
        t2[q][j] = tb[q][j] \/ (tb[q][j] = Absent /\ t2[q][j] = t2[p][i])
  BY DEF SameBut
<1>9. \A j \in Index : t2[c][j] = Absent
  BY DEF SameBut
<1>10. \A e, j : e.kind # "table" => BelowIn(tb, e, j) = e /\ BelowIn(t2, e, j) = e
  BY DEF BelowIn
<1>11. \A e, j : e.kind = "table" => BelowIn(tb, e, j) = tb[e.page][j] /\ BelowIn(t2, e, j) = t2[e.page][j]
  BY DEF BelowIn
<1>12. Absent.kind # "table" /\ Absent.kind # "huge" /\ Absent.kind # "page"
  BY AbsentKind
<1>13. e4 = Absent /\ f4 = Absent => Map(t2, s, va) = Map(tb, s, va)
  BY <1>1, <1>2, <1>3, <1>4, <1>12 DEF Map, Seen
<1>14. CASE f1 # e1
  <2>1. e1 = Absent /\ f1.kind = "table" /\ f1.page = c
    BY <1>5, <1>6, <1>8, <1>14
  <2>2. e2 = Absent /\ f2 = Absent
    BY <1>5, <1>6, <1>9, <1>10, <1>11, <1>12, <2>1
  <2>3. e3 = Absent /\ f3 = Absent
    BY <1>6, <1>10, <1>12, <2>2
  <2>4. e4 = Absent /\ f4 = Absent
    BY <1>6, <1>10, <1>12, <2>3
  <2>. QED
    BY <1>13, <2>4
<1>15. CASE f1 = e1 /\ f2 # e2
  <2>1. e2 = Absent /\ f2.kind = "table" /\ f2.page = c
    <3>1. e1.kind = "table" /\ e1.page \in Page
      BY <1>5, <1>6, <1>7, <1>10, <1>15
    <3>. QED
      BY <1>5, <1>6, <1>8, <1>11, <1>15, <3>1
  <2>2. e3 = Absent /\ f3 = Absent
    BY <1>5, <1>6, <1>9, <1>10, <1>11, <1>12, <2>1
  <2>3. e4 = Absent /\ f4 = Absent
    BY <1>6, <1>10, <1>12, <2>2
  <2>. QED
    BY <1>13, <2>3
<1>16. e1.kind = "table" => e1.page \in Page
  BY <1>5, <1>6, <1>7
<1>17. e2.kind = "table" => e2.page \in Page
  <2>1. CASE e1.kind = "table"
    <3>1. e2 = tb[e1.page][va[2]] /\ e1.page \in Page
      BY <1>6, <1>11, <1>16, <2>1
    <3>. QED
      BY <1>5, <1>7, <3>1
  <2>2. CASE e1.kind # "table"
    BY <1>6, <1>10, <2>2
  <2>. QED
    BY <2>1, <2>2
<1>18. e3.kind = "table" => e3.page \in Page
  <2>1. CASE e2.kind = "table"
    <3>1. e3 = tb[e2.page][va[3]] /\ e2.page \in Page
      BY <1>6, <1>11, <1>17, <2>1
    <3>. QED
      BY <1>5, <1>7, <3>1
  <2>2. CASE e2.kind # "table"
    BY <1>6, <1>10, <2>2
  <2>. QED
    BY <2>1, <2>2
<1>19. CASE f1 = e1 /\ f2 = e2 /\ f3 # e3
  <2>1. e3 = Absent /\ f3.kind = "table" /\ f3.page = c
    <3>1. e2.kind = "table"
      BY <1>6, <1>10, <1>19
    <3>. QED
      BY <1>5, <1>6, <1>8, <1>11, <1>17, <1>19, <3>1
  <2>2. e4 = Absent /\ f4 = Absent
    BY <1>5, <1>6, <1>9, <1>10, <1>11, <1>12, <2>1
  <2>. QED
    BY <1>13, <2>2
<1>20. CASE f1 = e1 /\ f2 = e2 /\ f3 = e3
  <2>1. CASE f4 = e4
    BY <1>1, <1>2, <1>3, <1>4, <1>20, <2>1 DEF Map
  <2>2. CASE f4 # e4
    <3>1. e3.kind = "table"
      BY <1>6, <1>10, <1>20, <2>2
    <3>2. e4 = Absent /\ f4.kind = "table"
      BY <1>5, <1>6, <1>8, <1>11, <1>18, <1>20, <2>2, <3>1
    <3>3. Seen(e1, e2, e3, e4, va) = NULL /\ Seen(e1, e2, e3, f4, va) = NULL
      BY <1>12, <3>2 DEF Seen
    <3>. QED
      BY <1>1, <1>2, <1>3, <1>4, <1>20, <3>3 DEF Map
  <2>. QED
    BY <2>1, <2>2
<1>. QED
  BY <1>14, <1>15, <1>19, <1>20

\* To open a table to ring 3 changes nothing for pages that are not.
LEMMA OpeningMapsSame ==
  ASSUME NEW tb \in Contents, NEW t2 \in Contents,
         \A q \in Page, j \in Index : Alike(tb[q][j], t2[q][j]),
         \A q \in Page, j \in Index : tb[q][j].kind = "page" => ~tb[q][j].user,
         NEW s \in Page, NEW va \in [1 .. 4 -> Index]
  PROVE  Map(t2, s, va) = Map(tb, s, va)
<1> DEFINE shut(e) == (e.kind = "table" => e.page \in Page) /\ (e.kind = "page" => ~e.user)
<1>1. \A q \in Page, j \in Index : shut(tb[q][j]) /\ Alike(tb[q][j], t2[q][j])
  BY Shape DEF EntryShape
<1>2. ASSUME NEW e, NEW f, shut(e), Alike(e, f), NEW j \in Index
      PROVE  /\ shut(BelowIn(tb, e, j))
             /\ Alike(BelowIn(tb, e, j), BelowIn(t2, f, j))
  <2>1. CASE e.kind = "table"
    <3>1. f.kind = "table" /\ f.page = e.page /\ e.page \in Page
      BY <1>2, <2>1 DEF Alike
    <3>2. BelowIn(tb, e, j) = tb[e.page][j] /\ BelowIn(t2, f, j) = t2[e.page][j]
      BY <2>1, <3>1 DEF BelowIn
    <3>3. shut(tb[e.page][j]) /\ Alike(tb[e.page][j], t2[e.page][j])
      BY <1>1, <3>1, Zenon
    <3>. QED
      BY <3>2, <3>3, Zenon
  <2>2. CASE e.kind # "table"
    <3>1. BelowIn(tb, e, j) = e /\ BelowIn(t2, f, j) = f
      BY <1>2, <2>2 DEF BelowIn, Alike
    <3>. QED
      BY <1>2, <3>1, Zenon
  <2>. QED
    BY <2>1, <2>2
<1>3. va[1] \in Index /\ va[2] \in Index /\ va[3] \in Index /\ va[4] \in Index
  OBVIOUS
<1>4. PICK e1, f1 : e1 = First(tb, s, va) /\ f1 = First(t2, s, va)
  OBVIOUS
<1>5. PICK e2, f2 : e2 = Second(tb, s, va) /\ f2 = Second(t2, s, va)
  OBVIOUS
<1>6. PICK e3, f3 : e3 = Third(tb, s, va) /\ f3 = Third(t2, s, va)
  OBVIOUS
<1>7. PICK e4, f4 : e4 = Fourth(tb, s, va) /\ f4 = Fourth(t2, s, va)
  OBVIOUS
<1>8. /\ e1 = tb[s][va[1]] /\ e2 = BelowIn(tb, e1, va[2])
      /\ e3 = BelowIn(tb, e2, va[3]) /\ e4 = BelowIn(tb, e3, va[4])
      /\ f1 = t2[s][va[1]] /\ f2 = BelowIn(t2, f1, va[2])
      /\ f3 = BelowIn(t2, f2, va[3]) /\ f4 = BelowIn(t2, f3, va[4])
  BY <1>4, <1>5, <1>6, <1>7 DEF First, Second, Third, Fourth
<1>9. shut(e4) /\ Alike(e4, f4)
  <2> HIDE DEF shut
  <2>1. shut(e1) /\ Alike(e1, f1)
    BY <1>1, <1>3, <1>8
  <2>2. shut(e2) /\ Alike(e2, f2)
    BY <1>2, <1>3, <1>8, <2>1
  <2>3. shut(e3) /\ Alike(e3, f3)
    BY <1>2, <1>3, <1>8, <2>2
  <2>. QED
    BY <1>2, <1>3, <1>8, <2>3
<1>10. Seen(f1, f2, f3, f4, va) = Seen(e1, e2, e3, e4, va)
  <2>1. CASE e4.kind = "page"
    <3>1. f4 = e4 /\ e4.user = FALSE
      BY <1>9, <2>1 DEF Alike
    <3>2. (f1.user /\ f2.user /\ f3.user /\ f4.user) = (e1.user /\ e2.user /\ e3.user /\ e4.user)
      BY <3>1
    <3>. QED
      BY <3>1, <3>2, Zenon DEF Seen
  <2>2. CASE e4.kind # "page"
    BY <1>9, <2>2 DEF Seen, Alike
  <2>. QED
    BY <2>1, <2>2
<1>. QED
  BY <1>4, <1>5, <1>6, <1>7, <1>10 DEF Map

\* The store of an entry of the last level is seen at one address of one space.
LEMMA StoreMapsOne ==
  ASSUME VirtualMemoryAssumption, NEW tb \in Contents, NEW t2 \in Contents, NEW b \in Labels,
         Tree(tb, b), NEW p \in Page, NEW i \in Index, SameBut(tb, t2, p, i),
         NEW r \in Page, NEW w \in Va, OnWay(b, r, w, p, 4), i = w[4],
         NEW s \in Page, NEW va \in Va, OnWay(b, s, va, s, 1), s # r \/ va # w,
         OwnerOf(s, w, 4) = OwnerOf(r, w, 4) => s = r
  PROVE  Map(t2, s, va) = Map(tb, s, va)
<1>1. ASSUME NEW q \in Page, NEW n \in 1 .. 4, OnWay(b, s, va, q, n)
      PROVE  t2[q][va[n]] = tb[q][va[n]]
  <2>1. va[n] \in Index
    BY VaFacts
  <2>2. CASE q # p \/ va[n] # i
    BY <2>1, <2>2 DEF SameBut
  <2>3. CASE q = p /\ va[n] = i
    <3>1. n = 4
      BY <1>1, <2>3 DEF OnWay
    <3>2. BeginAt(va, 4) = BeginAt(w, 4) /\ OwnerOf(s, va, 4) = OwnerOf(r, w, 4) /\ va[4] = w[4]
      BY <1>1, <2>3, <3>1 DEF OnWay
    <3>3. BeginAt(va, 4)[1] = va[1] /\ BeginAt(va, 4)[2] = va[2] /\ BeginAt(va, 4)[3] = va[3]
      BY DEF BeginAt
    <3>4. BeginAt(w, 4)[1] = w[1] /\ BeginAt(w, 4)[2] = w[2] /\ BeginAt(w, 4)[3] = w[3]
      BY DEF BeginAt
    <3>5. va[1] = w[1] /\ va[2] = w[2] /\ va[3] = w[3]
      BY <3>2, <3>3, <3>4, Zenon
    <3>6. va \in [1 .. 4 -> Index] /\ w \in [1 .. 4 -> Index]
      BY DEF Va
    <3>7. \A k \in 1 .. 4 : va[k] = w[k]
      BY <3>2, <3>5
    <3>8. va = w
      BY <3>6, <3>7
    <3>. QED
      BY <3>2, <3>8
  <2>. QED
    BY <2>2, <2>3
<1>. QED
  BY <1>1, SameOnWay

(***************************************************************************)
(* The abstract steps.                                                     *)
(***************************************************************************)
SameMap(s, va) == Map(table', s, va) = Map(table, s, va)

LEMMA AbstractStutters ==
  ASSUME spaces' = spaces, \A s \in spaces, va \in Va : SameMap(s, va)
  PROVE  UNCHANGED Abstract!avars
<1>1. \A s \in spaces, va \in Va : Mapping(s, va)' = Mapping(s, va)
  BY MappingIs DEF SameMap
<1>. QED
  BY <1>1 DEF Abstract!avars

LEMMA AbstractChanges ==
  ASSUME spaces' = spaces, NEW r \in spaces, NEW w \in Va, w \in SharedVa => spaces = {Kernel},
         \A s \in spaces, va \in Va : s # r \/ va # w => SameMap(s, va)
  PROVE  Abstract!Change(r, w)
<1>1. \A s \in spaces, va \in Va : s # r \/ va # w => Mapping(s, va)' = Mapping(s, va)
  BY MappingIs DEF SameMap
<1>. QED
  BY <1>1 DEF Abstract!Change

LEMMA AbstractCreates ==
  ASSUME NEW r, r \notin spaces, r \in Page, spaces' = spaces \cup {r},
         \A s \in spaces, va \in Va : SameMap(s, va),
         Kernel \in spaces, SharedVa \subseteq Va,
         \A va \in Va : Map(table', r, va) = IF va \in SharedVa THEN Map(table, Kernel, va) ELSE NULL
  PROVE  Abstract!CreateSpace(r)
<1>1. \A s \in spaces, va \in Va : Mapping(s, va)' = Mapping(s, va)
  BY MappingIs DEF SameMap
<1>2. \A va \in Va : Mapping(r, va)' = IF va \in SharedVa THEN Mapping(Kernel, va) ELSE NULL
  BY MappingIs
<1>. QED
  BY <1>1, <1>2 DEF Abstract!CreateSpace
-----------------------------------------------------------------------------
(***************************************************************************)
(* What else holds if no mapping interrupts another.                       *)
(***************************************************************************)
OneMapping == \A t, u \in Thread : op[t] # Idle /\ op[u] # Idle => t = u

\* A new table is empty, and nobody has filled the entry that is to lead there.
NewIsEmpty ==
  \A t \in Thread :
    op[t] # Idle /\ op[t].new # NULL =>
      EntryOf(t) = Absent /\ \A i \in Index : table[op[t].new][i] = Absent

\* Before the way to KuserVa opens, no page is open to ring 3 either.
ShutBefore ==
  phase # "run" =>
    /\ \A p \in Page, i \in Index : table[p][i].kind = "page" => ~table[p][i].user
    /\ table[table[1][KuserVa[2]].page][KuserVa[3]] = Huge

OpenAfter == phase = "run" => table[Kernel][0].user

Undisturbed == OneMapping /\ NewIsEmpty /\ ShutBefore /\ OpenAfter

\* What a step keeps, and its abstract step.
Goes == Undisturbed' /\ [Abstract!ANext]_(Abstract!avars)

(***************************************************************************)
(* At first.                                                               *)
(***************************************************************************)
LEMMA InitUndisturbed ==
  ASSUME VirtualMemoryAssumption, Init
  PROVE  Undisturbed
<1>1. OneMapping /\ NewIsEmpty /\ OpenAfter
  BY DEF Init, OneMapping, NewIsEmpty, OpenAfter
<1>2. ASSUME NEW p \in Page, NEW i \in Index PROVE table[p][i].kind # "page"
  <2>1. BootTables[p][i] \in {Absent, Huge, TableAt(1, FALSE), TableAt(2 + i, FALSE), TableAt(Kernel, TRUE)}
    BY BootEntries
  <2>. QED
    BY <2>1, TableKind, EntryFacts, Zenon DEF Init
<1>3. table[table[1][KuserVa[2]].page][KuserVa[3]] = Huge
  <2>1. PICK i \in Index : i = KuserVa[2] /\ i < Low /\ 2 + i \in Page /\ 2 <= 2 + i /\ 2 + i <= Low + 1
    BY VaFacts, PageFacts
  <2>2. table[1][i] = TableAt(2 + i, FALSE)
    BY <2>1, BootEntries DEF Init
  <2>3. table[1][i].page = 2 + i
    BY <2>2, TableKind, Zenon
  <2>4. PICK q \in Page, k \in Index : q = 2 + i /\ k = KuserVa[3]
    BY <2>1, VaFacts
  <2>5. table[q][k] = Huge
    BY <2>1, <2>4, BootEntries DEF Init
  <2>. QED
    BY <2>1, <2>3, <2>4, <2>5
<1>. QED
  BY <1>1, <1>2, <1>3 DEF Undisturbed, ShutBefore

LEMMA SeenNothing ==
  ASSUME NEW e1, NEW e2, NEW e3, NEW va
  PROVE  Seen(e1, e2, e3, Absent, va) = NULL
BY AbsentKind DEF Seen

LEMMA SeenHuge ==
  ASSUME NEW e1, NEW e2, NEW e3, NEW va
  PROVE  Seen(e1, e2, e3, Huge, va) = [frame |-> va, user |-> FALSE, writable |-> TRUE]
BY EntryFacts DEF Seen

LEMMA InitAbstract ==
  ASSUME VirtualMemoryAssumption, Init
  PROVE  Abstract!AInit
<1>1. ASSUME NEW va \in Va
      PROVE  Mapping(Kernel, va) = IF va \in LowVa THEN [frame |-> va, user |-> FALSE, writable |-> TRUE]
                                   ELSE NULL
  <2>1. PICK i \in Index, j \in Index, k \in Index : i = va[1] /\ j = va[2] /\ k = va[3]
    BY VaFacts
  <2>2. PICK e1, e2, e3, e4 : /\ e1 = First(table, Kernel, va) /\ e2 = Second(table, Kernel, va)
                              /\ e3 = Third(table, Kernel, va) /\ e4 = Fourth(table, Kernel, va)
    OBVIOUS
  <2>3. /\ e1 = table[Kernel][i] /\ e2 = BelowIn(table, e1, j)
        /\ e3 = BelowIn(table, e2, k) /\ e4 = BelowIn(table, e3, va[4])
    BY <2>1, <2>2 DEF First, Second, Third, Fourth
  <2>4. Mapping(Kernel, va) = Seen(e1, e2, e3, e4, va)
    BY <2>2, MappingIs DEF Map
  <2>5. Absent.kind # "table" /\ Huge.kind # "table"
    BY HugeIsNone
  <2>6. CASE i # 0
    <3>1. e1 = Absent
      BY <2>3, <2>6, BootEntries DEF Init
    <3>2. e2 = Absent
      BY <2>3, <2>5, <3>1 DEF BelowIn
    <3>3. e3 = Absent
      BY <2>3, <2>5, <3>2 DEF BelowIn
    <3>4. e4 = Absent
      BY <2>3, <2>5, <3>3 DEF BelowIn
    <3>. QED
      BY <2>1, <2>4, <2>6, <3>4, SeenNothing DEF LowVa
  <2>7. CASE i = 0
    <3>1. e1 = TableAt(1, FALSE)
      BY <2>3, <2>7, BootEntries DEF Init
    <3>2. e1.kind = "table" /\ e1.page = 1
      BY <3>1, TableKind, Zenon
    <3>3. e2 = table[1][j]
      BY <2>3, <3>2 DEF BelowIn
    <3>4. CASE ~(j < Low)
      <4>1. e2 = Absent
        BY <3>3, <3>4, BootEntries DEF Init
      <4>2. e3 = Absent
        BY <2>3, <2>5, <4>1 DEF BelowIn
      <4>3. e4 = Absent
        BY <2>3, <2>5, <4>2 DEF BelowIn
      <4>. QED
        BY <2>1, <2>4, <3>4, <4>3, SeenNothing DEF LowVa
    <3>5. CASE j < Low
      <4>1. e2 = TableAt(2 + j, FALSE)
        BY <3>3, <3>5, BootEntries DEF Init
      <4>2. e2.kind = "table" /\ e2.page = 2 + j
        BY <4>1, TableKind, Zenon
      <4>3. 2 + j \in Page /\ 2 <= 2 + j /\ 2 + j <= Low + 1
        BY <3>5, PageFacts
      <4>4. e3 = Huge
        BY <2>3, <4>2, <4>3, BootEntries DEF BelowIn, Init
      <4>5. e4 = Huge
        BY <2>3, <2>5, <4>4 DEF BelowIn
      <4>6. va \in LowVa
        BY <2>1, <2>7, <3>5 DEF LowVa
      <4>. QED
        BY <2>4, <4>5, <4>6, SeenHuge
    <3>. QED
      BY <3>4, <3>5
  <2>. QED
    BY <2>6, <2>7
<1>2. spaces = {Kernel}
  BY DEF Init
<1>. QED
  BY <1>1, <1>2 DEF Abstract!AInit
-----------------------------------------------------------------------------
(***************************************************************************)
(* What steps of one kind keep.                                            *)
(***************************************************************************)
\* If calls do not preempt each other, who starts one is alone.
LEMMA Alone ==
  ASSUME ~Preemptible, NEW t \in Thread, op[t] = Idle, Turn(t)
  PROVE  \A u \in Thread : op[u] = Idle
BY DEF Turn

LEMMA AllIdle ==
  ASSUME \A u \in Thread : op'[u] = Idle
  PROVE  OneMapping' /\ NewIsEmpty'
BY DEF OneMapping, NewIsEmpty

LEMMA NothingNew ==
  ASSUME Kinds, OneMapping, NEW t \in Thread, NEW o, op' = [op EXCEPT ![t] = o],
         op[t] # Idle \/ \A u \in Thread : op[u] = Idle,
         o # Idle => o.new = NULL
  PROVE  OneMapping' /\ NewIsEmpty'
<1>1. op'[t] = o /\ \A u \in Thread \ {t} : op'[u] = op[u]
  BY DEF Kinds
<1>2. \A u \in Thread \ {t} : op'[u] = Idle
  BY <1>1 DEF OneMapping
<1>. QED
  BY <1>1, <1>2 DEF OneMapping, NewIsEmpty

\* A step that only moves a mapping on is none of the abstract specification.
LEMMA TablesStay ==
  ASSUME Undisturbed, OneMapping', NewIsEmpty', table' = table, spaces' = spaces,
         phase' = "run" <=> phase = "run"
  PROVE  Goes
<1>1. UNCHANGED Abstract!avars
  BY AbstractStutters DEF SameMap
<1>2. ShutBefore' /\ OpenAfter'
  BY DEF Undisturbed, ShutBefore, OpenAfter
<1>. QED
  BY <1>1, <1>2 DEF Goes, Undisturbed

\* Nor is one that fills pages that were no tables.
LEMMA FreshMapsSame ==
  ASSUME VirtualMemoryAssumption, Kinds, NEW b \in Labels, Tree(table, b), RootsLabelled(b),
         table' \in Contents, \A q \in Page : b.level[q] # 0 => table'[q] = table[q]
  PROVE  \A s \in spaces, va \in Va : SameMap(s, va)
<1>1. PICK t2 \in Contents : t2 = table'
  OBVIOUS
<1>2. ASSUME NEW s \in spaces, NEW va \in Va PROVE Map(t2, s, va) = Map(table, s, va)
  <2>1. s \in Page /\ table \in Contents
    BY DEF Kinds
  <2>2. OnWay(b, s, va, s, 1)
    BY <2>1, RootOnWay
  <2>3. \A p \in Page, n \in 1 .. 4 : OnWay(b, s, va, p, n) => t2[p][va[n]] = table[p][va[n]]
    BY <1>1 DEF OnWay
  <2>. QED
    BY <2>1, <2>2, <2>3, SameOnWay
<1>. QED
  BY <1>1, <1>2 DEF SameMap

LEMMA FreshKeeps ==
  ASSUME VirtualMemoryAssumption, Kinds, NEW b \in Labels, Tree(table, b), RootsLabelled(b),
         ShutBefore, OpenAfter, phase' = phase,
         \A q \in Page : b.level[q] # 0 => table'[q] = table[q],
         phase # "run" =>
           \A q \in Page, i \in Index : table'[q][i].kind = "page" => ~table'[q][i].user
  PROVE  ShutBefore' /\ OpenAfter'
<1>1. PICK t2 : t2 = table'
  OBVIOUS
<1>2. b.level[Kernel] = 1 /\ b.level[1] = 2 /\ Kernel \in Page /\ 1 \in Page
  BY KernelLabels, PageFacts DEF Kinds
<1>3. PICK q \in Page : q = table[1][KuserVa[2]].page /\ b.level[q] = 3
  BY <1>2, KuserTables DEF RootsLabelled, Kinds, OnWay
<1>4. t2[Kernel] = table[Kernel] /\ t2[1] = table[1] /\ t2[q] = table[q]
  BY <1>1, <1>2, <1>3
<1>. QED
  BY <1>1, <1>3, <1>4 DEF ShutBefore, OpenAfter

LEMMA StoreKeeps ==
  ASSUME VirtualMemoryAssumption, Kinds, NEW b \in Labels, Tree(table, b), RootsLabelled(b),
         ShutBefore, OpenAfter, phase' = "run" <=> phase = "run",
         NEW p \in Page, NEW i \in Index, SameBut(table, table', p, i),
         table[p][i].kind \in {"absent", "page"},
         phase # "run" /\ table'[p][i].kind = "page" => ~table'[p][i].user
  PROVE  ShutBefore' /\ OpenAfter'
<1>1. PICK t2 : t2 = table'
  OBVIOUS
<1>2. \A r \in Page, j \in Index : r # p \/ j # i => t2[r][j] = table[r][j]
  BY <1>1 DEF SameBut
<1>3. table[Kernel][0].kind = "table" /\ Kernel \in Page /\ 0 \in Index
  BY PageFacts DEF Tree, KernelTables
<1>4. t2[Kernel][0] = table[Kernel][0]
  BY <1>2, <1>3
<1>5. PICK q \in Page, j \in Index, k \in Index :
        /\ j = KuserVa[2] /\ k = KuserVa[3] /\ q = table[1][j].page
        /\ table[1][j].kind = "table" /\ 1 \in Page
  <2>1. Kernel \in spaces
    BY KernelLabels, PageFacts DEF RootsLabelled, Kinds
  <2>. QED
    BY <2>1, KuserTables, VaFacts, PageFacts DEF Kinds
<1>6. t2[1][j] = table[1][j]
  BY <1>2, <1>5
<1>7. table[q][k] = Huge => t2[q][k] = Huge
  BY <1>2, HugeIsNone, EntryFacts
<1>8. phase # "run" =>
        \A r \in Page, x \in Index : t2[r][x].kind = "page" => ~t2[r][x].user
  BY <1>1, <1>2 DEF ShutBefore
<1>9. OpenAfter'
  BY <1>1, <1>4 DEF OpenAfter
<1>10. ShutBefore'
  BY <1>1, <1>5, <1>6, <1>7, <1>8 DEF ShutBefore
<1>. QED
  BY <1>9, <1>10
-----------------------------------------------------------------------------
(***************************************************************************)
(* The steps of MapPage and MapPageInto.                                   *)
(***************************************************************************)
LEMMA MapPageGoes ==
  ASSUME VirtualMemoryAssumption, ~Preemptible, IInv, Undisturbed, NEW t \in Thread, MapPage(t)
  PROVE  Goes
<1>1. PICK o : o = [level |-> 1, root |-> Kernel, va |-> KernelVa, leaf |-> TestPage,
                    at |-> Kernel, new |-> NULL]
  OBVIOUS
<1>2. op' = [op EXCEPT ![t] = o] /\ o.new = NULL
  BY <1>1 DEF MapPage, Start
<1>3. \A u \in Thread : op[u] = Idle
  BY Alone DEF MapPage, Start
<1>4. OneMapping' /\ NewIsEmpty'
  BY <1>2, <1>3, NothingNew DEF IInv, Undisturbed
<1>. QED
  BY <1>4, TablesStay DEF MapPage

LEMMA MapPageIntoGoes ==
  ASSUME VirtualMemoryAssumption, ~Preemptible, IInv, Undisturbed, NEW t \in Thread, MapPageInto(t)
  PROVE  Goes
<1>1. PICK root \in spaces \ {Kernel}, va \in UserVa, leaf \in UserPage : Start(t, root, va, leaf)
  BY LeafIsUser DEF MapPageInto
<1>2. PICK o : o = [level |-> 1, root |-> root, va |-> va, leaf |-> leaf,
                    at |-> root, new |-> NULL]
  OBVIOUS
<1>3. op' = [op EXCEPT ![t] = o] /\ o.new = NULL
  BY <1>1, <1>2 DEF Start
<1>4. \A u \in Thread : op[u] = Idle
  BY <1>1, Alone DEF Start
<1>5. OneMapping' /\ NewIsEmpty'
  BY <1>3, <1>4, NothingNew DEF IInv, Undisturbed
<1>. QED
  BY <1>5, TablesStay DEF MapPageInto

LEMMA RefuseGoes ==
  ASSUME VirtualMemoryAssumption, IInv, Undisturbed, NEW t \in Thread, Refuse(t)
  PROVE  Goes
<1>1. op[t] # Idle
  BY OpFacts DEF IInv, Kinds, Refuse, AtTable
<1>2. OneMapping' /\ NewIsEmpty'
  BY <1>1, NothingNew DEF IInv, Undisturbed, Refuse
<1>. QED
  BY <1>2, TablesStay DEF Refuse

LEMMA DescendGoes ==
  ASSUME VirtualMemoryAssumption, IInv, Undisturbed, NEW t \in Thread, Descend(t)
  PROVE  Goes
<1>1. op[t] \in Op /\ op[t] # Idle /\ op[t].new = NULL
  BY OpFacts DEF IInv, Kinds, Descend, AtTable
<1>2. PICK x \in Op : x = op[t]
  BY <1>1
<1>3. PICK o : o = [x EXCEPT !.level = x.level + 1, !.at = EntryOf(t).page]
  OBVIOUS
<1>4. op' = [op EXCEPT ![t] = o] /\ o.new = NULL
  BY <1>1, <1>2, <1>3 DEF Descend, Op
<1>5. OneMapping' /\ NewIsEmpty'
  BY <1>1, <1>4, NothingNew DEF IInv, Undisturbed
<1>. QED
  BY <1>5, TablesStay DEF Descend

LEMMA GetOrAllocGoes ==
  ASSUME VirtualMemoryAssumption, IInv, Undisturbed, NEW t \in Thread, GetOrAlloc(t)
  PROVE  Goes
<1>1. PICK b \in Labels : Fits(b)
  BY DEF IInv
<1>2. op[t] \in Op /\ op[t] # Idle /\ op[t].level \in 1 .. 3 /\ EntryOf(t) = Absent
  BY OpFacts DEF IInv, Kinds, GetOrAlloc, AtTable
<1>3. PICK x \in Op : x = op[t]
  BY <1>2
<1>4. PICK p \in Page : p = Lowest /\ p \in free
  BY AllocPage DEF IInv, Kinds, GetOrAlloc
<1>5. PICK o : o = [x EXCEPT !.new = p]
  OBVIOUS
<1>6. o \in Op /\ o.level = x.level /\ o.at = x.at /\ o.new = p /\ o.va = x.va
  BY <1>5 DEF Op
<1>7. op' = [op EXCEPT ![t] = o]
  BY <1>3, <1>4, <1>5 DEF GetOrAlloc
<1>8. Tree(table, b) /\ RootsLabelled(b) /\ Kinds /\ table \in Contents
  BY <1>1 DEF IInv, Kinds, Fits
<1>9. b.level[p] = 0 /\ b.level[x.at] # 0 /\ x.at \in Page /\ x.va[x.level] \in Index
  BY <1>1, <1>2, <1>3, <1>4, <1>8, OpFields DEF Fits, OpsFit, Within, OnWay, RootsLabelled
<1>10. PICK row \in [Index -> Entry] : row = Cleared(p) /\ \A i \in Index : row[i] = Absent
  <2>1. Cleared(p) \in [Index -> Entry] /\ \A i \in Index : Cleared(p)[i] = Absent
    BY EntryFacts DEF Cleared
  <2>. QED
    BY <2>1
<1>11. PICK t2 \in Contents : t2 = table' /\ t2[p] = row /\ \A q \in Page \ {p} : t2[q] = table[q]
  <2>1. table' = [table EXCEPT ![p] = row]
    BY <1>4, <1>10 DEF GetOrAlloc
  <2>. QED
    BY <1>8, <2>1 DEF Contents
<1>12. \A q \in Page : b.level[q] # 0 => table'[q] = table[q]
  BY <1>9, <1>11
<1>13. UNCHANGED Abstract!avars
  BY <1>8, <1>11, <1>12, FreshMapsSame, AbstractStutters DEF GetOrAlloc
<1>14. ShutBefore' /\ OpenAfter'
  <2>1. ASSUME phase # "run", NEW q \in Page, NEW i \in Index, t2[q][i].kind = "page"
        PROVE  ~t2[q][i].user
    <3>1. q # p
      BY <1>10, <1>11, <2>1, AbsentKind
    <3>. QED
      BY <1>11, <2>1, <3>1 DEF Undisturbed, ShutBefore
  <2>. QED
    BY <1>8, <1>11, <1>12, <2>1, FreshKeeps DEF GetOrAlloc, Undisturbed
<1>15. op'[t] = o /\ \A u \in Thread \ {t} : op'[u] = Idle
  BY <1>2, <1>7, <1>8 DEF Kinds, Undisturbed, OneMapping
<1>16. OneMapping'
  BY <1>15 DEF OneMapping
<1>17. t2[x.at][x.va[x.level]] = Absent
  BY <1>2, <1>3, <1>9, <1>11 DEF EntryOf
<1>18. NewIsEmpty'
  BY <1>6, <1>10, <1>11, <1>15, <1>17 DEF NewIsEmpty, EntryOf
<1>. QED
  BY <1>13, <1>14, <1>16, <1>18 DEF Goes, Undisturbed

LEMMA EntryStored ==
  ASSUME table \in Contents, NEW p \in Page, NEW i \in Index, NEW e \in Entry,
         table' = [table EXCEPT ![p][i] = e]
  PROVE  \E t2 \in Contents : t2 = table' /\ t2[p][i] = e /\ SameBut(table, t2, p, i)
<1>1. PICK t2 : t2 = [table EXCEPT ![p][i] = e]
  OBVIOUS
<1>2. t2 \in Contents /\ t2[p][i] = e /\ SameBut(table, t2, p, i)
  BY <1>1 DEF Contents, SameBut
<1>. QED
  BY <1>1, <1>2

LEMMA LinkGoes ==
  ASSUME VirtualMemoryAssumption, IInv, Undisturbed, NEW t \in Thread, Link(t)
  PROVE  Goes
<1>1. PICK b \in Labels : Fits(b)
  BY DEF IInv
<1>2. op[t] \in Op /\ op[t] # Idle /\ op[t].level \in 1 .. 3 /\ op[t].new # NULL
  BY OpFacts DEF IInv, Kinds, Link
<1>3. PICK x \in Op : x = op[t]
  BY <1>2
<1>4. /\ Within(b, x) /\ Allocated(b, x) /\ x.level \in 1 .. 3 /\ x.at \in Page
      /\ x.new \in Page /\ x.new # NULL /\ x.va[x.level] \in Index
  BY <1>1, <1>2, <1>3, OpFields DEF Fits, OpsFit
<1>5. PICK c \in Page : c = x.new
  BY <1>4
<1>6. PICK p \in Page : p = x.at
  BY <1>4
<1>7. PICK i \in Index, e \in Entry : i = x.va[x.level] /\ e = TableAt(c, TRUE)
  BY <1>4, EntryFacts
<1>8. Tree(table, b) /\ RootsLabelled(b) /\ Kinds /\ table \in Contents
  BY <1>1 DEF IInv, Kinds, Fits
<1>9. PICK t2 \in Contents : t2 = table' /\ t2[p][i] = e /\ SameBut(table, t2, p, i)
  <2>1. table' = [table EXCEPT ![p][i] = e]
    BY <1>3, <1>5, <1>6, <1>7 DEF Link
  <2>. QED
    BY <1>8, <2>1, EntryStored
<1>10. e.kind = "table" /\ e.page = c
  BY <1>7, TableKind, Zenon
<1>11. c # p
  <2>1. b.level[p] = x.level /\ b.level[c] = x.level + 1
    BY <1>4, <1>5, <1>6 DEF Within, Allocated, OnWay
  <2>. QED
    BY <1>4, <2>1
<1>12. table[p][i] = Absent /\ \A j \in Index : table[c][j] = Absent
  BY <1>2, <1>3, <1>5, <1>6, <1>7 DEF Undisturbed, NewIsEmpty, EntryOf
<1>13. ASSUME NEW s \in spaces, NEW va \in Va PROVE Map(t2, s, va) = Map(table, s, va)
  <2>1. s \in Page /\ va \in [1 .. 4 -> Index]
    BY <1>8, VaFacts DEF Kinds
  <2>. QED
    BY <1>8, <1>9, <1>10, <1>11, <1>12, <2>1, LinkMapsNothing
<1>14. UNCHANGED Abstract!avars
  BY <1>9, <1>13, AbstractStutters DEF SameMap, Link
<1>15. ShutBefore' /\ OpenAfter'
  <2>1. table[p][i].kind = "absent" /\ t2[p][i].kind # "page" /\ phase' = phase
    BY <1>9, <1>10, <1>12, AbsentKind DEF Link
  <2>2. SameBut(table, table', p, i) /\ table'[p][i].kind # "page"
    BY <1>9, <2>1
  <2>. QED
    BY <1>8, <2>1, <2>2, StoreKeeps DEF Undisturbed
<1>16. OneMapping' /\ NewIsEmpty'
  <2>1. PICK o : o = [x EXCEPT !.level = x.level + 1, !.at = x.new, !.new = NULL]
    OBVIOUS
  <2>2. op' = [op EXCEPT ![t] = o] /\ o.new = NULL
    BY <1>3, <2>1 DEF Link, Op
  <2>. QED
    BY <1>2, <1>8, <2>2, NothingNew DEF Undisturbed
<1>. QED
  BY <1>14, <1>15, <1>16 DEF Goes, Undisturbed
-----------------------------------------------------------------------------
(***************************************************************************)
(* The steps that store, change or clear an entry of the last level.       *)
(***************************************************************************)
\* Such a step changes one address of one space, the kernel's only while it is
\* the only one.
LEMMA StoreChanges ==
  ASSUME VirtualMemoryAssumption, Kinds, NEW b \in Labels, Tree(table, b), RootsLabelled(b),
         NEW r \in spaces, NEW w \in Va, NEW p \in Page, OnWay(b, r, w, p, 4),
         table' \in Contents, SameBut(table, table', p, w[4]), spaces' = spaces,
         r = Kernel => spaces = {Kernel},
         r # Kernel => w \in UserVa /\ ~(w[2] < Low)
  PROVE  Abstract!Change(r, w)
<1>1. PICK t2 \in Contents : t2 = table'
  OBVIOUS
<1>2. PICK i \in Index : i = w[4]
  BY VaFacts
<1>3. SameBut(table, t2, p, i) /\ table \in Contents
  BY <1>1, <1>2 DEF Kinds
<1>4. r # Kernel => w[1] = 0 /\ w \notin SharedVa
  BY VaFacts DEF SharedVa, LowVa
<1>5. ASSUME NEW s \in spaces, OwnerOf(s, w, 4) = OwnerOf(r, w, 4) PROVE s = r
  <2>1. CASE r = Kernel
    BY <2>1
  <2>2. CASE r # Kernel
    BY <1>4, <1>5, <2>2 DEF OwnerOf
  <2>. QED
    BY <2>1, <2>2
<1>6. ASSUME NEW s \in spaces, NEW va \in Va, s # r \/ va # w PROVE Map(t2, s, va) = Map(table, s, va)
  <2>1. s \in Page /\ r \in Page
    BY DEF Kinds
  <2>2. OnWay(b, s, va, s, 1)
    BY <2>1, RootOnWay
  <2>. QED
    BY <1>2, <1>3, <1>5, <1>6, <2>1, <2>2, StoreMapsOne
<1>7. \A s \in spaces, va \in Va : s # r \/ va # w => SameMap(s, va)
  BY <1>1, <1>6 DEF SameMap
<1>8. w \in SharedVa => spaces = {Kernel}
  BY <1>4
<1>. QED
  BY <1>7, <1>8, AbstractChanges

LEMMA SetEntryGoes ==
  ASSUME VirtualMemoryAssumption, IInv, Undisturbed, NEW t \in Thread, SetEntry(t)
  PROVE  Goes
<1>1. PICK b \in Labels : Fits(b)
  BY DEF IInv
<1>2. op[t] \in Op /\ op[t] # Idle /\ op[t].level = 4
  BY OpFacts DEF IInv, Kinds, SetEntry
<1>3. PICK x \in Op : x = op[t]
  BY <1>2
<1>4. /\ Within(b, x) /\ x.level = 4 /\ x.at \in Page /\ x.va[4] \in Index /\ x.va \in Va
      /\ x.leaf \in Entry /\ x.leaf.kind = "page"
  BY <1>1, <1>2, <1>3, OpFields DEF Fits, OpsFit
<1>5. Tree(table, b) /\ RootsLabelled(b) /\ Kinds /\ table \in Contents
  BY <1>1 DEF IInv, Kinds, Fits
<1>6. PICK p \in Page, i \in Index, e \in Entry : p = x.at /\ i = x.va[4] /\ e = x.leaf
  BY <1>4
<1>7. PICK t2 \in Contents : t2 = table' /\ t2[p][i] = e /\ SameBut(table, t2, p, i)
  <2>1. table' = [table EXCEPT ![p][i] = e]
    BY <1>3, <1>6 DEF SetEntry
  <2>. QED
    BY <1>5, <2>1, EntryStored
<1>8. PICK r \in spaces, w \in Va : r = x.root /\ w = x.va /\ OnWay(b, r, w, p, 4)
  BY <1>4, <1>6 DEF Within
<1>9. Abstract!Change(r, w)
  <2>1. r = Kernel => spaces = {Kernel}
    BY <1>4, <1>5, <1>8 DEF Within, RootsLabelled
  <2>2. r # Kernel => w \in UserVa /\ ~(w[2] < Low)
    BY <1>4, <1>8, VaFacts, PageFacts DEF Within
  <2>3. SameBut(table, table', p, w[4]) /\ table' \in Contents /\ spaces' = spaces
    BY <1>6, <1>7, <1>8 DEF SetEntry
  <2>. QED
    BY <1>5, <1>8, <2>1, <2>2, <2>3, StoreChanges
<1>10. ShutBefore' /\ OpenAfter'
  <2>1. table[p][i].kind \in {"absent", "page"}
    BY <1>5, <1>8 DEF Tree, EntriesFit, EntryFits, OnWay
  <2>2. phase # "run" => ~e.user
    <3>1. phase # "run" => e = TestPage
      BY <1>4, <1>6 DEF Within
    <3>. QED
      BY <3>1 DEF TestPage, PageAt
  <2>3. SameBut(table, table', p, i) /\ (phase # "run" /\ table'[p][i].kind = "page" => ~table'[p][i].user)
    BY <1>7, <2>2
  <2>4. phase' = "run" <=> phase = "run"
    BY DEF SetEntry
  <2>. QED
    BY <1>5, <2>1, <2>3, <2>4, StoreKeeps DEF Undisturbed
<1>11. OneMapping' /\ NewIsEmpty'
  BY <1>2, <1>5, NothingNew DEF Undisturbed, SetEntry
<1>. QED
  BY <1>5, <1>8, <1>9, <1>10, <1>11 DEF Goes, Undisturbed, Abstract!ANext, Kinds

\* UnmapPage, UnmapPageFrom and ProtectPageInto, while nobody maps.
LEMMA StoreGoes ==
  ASSUME VirtualMemoryAssumption, Kinds, Undisturbed, NEW b \in Labels, Tree(table, b),
         RootsLabelled(b), NEW r \in spaces, NEW w \in Va, HasTable(r, w, 4),
         NEW e \in Entry, table' = [table EXCEPT ![TableOf(r, w, 4)][w[4]] = e],
         phase # "run" => e = Absent,
         \A u \in Thread : op[u] = Idle, op' = op, spaces' = spaces,
         phase' = "run" <=> phase = "run",
         r = Kernel => spaces = {Kernel}, r # Kernel => w \in UserVa
  PROVE  Goes
<1>1. r \in Page /\ table \in Contents
  BY DEF Kinds
<1>2. OnWay(b, r, w, r, 1)
  BY <1>1, RootOnWay
<1>3. PICK p \in Page : p = TableOf(r, w, 4) /\ OnWay(b, r, w, p, 4)
  BY <1>1, <1>2, WalkOnWay DEF WalkFits
<1>4. PICK i \in Index : i = w[4]
  BY VaFacts
<1>5. PICK t2 \in Contents : t2 = table' /\ t2[p][i] = e /\ SameBut(table, t2, p, i)
  <2>1. table' = [table EXCEPT ![p][i] = e]
    BY <1>3, <1>4
  <2>. QED
    BY <1>1, <2>1, EntryStored
<1>6. r # Kernel => w \in UserVa /\ ~(w[2] < Low)
  BY <1>1, <1>2, LastIsPrivate
<1>7. Abstract!Change(r, w)
  <2>1. SameBut(table, table', p, w[4]) /\ table' \in Contents
    BY <1>4, <1>5
  <2>. QED
    BY <1>3, <1>6, <2>1, StoreChanges
<1>8. ShutBefore' /\ OpenAfter'
  <2>1. table[p][i].kind \in {"absent", "page"}
    BY <1>3 DEF Tree, EntriesFit, EntryFits, OnWay
  <2>2. SameBut(table, table', p, i) /\ (phase # "run" /\ table'[p][i].kind = "page" => ~table'[p][i].user)
    BY <1>5, AbsentKind
  <2>. QED
    BY <2>1, <2>2, StoreKeeps DEF Undisturbed
<1>9. OneMapping' /\ NewIsEmpty'
  BY AllIdle
<1>. QED
  BY <1>1, <1>7, <1>8, <1>9 DEF Goes, Undisturbed, Abstract!ANext

LEMMA ClearGoes ==
  ASSUME VirtualMemoryAssumption, Kinds, Undisturbed, NEW b \in Labels, Tree(table, b),
         RootsLabelled(b), NEW r \in spaces, NEW w \in Va, Clear(r, w),
         \A u \in Thread : op[u] = Idle, op' = op, spaces' = spaces,
         phase' = "run" <=> phase = "run",
         r = Kernel => spaces = {Kernel}, r # Kernel => w \in UserVa
  PROVE  Goes
<1>1. CASE HasTable(r, w, 4)
  <2>1. table' = [table EXCEPT ![TableOf(r, w, 4)][w[4]] = Absent]
    BY <1>1 DEF Clear
  <2>. QED
    BY <1>1, <2>1, EntryFacts, StoreGoes
<1>2. CASE ~HasTable(r, w, 4)
  <2>1. table' = table
    BY <1>2 DEF Clear
  <2>2. OneMapping' /\ NewIsEmpty'
    BY AllIdle
  <2>. QED
    BY <2>1, <2>2, TablesStay
<1>. QED
  BY <1>1, <1>2

LEMMA UnmapPageGoes ==
  ASSUME VirtualMemoryAssumption, IInv, Undisturbed, UnmapPage
  PROVE  Goes
<1>1. PICK b \in Labels : Fits(b)
  BY DEF IInv
<1>2. Tree(table, b) /\ RootsLabelled(b) /\ Kinds /\ OpsFit(b)
  BY <1>1 DEF IInv, Fits
<1>3. \A u \in Thread : op[u] = Idle
  BY <1>2, NobodyMaps DEF UnmapPage
<1>4. spaces = {Kernel} /\ KernelVa \in Va
  BY <1>2, VaFacts DEF RootsLabelled, UnmapPage
<1>. QED
  BY <1>2, <1>3, <1>4, ClearGoes DEF UnmapPage

LEMMA UnmapPageFromGoes ==
  ASSUME VirtualMemoryAssumption, ~Preemptible, IInv, Undisturbed, NEW t \in Thread, UnmapPageFrom(t)
  PROVE  Goes
<1>1. PICK b \in Labels : Fits(b)
  BY DEF IInv
<1>2. Tree(table, b) /\ RootsLabelled(b) /\ Kinds
  BY <1>1 DEF IInv, Fits
<1>3. \A u \in Thread : op[u] = Idle
  BY Alone DEF UnmapPageFrom
<1>4. PICK r \in spaces \ {Kernel}, w \in UserVa : Clear(r, w)
  BY DEF UnmapPageFrom
<1>. QED
  BY <1>2, <1>3, <1>4, VaFacts, ClearGoes DEF UnmapPageFrom

LEMMA ProtectPageIntoGoes ==
  ASSUME VirtualMemoryAssumption, ~Preemptible, IInv, Undisturbed, NEW t \in Thread, ProtectPageInto(t)
  PROVE  Goes
<1>1. PICK b \in Labels : Fits(b)
  BY DEF IInv
<1>2. Tree(table, b) /\ RootsLabelled(b) /\ Kinds /\ table \in Contents
  BY <1>1 DEF IInv, Fits, Kinds
<1>3. \A u \in Thread : op[u] = Idle
  BY Alone DEF ProtectPageInto
<1>4. PICK r \in spaces \ {Kernel}, w \in UserVa, y \in BOOLEAN :
        /\ Walk(r, w)[4].kind = "page"
        /\ table' = [table EXCEPT ![TableOf(r, w, 4)][w[4]] = PageAt(@.frame, TRUE, y)]
  BY DEF ProtectPageInto
<1>5. HasTable(r, w, 4) /\ w \in Va
  BY <1>2, <1>4, VaFacts, ProtectsUserPage
<1>6. PICK e \in Entry : table' = [table EXCEPT ![TableOf(r, w, 4)][w[4]] = e]
  <2>1. \E e \in UserPage : table' = [table EXCEPT ![TableOf(r, w, 4)][w[4]] = e]
    BY <1>2, <1>4, ProtectsUserPage
  <2>. QED
    BY <2>1, EntryFacts, Zenon
<1>7. phase = "run"
  BY <1>2, <1>4 DEF RootsLabelled
<1>8. op' = op /\ spaces' = spaces /\ phase' = phase /\ r # Kernel
  BY DEF ProtectPageInto
<1>. QED
  BY <1>2, <1>3, <1>4, <1>5, <1>6, <1>7, <1>8, StoreGoes
-----------------------------------------------------------------------------
(***************************************************************************)
(* The step of MapSharedUserData.                                          *)
(***************************************************************************)
LEMMA SeenIdentity ==
  ASSUME NEW e1, NEW e2, NEW e3, NEW va
  PROVE  Seen(e1, e2, e3, Identity(va), va) = [frame |-> va, user |-> FALSE, writable |-> TRUE]
<1>1. PICK e4 : /\ e4 = Identity(va) /\ e4.kind = "page" /\ e4.frame = va
                /\ e4.user = FALSE /\ e4.writable = TRUE
  <2>1. Identity(va).user = FALSE /\ Identity(va).writable = TRUE
    BY Zenon DEF Identity, PageAt
  <2>2. Identity(va).kind = "page" /\ Identity(va).frame = va
    BY DEF Identity, PageAt
  <2>. QED
    BY <2>1, <2>2, Zenon
<1>2. (e1.user /\ e2.user /\ e3.user /\ e4.user) = FALSE
  BY <1>1
<1>3. Seen(e1, e2, e3, e4, va) =
        [frame |-> e4.frame, user |-> e1.user /\ e2.user /\ e3.user /\ e4.user,
         writable |-> e4.writable]
  BY <1>1 DEF Seen
<1>. QED
  BY <1>1, <1>2, <1>3, Zenon

\* Around KuserVa, pages map what the huge page did.
LEMMA SplitMapsSame ==
  ASSUME VirtualMemoryAssumption, NEW tb \in Contents, NEW t2 \in Contents,
         NEW p \in Page, NEW q \in Page,
         tb[Kernel][0].kind = "table", tb[Kernel][0].page = 1, t2[Kernel][0] = tb[Kernel][0],
         tb[1][KuserVa[2]].kind = "table", tb[1][KuserVa[2]].page = q,
         t2[1][KuserVa[2]] = tb[1][KuserVa[2]],
         tb[q][KuserVa[3]] = Huge, t2[q][KuserVa[3]] = TableAt(p, TRUE), t2[p] = Split,
         NEW va \in Va, va[1] = KuserVa[1], va[2] = KuserVa[2], va[3] = KuserVa[3], va # KuserVa
  PROVE  Map(t2, Kernel, va) = Map(tb, Kernel, va)
<1>1. va \in [1 .. 4 -> Index] /\ KuserVa \in [1 .. 4 -> Index] /\ KuserVa[1] = 0
  BY VaFacts
<1>2. PICK e1, e2, e3, e4 : /\ e1 = First(tb, Kernel, va) /\ e2 = Second(tb, Kernel, va)
                            /\ e3 = Third(tb, Kernel, va) /\ e4 = Fourth(tb, Kernel, va)
  OBVIOUS
<1>3. e1 = tb[Kernel][0] /\ e1.kind = "table" /\ e1.page = 1
  BY <1>1, <1>2 DEF First
<1>4. e2 = tb[1][KuserVa[2]] /\ e2.kind = "table" /\ e2.page = q
  BY <1>2, <1>3 DEF Second, BelowIn
<1>5. e3 = Huge
  BY <1>2, <1>4 DEF Third, BelowIn
<1>6. e4 = Huge
  BY <1>2, <1>5, HugeIsNone DEF Fourth, BelowIn
<1>7. Map(tb, Kernel, va) = [frame |-> va, user |-> FALSE, writable |-> TRUE]
  BY <1>2, <1>6, SeenHuge DEF Map
<1>8. First(t2, Kernel, va) = e1
  BY <1>1, <1>3 DEF First
<1>9. Second(t2, Kernel, va) = e2
  BY <1>3, <1>4, <1>8 DEF Second, BelowIn
<1>10. PICK f3 : f3 = Third(t2, Kernel, va) /\ f3 = TableAt(p, TRUE)
  BY <1>4, <1>9, Zenon DEF Third, BelowIn
<1>11. f3.kind = "table" /\ f3.page = p
  BY <1>10 DEF TableAt
<1>12. Fourth(t2, Kernel, va) = Split[va[4]]
  BY <1>10, <1>11 DEF Fourth, BelowIn
<1>13. PICK i \in Index : i = va[4]
  BY <1>1
<1>14. va = [KuserVa EXCEPT ![4] = i]
  <2>1. \A k \in 1 .. 4 : va[k] = [KuserVa EXCEPT ![4] = i][k]
    BY <1>1, <1>13
  <2>. QED
    BY <1>1, <2>1
<1>15. i # KuserVa[4]
  BY <1>1, <1>14
<1>16. Split[i] = Identity(va)
  BY <1>14, <1>15 DEF Split
<1>17. Map(t2, Kernel, va) = [frame |-> va, user |-> FALSE, writable |-> TRUE]
  BY <1>8, <1>9, <1>10, <1>12, <1>13, <1>16, SeenIdentity, Zenon DEF Map
<1>. QED
  BY <1>7, <1>17

LEMMA MapSharedUserDataGoes ==
  ASSUME VirtualMemoryAssumption, IInv, Undisturbed, MapSharedUserData
  PROVE  Goes
<1>1. PICK b \in Labels : Fits(b)
  BY DEF IInv
<1>2. /\ Tree(table, b) /\ RootsLabelled(b) /\ OpsFit(b) /\ Kinds /\ phase = "unmapped"
      /\ table \in Contents
  BY <1>1 DEF Fits, IInv, Kinds, MapSharedUserData
<1>3. OneMapping' /\ NewIsEmpty'
  BY <1>2, NobodyMaps, AllIdle DEF MapSharedUserData
<1>4. spaces = {Kernel} /\ spaces' = spaces /\ phase' = "run" /\ Kernel \in Page
  BY <1>2, PageFacts DEF RootsLabelled, MapSharedUserData
<1>5. PICK t1 \in Contents :
        /\ t1 = UserWay(table) /\ Tree(t1, b) /\ t1[Kernel][0].user
        /\ t1[1][KuserVa[2]].page = table[1][KuserVa[2]].page
        /\ \A q \in Page, j \in Index : Alike(table[q][j], t1[q][j])
  BY <1>2, UserWayFits
<1>6. ASSUME NEW va \in Va PROVE Map(t1, Kernel, va) = Map(table, Kernel, va)
  <2>1. \A q \in Page, j \in Index : table[q][j].kind = "page" => ~table[q][j].user
    BY <1>2 DEF Undisturbed, ShutBefore
  <2>2. va \in [1 .. 4 -> Index]
    BY VaFacts
  <2>. QED
    BY <1>2, <1>4, <1>5, <2>1, <2>2, OpeningMapsSame
<1>7. CASE free = {}
  <2>1. table' = t1
    BY <1>5, <1>7 DEF MapSharedUserData
  <2>2. UNCHANGED Abstract!avars
    BY <1>4, <1>6, <2>1, AbstractStutters DEF SameMap
  <2>3. ShutBefore' /\ OpenAfter'
    BY <1>4, <1>5, <2>1 DEF ShutBefore, OpenAfter
  <2>. QED
    BY <1>3, <2>2, <2>3 DEF Goes, Undisturbed
<1>8. CASE free # {}
  <2>1. PICK p \in Page : p = Lowest /\ p \in free
    BY <1>2, <1>8, AllocPage DEF Kinds
  <2>2. PICK q \in Page : /\ q = TableOf(Kernel, KuserVa, 3) /\ OnWay(b, Kernel, KuserVa, q, 3)
                          /\ q = table[1][KuserVa[2]].page
    BY <1>2, <1>4, KuserTables
  <2>3. PICK i \in Index, j \in Index : i = KuserVa[3] /\ j = KuserVa[2] /\ j \in 0 .. Low - 1
    BY VaFacts, PageFacts
  <2>4. PICK row \in [Index -> Entry] : row = Split
    BY SplitFits
  <2>5. PICK e \in Entry : e = TableAt(p, TRUE)
    BY <2>1, EntryFacts
  <2>6. table' = [t1 EXCEPT ![q][i] = e, ![p] = row]
    BY <1>5, <1>8, <2>1, <2>2, <2>3, <2>4, <2>5 DEF MapSharedUserData
  <2>7. b.level[p] = 0 /\ b.level[q] = 3 /\ b.level[Kernel] = 1 /\ b.level[1] = 2 /\ 1 \in Page /\ 0 \in Index
    BY <1>2, <2>1, <2>2, KernelLabels, PageFacts DEF RootsLabelled, OnWay
  <2>8. PICK t2 \in Contents :
          /\ t2 = table' /\ t2[p] = row /\ t2[q][i] = e
          /\ \A r \in Page \ {p}, k \in Index : r # q \/ k # i => t2[r][k] = t1[r][k]
    <3>1. PICK t2 : t2 = [t1 EXCEPT ![q][i] = e, ![p] = row]
      OBVIOUS
    <3>2. p # q
      BY <2>7
    <3>3. t2 \in Contents /\ t2[p] = row /\ t2[q][i] = e
      BY <1>5, <3>1, <3>2 DEF Contents
    <3>4. \A r \in Page \ {p}, k \in Index : r # q \/ k # i => t2[r][k] = t1[r][k]
      BY <1>5, <3>1, <3>2 DEF Contents
    <3>. QED
      BY <2>6, <3>1, <3>3, <3>4
  <2>9. t2[Kernel][0] = t1[Kernel][0] /\ t2[1][j] = t1[1][j]
    BY <1>4, <2>7, <2>8
  <2>10. ASSUME NEW va \in Va, va # KuserVa PROVE Map(t2, Kernel, va) = Map(t1, Kernel, va)
    <3>1. CASE va[1] = KuserVa[1] /\ va[2] = KuserVa[2] /\ va[3] = KuserVa[3]
      <4>1. t1[Kernel][0].kind = "table" /\ t1[Kernel][0].page = 1 /\ t1[1][j].kind = "table"
        BY <1>5, <2>3 DEF Tree, KernelTables
      <4>2. t1[1][j].page = q
        BY <1>5, <2>2, <2>3
      <4>3. t1[q][i] = Huge
        <5>1. table[q][i] = Huge
          BY <1>2, <2>2, <2>3 DEF Undisturbed, ShutBefore
        <5>. QED
          BY <1>5, <5>1, HugeIsNone DEF Alike
      <4>4. t2[q][KuserVa[3]] = TableAt(p, TRUE) /\ t1[q][KuserVa[3]] = Huge /\ t2[p] = Split
        BY <2>3, <2>4, <2>5, <2>8, <4>3, Zenon
      <4>. QED
        BY <2>3, <2>9, <2>10, <3>1, <4>1, <4>2, <4>4, SplitMapsSame
    <3>2. CASE ~(va[1] = KuserVa[1] /\ va[2] = KuserVa[2] /\ va[3] = KuserVa[3])
      <4>1. OnWay(b, Kernel, va, Kernel, 1)
        BY <1>2, <1>4, RootOnWay
      <4>2. ASSUME NEW r \in Page, NEW n \in 1 .. 4, OnWay(b, Kernel, va, r, n)
            PROVE  t2[r][va[n]] = t1[r][va[n]]
        <5>1. r # p /\ va[n] \in Index
          BY <2>7, <4>2, VaFacts DEF OnWay
        <5>2. ~(r = q /\ va[n] = i)
          <6>1. SUFFICES ASSUME r = q, va[n] = i PROVE FALSE
            OBVIOUS
          <6>2. n = 3
            BY <2>7, <4>2, <6>1 DEF OnWay
          <6>3. BeginAt(va, 3) = BeginAt(KuserVa, 3)
            BY <2>2, <4>2, <6>1, <6>2 DEF OnWay
          <6>4. /\ BeginAt(va, 3)[1] = va[1] /\ BeginAt(va, 3)[2] = va[2]
                /\ BeginAt(KuserVa, 3)[1] = KuserVa[1] /\ BeginAt(KuserVa, 3)[2] = KuserVa[2]
            BY DEF BeginAt
          <6>. QED
            BY <2>3, <3>2, <6>1, <6>2, <6>3, <6>4
        <5>. QED
          BY <2>8, <5>1, <5>2
      <4>. QED
        BY <1>4, <1>5, <4>1, <4>2, SameOnWay
    <3>. QED
      BY <3>1, <3>2
  <2>11. \A s \in spaces, va \in Va : s # Kernel \/ va # KuserVa => SameMap(s, va)
    BY <1>4, <1>6, <2>8, <2>10 DEF SameMap
  <2>12. Abstract!Change(Kernel, KuserVa)
    BY <1>4, <2>11, VaFacts, AbstractChanges
  <2>13. ShutBefore' /\ OpenAfter'
    BY <1>4, <1>5, <2>8, <2>9 DEF ShutBefore, OpenAfter
  <2>. QED
    BY <1>3, <1>4, <2>12, <2>13, VaFacts DEF Goes, Undisturbed, Abstract!ANext
<1>. QED
  BY <1>7, <1>8
-----------------------------------------------------------------------------
(***************************************************************************)
(* The step of CreateUserPml4.                                             *)
(***************************************************************************)
\* The root s and the second table p of a new space map the kernel's addresses
\* as the kernel does, and no other.
LEMMA NewSpaceMaps ==
  ASSUME VirtualMemoryAssumption, NEW tb \in Contents, NEW t2 \in Contents, NEW b \in Labels,
         Tree(tb, b), tb[Kernel][0].user, NEW s \in Page, NEW p \in Page,
         LeadsTo(t2[s][0], p), \A i \in Index \ {0} : t2[s][i] = tb[Kernel][i],
         \A i \in Index : i < Low => t2[p][i] = tb[1][i],
         \A i \in Index : ~(i < Low) => t2[p][i] = Absent,
         \A q \in Page : b.level[q] # 0 => t2[q] = tb[q],
         NEW va \in Va, OnWay(b, Kernel, va, Kernel, 1)
  PROVE  Map(t2, s, va) = IF va \in SharedVa THEN Map(tb, Kernel, va) ELSE NULL
<1>1. /\ va[1] \in Index /\ va[2] \in Index /\ va[3] \in Index /\ va[4] \in Index
      /\ Kernel \in Page /\ 0 \in Index
  BY VaFacts, PageFacts
<1>2. \A q \in Page, n \in 2 .. 4 : OnWay(b, Kernel, va, q, n) => t2[q][va[n]] = tb[q][va[n]]
  BY DEF OnWay
<1>3. CASE va[1] # 0
  <2>1. First(t2, s, va) = First(tb, Kernel, va)
    BY <1>1, <1>3 DEF First
  <2>2. Map(t2, s, va) = Map(tb, Kernel, va)
    BY <1>1, <1>2, <2>1, SameFromFirst
  <2>. QED
    BY <1>3, <2>2 DEF SharedVa
<1>4. PICK f1 : f1 = First(t2, s, va)
  OBVIOUS
<1>5. ASSUME va[1] = 0 PROVE f1.kind = "table" /\ f1.page = p /\ f1.user = TRUE
  <2>1. f1 = t2[s][0] /\ EntryShape(f1)
    BY <1>1, <1>4, <1>5, Shape DEF First
  <2>2. f1.kind = "table" /\ f1.page = p /\ f1.user
    BY <2>1 DEF LeadsTo
  <2>3. f1.user \in BOOLEAN
    BY <2>1, <2>2, Zenon DEF EntryShape
  <2>. QED
    BY <2>2, <2>3, Zenon
<1>6. va[1] = 0 => Second(t2, s, va) = t2[p][va[2]]
  BY <1>4, <1>5 DEF Second, BelowIn
<1>7. CASE va[1] = 0 /\ va[2] < Low
  <2>1. PICK e1 : e1 = First(tb, Kernel, va)
    OBVIOUS
  <2>2. e1.kind = "table" /\ e1.page = 1
    BY <1>7, <2>1 DEF First, Tree, KernelTables
  <2>3. e1.user = TRUE
    <3>1. EntryShape(e1)
      BY <1>1, <1>7, <2>1, Shape DEF First
    <3>2. e1.user \in BOOLEAN
      BY <2>2, <3>1, Zenon DEF EntryShape
    <3>3. e1.user
      BY <1>7, <2>1 DEF First
    <3>. QED
      BY <3>2, <3>3, Zenon
  <2>4. Second(t2, s, va) = Second(tb, Kernel, va)
    BY <1>1, <1>6, <1>7, <2>1, <2>2 DEF Second, BelowIn
  <2>5. \A q \in Page, n \in 3 .. 4 : OnWay(b, Kernel, va, q, n) => t2[q][va[n]] = tb[q][va[n]]
    BY <1>2
  <2>6. Third(t2, s, va) = Third(tb, Kernel, va) /\ Fourth(t2, s, va) = Fourth(tb, Kernel, va)
    BY <1>1, <2>4, <2>5, SameFromSecond
  <2>7. f1.user = TRUE
    BY <1>5, <1>7
  <2>8. \A e2, e3, e4 : Seen(f1, e2, e3, e4, va) = Seen(e1, e2, e3, e4, va)
    BY <2>3, <2>7, Zenon DEF Seen
  <2>9. Map(t2, s, va) = Map(tb, Kernel, va)
    BY <1>4, <2>1, <2>4, <2>6, <2>8 DEF Map
  <2>. QED
    BY <1>7, <2>9 DEF SharedVa, LowVa
<1>8. CASE va[1] = 0 /\ ~(va[2] < Low)
  <2>1. Second(t2, s, va) = Absent
    BY <1>1, <1>6, <1>8
  <2>2. Third(t2, s, va) = Absent
    BY <2>1, HugeIsNone DEF Third, BelowIn
  <2>3. Fourth(t2, s, va) = Absent
    BY <2>2, HugeIsNone DEF Fourth, BelowIn
  <2>4. Map(t2, s, va) = NULL
    BY <2>3, SeenNothing DEF Map
  <2>. QED
    BY <1>8, <2>4 DEF SharedVa, LowVa
<1>. QED
  BY <1>3, <1>7, <1>8

LEMMA CreateUserPml4Goes ==
  ASSUME VirtualMemoryAssumption, ~Preemptible, IInv, Undisturbed, NEW t \in Thread, CreateUserPml4(t)
  PROVE  Goes
<1>1. PICK b \in Labels : Fits(b)
  BY DEF IInv
<1>2. /\ Tree(table, b) /\ RootsLabelled(b) /\ Kinds /\ table \in Contents
      /\ phase = "run" /\ phase' = phase /\ op' = op
  BY <1>1 DEF Fits, IInv, Kinds, CreateUserPml4
<1>3. OneMapping' /\ NewIsEmpty'
  BY <1>2, Alone, AllIdle DEF CreateUserPml4
<1>4. PICK s \in Page : s = Lowest /\ s \in free /\ free # {}
  BY <1>2, AllocPage DEF Kinds, CreateUserPml4
<1>5. PICK rest : rest = free \ {s} /\ rest \subseteq Page
  BY <1>2 DEF Kinds
<1>6. b.level[s] = 0 /\ s \notin spaces /\ Kernel \in spaces /\ Kernel \in Page /\ spaces \subseteq Page
  BY <1>2, <1>4, KernelLabels, PageFacts DEF RootsLabelled, Kinds
<1>7. CASE rest = {}
  <2>1. table' = [table EXCEPT ![s] = UserRoot(Absent)] /\ UNCHANGED <<free, spaces, phase, op>>
    BY <1>4, <1>5, <1>7 DEF CreateUserPml4
  <2>2. PICK row \in [Index -> Entry] : row = UserRoot(Absent)
    BY <1>2, EntryFacts, UserRootFits
  <2>3. PICK t1 : t1 = [table EXCEPT ![s] = row] /\ t1 = table'
    BY <2>1, <2>2
  <2>4. t1 \in Contents /\ \A q \in Page \ {s} : t1[q] = table[q]
    BY <1>2, <2>3 DEF Contents
  <2>5. table' \in Contents /\ \A q \in Page : b.level[q] # 0 => table'[q] = table[q]
    BY <1>6, <2>3, <2>4
  <2>6. UNCHANGED Abstract!avars
    BY <1>2, <2>1, <2>5, FreshMapsSame, AbstractStutters
  <2>7. ShutBefore' /\ OpenAfter'
    BY <1>2, <2>5, FreshKeeps DEF Undisturbed
  <2>. QED
    BY <1>3, <2>6, <2>7 DEF Goes, Undisturbed
<1>8. CASE rest # {}
  <2>1. PICK p \in rest : p = Min(rest)
    BY <1>5, <1>8, PageFacts, MinFree
  <2>2. /\ table' = [table EXCEPT ![s] = UserRoot(TableAt(p, TRUE)), ![p] = LowTable(p)]
        /\ spaces' = spaces \cup {s}
    BY <1>4, <1>5, <1>8, <2>1 DEF CreateUserPml4
  <2>3. p \in Page /\ p # s /\ b.level[p] = 0
    BY <1>2, <1>5, <2>1 DEF RootsLabelled
  <2>4. PICK low \in [Index -> Entry] :
          /\ low = LowTable(p)
          /\ \A i \in Index : i < Low => low[i] = table[1][i]
          /\ \A i \in Index : ~(i < Low) => low[i] = Absent
    BY <1>2, LowTableFits
  <2>5. PICK e \in Entry : e = TableAt(p, TRUE)
    BY <2>3, EntryFacts
  <2>6. PICK row \in [Index -> Entry] :
          /\ row = UserRoot(e) /\ row[0] = e
          /\ \A i \in Index \ {0} : row[i] = table[Kernel][i]
    BY <1>2, UserRootFits
  <2>7. PICK t2 \in Contents :
          /\ t2 = table' /\ t2[s] = row /\ t2[p] = low
          /\ \A q \in Page : q # s /\ q # p => t2[q] = table[q]
    <3>1. PICK t2 : t2 = [table EXCEPT ![s] = row, ![p] = low]
      OBVIOUS
    <3>2. t2 = table'
      BY <2>2, <2>4, <2>5, <2>6, <3>1, Zenon
    <3>3. /\ t2 \in Contents /\ t2[s] = row /\ t2[p] = low
          /\ \A q \in Page : q # s /\ q # p => t2[q] = table[q]
      BY <1>2, <2>3, <3>1 DEF Contents
    <3>. QED
      BY <3>2, <3>3
  <2>8. \A q \in Page : b.level[q] # 0 => t2[q] = table[q]
    BY <1>6, <2>3, <2>7
  <2>9. ASSUME NEW va \in Va
        PROVE  Map(t2, s, va) = IF va \in SharedVa THEN Map(table, Kernel, va) ELSE NULL
    <3>1. OnWay(b, Kernel, va, Kernel, 1) /\ table[Kernel][0].user
      BY <1>2, <1>6, RootOnWay DEF Undisturbed, OpenAfter
    <3>2. LeadsTo(t2[s][0], p)
      <4>1. LeadsTo(e, p)
        BY <2>5, OpenTable, Zenon
      <4>. QED
        BY <1>6, <2>3, <2>6, <2>7, <4>1
    <3>3. \A i \in Index \ {0} : t2[s][i] = table[Kernel][i]
      BY <2>6, <2>7
    <3>4. /\ \A i \in Index : i < Low => t2[p][i] = table[1][i]
          /\ \A i \in Index : ~(i < Low) => t2[p][i] = Absent
      BY <2>4, <2>7
    <3>. QED
      BY <1>2, <2>3, <2>8, <3>1, <3>2, <3>3, <3>4, NewSpaceMaps
  <2>10. \A r \in spaces, va \in Va : SameMap(r, va)
    BY <1>2, <2>7, <2>8, FreshMapsSame
  <2>11. SharedVa \subseteq Va
    BY DEF SharedVa, LowVa
  <2>12. Abstract!CreateSpace(s)
    BY <1>6, <2>2, <2>7, <2>9, <2>10, <2>11, AbstractCreates
  <2>13. ShutBefore' /\ OpenAfter'
    BY <1>2, <2>7, <2>8, FreshKeeps DEF Undisturbed
  <2>. QED
    BY <1>3, <2>12, <2>13 DEF Goes, Undisturbed, Abstract!ANext
<1>. QED
  BY <1>7, <1>8
-----------------------------------------------------------------------------
LEMMA NextGoes ==
  ASSUME VirtualMemoryAssumption, ~Preemptible, IInv, Undisturbed, [Next]_vars
  PROVE  Goes
<1>1. CASE UnmapPage
  BY <1>1, UnmapPageGoes
<1>2. CASE MapSharedUserData
  BY <1>2, MapSharedUserDataGoes
<1>3. ASSUME NEW t \in Thread, MapPage(t) PROVE Goes
  BY <1>3, MapPageGoes
<1>4. ASSUME NEW t \in Thread, MapPageInto(t) PROVE Goes
  BY <1>4, MapPageIntoGoes
<1>5. ASSUME NEW t \in Thread, Descend(t) PROVE Goes
  BY <1>5, DescendGoes
<1>6. ASSUME NEW t \in Thread, Refuse(t) PROVE Goes
  BY <1>6, RefuseGoes
<1>7. ASSUME NEW t \in Thread, GetOrAlloc(t) PROVE Goes
  BY <1>7, GetOrAllocGoes
<1>8. ASSUME NEW t \in Thread, Link(t) PROVE Goes
  BY <1>8, LinkGoes
<1>9. ASSUME NEW t \in Thread, SetEntry(t) PROVE Goes
  BY <1>9, SetEntryGoes
<1>10. ASSUME NEW t \in Thread, UnmapPageFrom(t) PROVE Goes
  BY <1>10, UnmapPageFromGoes
<1>11. ASSUME NEW t \in Thread, ProtectPageInto(t) PROVE Goes
  BY <1>11, ProtectPageIntoGoes
<1>12. ASSUME NEW t \in Thread, CreateUserPml4(t) PROVE Goes
  BY <1>12, CreateUserPml4Goes
<1>13. CASE UNCHANGED vars
  <2>1. OneMapping' /\ NewIsEmpty'
    BY <1>13 DEF Undisturbed, OneMapping, NewIsEmpty, EntryOf, vars
  <2>. QED
    BY <1>13, <2>1, TablesStay DEF vars
<1>. QED
  BY <1>1, <1>2, <1>3, <1>4, <1>5, <1>6, <1>7, <1>8, <1>9, <1>10, <1>11, <1>12, <1>13 DEF Next

\* Tables of four levels, some of them shared by all spaces, behave as one map
\* of addresses for each space, if no thread preempts another inside
\* MapPageInto: every step changes one mapping, or makes a space with the
\* kernel's mappings, or is not seen by any program.
THEOREM ImplementsMaps ==
  ASSUME VirtualMemoryAssumption, ~Preemptible
  PROVE  Spec => ImplementsAddressSpaces
<1>1. Init => Undisturbed /\ Abstract!AInit
  BY InitUndisturbed, InitAbstract
<1>2. IInv /\ Undisturbed /\ [Next]_vars => Undisturbed' /\ [Abstract!ANext]_(Abstract!avars)
  BY NextGoes DEF Goes
<1>. QED
  BY <1>1, <1>2, Invariance, PTL DEF Spec, ImplementsAddressSpaces, Abstract!ASpec
=============================================================================
