--------------------------- MODULE VirtualMemory ----------------------------
(***************************************************************************)
(* The virtual memory manager (virtual_memory.cpp): page tables of four    *)
(* levels, in pages.  The kernel's tables map low addresses to themselves  *)
(* with huge pages; a user space starts with a copy of the kernel's root,  *)
(* except that its first entry gets a table of its own, so that user       *)
(* addresses are private.  A thread can be preempted while it builds the   *)
(* tables for a page, and another of its process build there too.          *)
(*                                                                         *)
(* Which pages hold data is left open: a Frame is none of the pages that   *)
(* hold tables (see PhysicalMemory).                                       *)
(***************************************************************************)
EXTENDS Integers, Sequences, FiniteSets, FiniteSetsExt

CONSTANTS
  Thread,       \* the threads that map pages
  Pages,        \* the number of pages for tables
  Fan,          \* the number of entries of a table (512)
  Low,          \* how many entries of the second level map addresses to themselves (4)
  UserVa,       \* the addresses that threads of processes map
  KernelVa,     \* the address that is mapped at boot, to try
  KuserVa,      \* 0x7FFE0000
  Frame,        \* the pages of data of processes
  KuserFrame,   \* the page of KUSER_SHARED_DATA
  MaxSpaces,    \* the number of user spaces
  NULL,         \* 0
  Preemptible   \* whether a thread may be preempted inside MapPageInto

Page == 0 .. Pages - 1

Index == 0 .. Fan - 1

\* An address, by its position in the table of each level.
Va == [1 .. 4 -> Index]

LowVa == {va \in Va : va[1] = 0 /\ va[2] < Low}

\* The addresses that CreateUserPml4 takes over from the kernel.
SharedVa == LowVa \cup {va \in Va : va[1] # 0}

ASSUME VirtualMemoryAssumption ==
  /\ Pages \in Nat /\ Fan \in Nat /\ Low \in 1 .. Fan /\ MaxSpaces \in Nat
  \* The boot loader has had pages for its tables; 0 is none of them.
  /\ Low + 2 <= Pages
  /\ NULL \notin Page
  /\ UserVa \subseteq Va
  /\ KernelVa \in SharedVa \ LowVa
  /\ KuserVa \in LowVa
  \* Nobody maps an address where the kernel has tables of its own.
  /\ \A va \in UserVa : va[1] = 0 /\ (va[2] < Low => \E n \in 1 .. 3 : va[n] # KuserVa[n])

VARIABLES
  table,    \* the contents of the pages, as tables
  free,     \* the pages that AllocPage may return
  spaces,   \* the roots: s_pml4_phys, and those of the processes
  phase,    \* how far the boot is
  op        \* the mapping that each thread is making

vars == <<table, free, spaces, phase, op>>

Kernel == 0   \* s_pml4_phys

(***************************************************************************)
(* Entries: empty, a table of the next level, a huge page that maps to     *)
(* itself, and a page; with the bits PTE_USER and PTE_WRITABLE.            *)
(***************************************************************************)
Absent == [kind |-> "absent"]

Huge == [kind |-> "huge"]

TableAt(p, user) == [kind |-> "table", page |-> p, user |-> user]

PageAt(frame, user, writable) ==
  [kind |-> "page", frame |-> frame, user |-> user, writable |-> writable]

Identity(va) == PageAt(va, FALSE, TRUE)

UserPage == [kind : {"page"}, frame : Frame, user : {TRUE}, writable : BOOLEAN]

\* The page of the smoke test: any, for the kernel only.
TestPage == PageAt(CHOOSE f \in Frame : TRUE, FALSE, TRUE)

KuserPage == PageAt(KuserFrame, TRUE, FALSE)

Entry ==
  {Absent, Huge, TestPage, KuserPage}
    \cup UserPage
    \cup {Identity(va) : va \in LowVa}
    \cup {TableAt(p, u) : p \in Page, u \in BOOLEAN}

\* A page holds anything until it is cleared, entries that look valid as well.
Stale == [i \in Index |-> TableAt(Kernel, TRUE)]

(***************************************************************************)
(* A walk: the entry for va at each level; below an entry that is no       *)
(* table, that entry.                                                      *)
(***************************************************************************)
Below(entry, i) == IF entry.kind = "table" THEN table[entry.page][i] ELSE entry

Walk(root, va) ==
  LET e1 == table[root][va[1]]
      e2 == Below(e1, va[2])
      e3 == Below(e2, va[3])
  IN <<e1, e2, e3, Below(e3, va[4])>>

\* The page at va and what may be done there, as the processor sees it.
Mapping(root, va) ==
  LET walk == Walk(root, va)
  IN CASE walk[4].kind = "huge" ->
            [frame |-> va, user |-> FALSE, writable |-> TRUE]
       [] walk[4].kind = "page" ->
            [frame |-> walk[4].frame,
             user |-> \A n \in 1 .. 4 : walk[n].user,
             writable |-> walk[4].writable]
       [] OTHER -> NULL

\* The table that holds the entry of va at level n, if there is one.
TableOf(root, va, n) == IF n = 1 THEN root ELSE Walk(root, va)[n - 1].page

HasTable(root, va, n) == \A i \in 1 .. n - 1 : Walk(root, va)[i].kind = "table"

(***************************************************************************)
(* At first: the boot loader's tables, and Main has the processor.         *)
(***************************************************************************)
Idle == [level |-> 0]

BootTables ==
  [p \in Page |->
     CASE p = Kernel -> [i \in Index |-> IF i = 0 THEN TableAt(1, FALSE) ELSE Absent]
       [] p = 1 -> [i \in Index |-> IF i < Low THEN TableAt(2 + i, FALSE) ELSE Absent]
       [] p \in 2 .. Low + 1 -> [i \in Index |-> Huge]
       [] OTHER -> Stale]

Init ==
  /\ table = BootTables
  /\ free = Low + 2 .. Pages - 1
  /\ spaces = {Kernel}
  /\ phase = "smoke"
  /\ op = [t \in Thread |-> Idle]

\* If calls do not preempt each other, no other thread is inside MapPageInto.
Turn(t) == Preemptible \/ \A u \in Thread \ {t} : op[u] = Idle

\* What AllocPage returns, and what is free then.
Lowest == Min(free)

Taken == free \ {Lowest}
-----------------------------------------------------------------------------
(***************************************************************************)
(* MapPage and MapPageInto.  An empty entry gets a new table (get_or_alloc *)
(* in two steps: the test with the allocation, and the store).             *)
(***************************************************************************)
Start(t, root, va, leaf) ==
  /\ op[t] = Idle
  /\ Turn(t)
  /\ op' = [op EXCEPT ![t] = [level |-> 1, root |-> root, va |-> va,
                              leaf |-> leaf, at |-> root, new |-> NULL]]

\* NtAllocVM, NtMapView, NtCreateThread, CreateUserThread, the loader.
MapPageInto(t) ==
  /\ phase = "run"
  /\ \E root \in spaces \ {Kernel}, va \in UserVa, f \in Frame :
       Start(t, root, va, PageAt(f, TRUE, TRUE))
  /\ UNCHANGED <<table, free, spaces, phase>>

\* The smoke test of KernelMain.
MapPage(t) ==
  /\ phase = "smoke"
  /\ phase' = "mapping"
  /\ Start(t, Kernel, KernelVa, TestPage)
  /\ UNCHANGED <<table, free, spaces>>

EntryOf(t) == table[op[t].at][op[t].va[op[t].level]]

AtTable(t) == op[t].level \in 1 .. 3 /\ op[t].new = NULL

Descend(t) ==
  /\ AtTable(t)
  /\ EntryOf(t).kind = "table"
  /\ op' = [op EXCEPT ![t].level = @ + 1, ![t].at = EntryOf(t).page]
  /\ UNCHANGED <<table, free, spaces, phase>>

\* False: below a huge page, or without a page for a table.
Refuse(t) ==
  /\ AtTable(t)
  /\ EntryOf(t) = Huge \/ (EntryOf(t) = Absent /\ free = {})
  /\ op' = [op EXCEPT ![t] = Idle]
  /\ UNCHANGED <<table, free, spaces, phase>>

\* Mutant: the new table is not cleared.
Uncleared(p) == table[p]

Cleared(p) == [i \in Index |-> Absent]

GetOrAlloc(t) ==
  /\ AtTable(t)
  /\ EntryOf(t) = Absent
  /\ free # {}
  /\ free' = Taken
  /\ table' = [table EXCEPT ![Lowest] = Cleared(Lowest)]
  /\ op' = [op EXCEPT ![t].new = Lowest]
  /\ UNCHANGED <<spaces, phase>>

Link(t) ==
  /\ op[t].level \in 1 .. 3
  /\ op[t].new # NULL
  /\ table' = [table EXCEPT ![op[t].at][op[t].va[op[t].level]] = TableAt(op[t].new, TRUE)]
  /\ op' = [op EXCEPT ![t].level = @ + 1, ![t].at = op[t].new, ![t].new = NULL]
  /\ UNCHANGED <<free, spaces, phase>>

\* The store of the entry itself, after which the caller is told true.
SetEntry(t) ==
  /\ op[t].level = 4
  /\ table' = [table EXCEPT ![op[t].at][op[t].va[4]] = op[t].leaf]
  /\ op' = [op EXCEPT ![t] = Idle]
  /\ phase' = IF phase = "mapping" THEN "mapped" ELSE phase
  /\ UNCHANGED <<free, spaces>>
-----------------------------------------------------------------------------
\* UnmapPage and UnmapPageFrom.
Clear(root, va) ==
  table' = IF HasTable(root, va, 4)
           THEN [table EXCEPT ![TableOf(root, va, 4)][va[4]] = Absent]
           ELSE table

UnmapPage ==
  /\ phase = "mapped"
  /\ phase' = "unmapped"
  /\ Clear(Kernel, KernelVa)
  /\ UNCHANGED <<free, spaces, op>>

\* NtUnmapView clears what is mapped.
UnmapPageFrom(t) ==
  /\ op[t] = Idle
  /\ Turn(t)
  /\ \E root \in spaces \ {Kernel}, va \in UserVa :
       /\ Mapping(root, va) # NULL
       /\ Clear(root, va)
  /\ UNCHANGED <<free, spaces, phase, op>>

\* NtProtectVirtualMemory.
ProtectPageInto(t) ==
  /\ op[t] = Idle
  /\ Turn(t)
  /\ \E root \in spaces \ {Kernel}, va \in UserVa, w \in BOOLEAN :
       /\ Walk(root, va)[4].kind = "page"
       /\ table' = [table EXCEPT ![TableOf(root, va, 4)][va[4]] =
                      PageAt(@.frame, TRUE, w)]
  /\ UNCHANGED <<free, spaces, phase, op>>

(***************************************************************************)
(* MapSharedUserData splits the huge page around KuserVa into pages, of    *)
(* which one is KUSER_SHARED_DATA, and opens the way to it for ring 3.     *)
(***************************************************************************)
Split ==
  [i \in Index |-> IF i = KuserVa[4] THEN KuserPage ELSE Identity([KuserVa EXCEPT ![4] = i])]

\* Mutant: the level above the page directory stays closed to ring 3.
UserWayClosed(tables) == [tables EXCEPT ![Kernel][KuserVa[1]].user = TRUE]

UserWay(tables) ==
  [tables EXCEPT ![Kernel][KuserVa[1]].user = TRUE,
                 ![TableOf(Kernel, KuserVa, 2)][KuserVa[2]].user = TRUE]

\* Without a page for the entries the way is open, the huge page whole, and the
\* boot goes on.
MapSharedUserData ==
  /\ phase = "unmapped"
  /\ phase' = "run"
  /\ IF free = {}
     THEN /\ table' = UserWay(table)
          /\ UNCHANGED free
     ELSE /\ free' = Taken
          /\ table' = [UserWay(table) EXCEPT
                         ![TableOf(Kernel, KuserVa, 3)][KuserVa[3]] = TableAt(Lowest, TRUE),
                         ![Lowest] = Split]
  /\ UNCHANGED <<spaces, op>>

(***************************************************************************)
(* CreateUserPml4.  When the second allocation fails, the first page is    *)
(* given back.                                                             *)
(***************************************************************************)
\* Mutant: the kernel's own table serves the first part of the space as well.
UserRootCopied(first) ==
  [i \in Index |->
     IF table[Kernel][i].kind = "table" THEN [table[Kernel][i] EXCEPT !.user = TRUE] ELSE Absent]

UserRoot(first) ==
  [i \in Index |->
     IF i = 0 THEN first
     ELSE IF table[Kernel][i].kind = "table" THEN [table[Kernel][i] EXCEPT !.user = TRUE]
     ELSE Absent]

LowTable(p) ==
  [i \in Index |-> IF i < Low THEN table[table[Kernel][0].page][i] ELSE Absent]

CreateUserPml4(t) ==
  /\ phase = "run"
  /\ op[t] = Idle
  /\ Turn(t)
  /\ Cardinality(spaces) <= MaxSpaces
  /\ free # {}
  /\ LET root == Lowest
         rest == free \ {root}
     IN IF rest = {}
        THEN /\ table' = [table EXCEPT ![root] = UserRoot(Absent)]
             /\ UNCHANGED <<free, spaces>>
        ELSE /\ table' = [table EXCEPT ![root] = UserRoot(TableAt(Min(rest), TRUE)),
                                       ![Min(rest)] = LowTable(Min(rest))]
             /\ free' = rest \ {Min(rest)}
             /\ spaces' = spaces \cup {root}
  /\ UNCHANGED <<phase, op>>
-----------------------------------------------------------------------------
Next ==
  \/ UnmapPage
  \/ MapSharedUserData
  \/ \E t \in Thread :
       \/ MapPage(t)
       \/ MapPageInto(t)
       \/ Descend(t)
       \/ Refuse(t)
       \/ GetOrAlloc(t)
       \/ Link(t)
       \/ SetEntry(t)
       \/ UnmapPageFrom(t)
       \/ ProtectPageInto(t)
       \/ CreateUserPml4(t)

Spec == Init /\ [][Next]_vars
-----------------------------------------------------------------------------
\* Every variable holds a value of its kind, and no mapping under way is in a
\* page that is free.
TypeOK ==
  /\ table \in [Page -> [Index -> Entry]]
  /\ free \subseteq Page
  /\ spaces \subseteq Page \ free
  /\ phase \in {"smoke", "mapping", "mapped", "unmapped", "run"}
  /\ \A t \in Thread :
       \/ op[t] = Idle
       \/ /\ op[t].level \in 1 .. 4
          /\ op[t].root \in spaces
          /\ op[t].va \in UserVa \cup {KernelVa}
          /\ op[t].leaf \in UserPage \cup {TestPage}
          /\ op[t].at \in Page \ free
          /\ op[t].new \in (Page \ free) \cup {NULL}

\* The tables under a root.
Children(S) ==
  {table[x[1]][x[2]].page : x \in {x \in S \X Index : table[x[1]][x[2]].kind = "table"}}

Tables(root) ==
  LET second == Children({root})
      third == Children(second)
  IN {root} \cup second \cup third \cup Children(third)

\* Every variable holds a value of its kind, two address spaces have no table
\* in common but those of the kernel's addresses, and no table is a page that
\* AllocPage may give to others (CreateUserPml4, get_or_alloc).
TablesPrivate ==
  /\ TypeOK
  /\ \A s \in spaces : Tables(s) \cap free = {}
  /\ \A s, r \in spaces : s # r =>
       Tables(s) \cap Tables(r) \subseteq Tables(Kernel) \ {Kernel, table[Kernel][0].page}

\* The kernel's memory is where it was in every address space: system calls
\* run on a process's tables.  Ring 3 can see KUSER_SHARED_DATA of it, in
\* every process and read-only, and nothing else.
KernelMapped ==
  \A s \in spaces :
    /\ \A va \in SharedVa : Mapping(s, va) = Mapping(Kernel, va)
    /\ \A va \in LowVa :
         Mapping(s, va) =
           IF va = KuserVa /\ Walk(Kernel, va)[3].kind = "table"
           THEN [frame |-> KuserFrame, user |-> TRUE, writable |-> FALSE]
           ELSE [frame |-> va, user |-> FALSE, writable |-> TRUE]

\* Tables of four levels, some of them shared, some filled in while others
\* read them, behave as one map for each address space (MapPageInto,
\* UnmapPageFrom, ProtectPageInto, CreateUserPml4, MapSharedUserData).
Abstract == INSTANCE AddressSpaces WITH
  Space <- Page,
  mapping <- [s \in spaces |-> [va \in Va |-> Mapping(s, va)]],
  Boot <- [va \in Va |-> IF va \in LowVa THEN [frame |-> va, user |-> FALSE, writable |-> TRUE]
                         ELSE NULL]

ImplementsAddressSpaces == Abstract!ASpec

\* MapPage "returns false if PT allocation fails" (memory.h:60): if it returns
\* true, the page is mapped.
MappedWhenTrue ==
  [][\A t \in Thread, root \in spaces, va \in UserVa :
       SetEntry(t) /\ op[t].root = root /\ op[t].va = va => Mapping(root, va)' # NULL]_vars

\* "Lower half (PML4[0..255]) zeroed (fresh user address space)" (memory.h:84).
LowerHalfZeroed ==
  [][\A s \in spaces' \ spaces, i \in Index : i < Fan \div 2 => table'[s][i] = Absent]_vars
=============================================================================
