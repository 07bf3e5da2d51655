------------------------------- MODULE Loader -------------------------------
(* The PE loader and the ways a program is started.  The kernel keeps one   *)
(* registry of modules for all processes; a program's imports are resolved  *)
(* against the registry, its code runs against what is mapped in its own    *)
(* address space.  Addresses are pages; an image is its size, its preferred *)
(* base and the modules it imports from.  Left out: the pages that page     *)
(* tables and the PEB take, the layout of sections and of export tables.  A *)
(* running system gives no page back: images and programs are never freed.  *)
EXTENDS Naturals, Sequences

CONSTANTS
    Programs,   \* file name -> [base, size, needs] of a program
    Dlls,       \* file name -> [base, size, needs] of a DLL in the kernel image
    NPROCS,     \* bound: processes created
    Starts,     \* <<way, program>>: what is started, and how
    MAX_MODULES,\* 64
    MaxReg,     \* 32: s_proc_reg
    Pages,      \* bound: free pages at the start
    HeapBase,   \* 0x500000000
    HeapMax,    \* 0x580000000
    StackOff    \* from the base of a program to its stack

ASSUME LoaderAssumption ==
    /\ NPROCS \in Nat /\ MAX_MODULES \in Nat /\ MaxReg \in Nat /\ Pages \in Nat
    /\ HeapBase \in Nat /\ HeapMax \in Nat /\ StackOff \in Nat

Procs == 1..NPROCS      \* in the order of their creation

CSTK == 2       \* pages of a program's stack

VARIABLES
    mods,       \* s_mods: names, in order of registration
    space,      \* process -> page -> what the page mapped there holds
    linked,     \* process -> <<module, base>> its import table points into
    pc,         \* process -> what its start does next, then "runs" or "stuck"
    start,      \* process -> [image, way]
    peb,        \* process -> PEB.ImageBaseAddress
    heap,       \* process -> UserHeapCursor
    given,      \* process -> <<DLL, base>> LoadLibrary returned
    free,       \* free physical pages
    halted      \* KASSERT failed

vars == <<mods, space, linked, pc, start, peb, heap, given, free, halted>>

Images ==
    [f \in DOMAIN Programs \cup DOMAIN Dlls |->
        IF f \in DOMAIN Programs THEN Programs[f] ELSE Dlls[f]]

\* For each way: the DLL loaded first, whether its failure is noticed, and
\* whether a stack without all its pages is.  The start of the shell and of
\* the test programs stops the kernel when anything fails.
Ways ==
    [launch  |-> [dll |-> "ntdll.dll",    dllChecked |-> TRUE,  stackChecked |-> TRUE],
     create  |-> [dll |-> "ntdll.dll",    dllChecked |-> FALSE, stackChecked |-> TRUE],
     winexec |-> [dll |-> "kernel32.dll", dllChecked |-> FALSE, stackChecked |-> FALSE],
     bg      |-> [dll |-> "none",         dllChecked |-> FALSE, stackChecked |-> FALSE]]

\* bg loads every program at one address; the others at the program's own.
LoadBase(img, way) == IF way = "bg" THEN HeapBase ELSE Images[img].base

Init ==
    /\ mods = <<>>
    /\ space = [p \in Procs |-> <<>>]
    /\ linked = [p \in Procs |-> {}]
    /\ pc = [p \in Procs |-> "none"]
    /\ start = [p \in Procs |-> <<>>]
    /\ peb = [p \in Procs |-> 0]
    /\ heap = [p \in Procs |-> HeapBase]
    /\ given = [p \in Procs |-> {}]
    /\ free = Pages
    /\ halted = FALSE

----------------------------------------------------------------------------
FindModule(name) == \E i \in 1..Len(mods) : mods[i] = name

\* Pages are taken one by one until there are none.
Taken(n) == IF n <= free THEN n ELSE free

\* n pages from a on are mapped in p, over what was mapped there.
MapPages(p, a, n, what) ==
    LET new == a..(a + Taken(n) - 1) IN
    /\ space' = [space EXCEPT ![p] =
                     [x \in new \cup DOMAIN @ |-> IF x \in new THEN what ELSE @[x]]]
    /\ free' = free - Taken(n)

\* LoadPe succeeds when all pages are there and every import has its module.
LoadsWhole(img) ==
    /\ Images[img].size <= free
    /\ \A m \in Images[img].needs : FindModule(m)

LoadPe(p, img, base) ==
    /\ MapPages(p, base, Images[img].size, img)
    /\ IF LoadsWhole(img)
       THEN /\ linked' = [linked EXCEPT ![p] = @ \cup
                            {<<m, Images[m].base>> : m \in Images[img].needs}]
            /\ peb' = IF p <= MaxReg THEN [peb EXCEPT ![p] = base] ELSE peb
       ELSE UNCHANGED <<linked, peb>>

RegisterModule(name) ==
    mods' = IF Len(mods) < MAX_MODULES THEN Append(mods, name) ELSE mods

\* Mutant: a module that is registered is not loaded again.
LoadOnce(p, name) ==
    /\ IF FindModule(name)
       THEN UNCHANGED <<space, free, linked, peb>>
       ELSE LoadPe(p, name, Images[name].base)
    /\ IF ~FindModule(name) /\ LoadsWhole(name) THEN RegisterModule(name)
                                                ELSE UNCHANGED mods

LoadAndRegister(p, name) ==
    /\ LoadPe(p, name, Images[name].base)
    /\ IF LoadsWhole(name) THEN RegisterModule(name) ELSE UNCHANGED mods

\* CreateProcess: the shell is launched by the kernel, anything else by a
\* program that runs.
Begin(p, img, way) ==
    /\ pc[p] = "none" /\ (p > 1 => pc[p-1] # "none")
    /\ way = "launch" \/ \E q \in Procs : pc[q] = "runs"
    /\ pc' = [pc EXCEPT ![p] = IF Ways[way].dll = "none" THEN "image" ELSE "dll"]
    /\ start' = [start EXCEPT ![p] = [image |-> img, way |-> way]]
    /\ UNCHANGED <<mods, space, linked, peb, heap, given, free, halted>>

LoadDll(p) ==
    /\ pc[p] = "dll"
    /\ \E w \in {Ways[start[p].way]} :
        /\ LoadAndRegister(p, w.dll)
        /\ pc' = [pc EXCEPT ![p] = "image"]
        /\ halted' = (w.dllChecked /\ ~LoadsWhole(w.dll))
        /\ UNCHANGED <<start, heap, given>>

\* A failure leaves the process, its pages and its module, and no thread.
LoadImage(p) ==
    /\ pc[p] = "image"
    /\ \E img \in {start[p].image}, way \in {start[p].way} :
        /\ LoadPe(p, img, LoadBase(img, way))
        /\ pc' = [pc EXCEPT ![p] = IF LoadsWhole(img) THEN "stack" ELSE "stuck"]
        /\ halted' = (way = "launch" /\ ~LoadsWhole(img))
        /\ UNCHANGED <<mods, start, heap, given>>

MakeStack(p) ==
    /\ pc[p] = "stack"
    /\ \E way \in {start[p].way} :
        /\ MapPages(p, LoadBase(start[p].image, way) + StackOff, CSTK, "stack")
        /\ pc' = [pc EXCEPT ![p] = IF Ways[way].stackChecked /\ free < CSTK
                                   THEN "stuck" ELSE "runs"]
        /\ halted' = (way = "launch" /\ free < CSTK)
        /\ UNCHANGED <<mods, linked, start, peb, heap, given>>

\* s_catalog, filled once.
Catalog == DOMAIN Dlls \ {"ntdll.dll"}

\* LoadLibrary looks in the registry, then in the catalog.
LoadLibrary(p, name) ==
    /\ pc[p] = "runs"
    /\ FindModule(name) \/ name \in Catalog
    /\ IF FindModule(name) THEN UNCHANGED <<mods, space, linked, peb, free>>
                           ELSE LoadAndRegister(p, name)
    /\ given' = [given EXCEPT ![p] = @ \cup
                    IF FindModule(name) \/ LoadsWhole(name)
                    THEN {<<name, Images[name].base>>} ELSE {}]
    /\ UNCHANGED <<pc, start, heap, halted>>

\* NT_ALLOC_VM of one page: the cursor moves also when no page is left.
AllocVm(p) ==
    /\ pc[p] = "runs" /\ heap[p] < HeapMax
    /\ heap' = [heap EXCEPT ![p] = @ + 1]
    /\ MapPages(p, heap[p], 1, "heap")
    /\ UNCHANGED <<mods, linked, pc, start, peb, given, halted>>

Next ==
    /\ ~halted
    /\ \E p \in Procs :
            \/ \E s \in Starts : Begin(p, s[2], s[1])
            \/ LoadDll(p) \/ LoadImage(p) \/ MakeStack(p) \/ AllocVm(p)
            \/ \E name \in DOMAIN Dlls : LoadLibrary(p, name)

Spec == Init /\ [][Next]_vars

----------------------------------------------------------------------------
Holds(p, name, base) ==
    \A x \in base..(base + Images[name].size - 1) :
        x \in DOMAIN space[p] /\ space[p][x] = name

\* A program runs with its whole image mapped, and its import table points
\* into modules that are mapped in its own address space, whatever other
\* programs loaded before it, in whatever order, and wherever memory ended.
RunsWhole ==
    \A p \in Procs : pc[p] = "runs" =>
        /\ Holds(p, start[p].image, LoadBase(start[p].image, start[p].way))
        /\ \A l \in linked[p] : Holds(p, l[1], l[2])

\* kernel32.cpp:158: LoadLibraryA maps the DLL into this process.
LibraryMapped ==
    \A p \in Procs : \A g \in given[p] : Holds(p, g[1], g[2])

\* kernel32.cpp:114: GetModuleHandle(NULL) is the program's own base.
OwnBase ==
    \A p \in Procs : pc[p] = "runs" =>
        peb[p] = LoadBase(start[p].image, start[p].way)

\* A program starts with all pages of its stack.
StackThere ==
    \A p \in Procs : pc[p] = "runs" /\ heap[p] = HeapBase =>
        \A x \in 0..(CSTK - 1) :
            LoadBase(start[p].image, start[p].way) + StackOff + x \in DOMAIN space[p]
=============================================================================
