---------------------------- MODULE Bootloader -----------------------------
(* From the firmware to the running kernel: EfiMain, which takes pages from *)
(* the firmware for the kernel, the tables, BootInfo, the boot files and    *)
(* the memory map, hands the map over and leaves boot services; and the     *)
(* first half of kernel_main, which replaces the descriptor tables, opens   *)
(* the interrupt lines and initialises the managers.  A page stands for a   *)
(* block of pages of one use: the kernel's two, the six of the tables, ...  *)
(* The firmware may take or give back pages of its own until it is left,    *)
(* and interrupts may come whenever the flag and the PIC let them.          *)
EXTENDS Naturals, Sequences, FiniteSets

CONSTANTS
    Top,         \* pages are 0..Top
    Fixed,       \* pages that are never available: low memory, MMIO, ACPI
    Linked,      \* the pages the kernel is linked at
    Firmware,    \* pages the firmware may take or give back at any time
    Pool,        \* pages AllocatePool and AllocateAnyPages may return
    Dir,         \* what the entries of /boot are: "dir", "other", "exe"
    FILES_MAX,   \* BOOT_FILES_MAX
    Slack,       \* descriptors added to the size of the map
    Attempts,    \* tries of ExitBootServices
    Mapped,      \* pages below 4 GB, which the tables map
    FlagAtEntry  \* whether interrupts may be on when the kernel starts

VARIABLES
    pc,
    page,        \* what the firmware has each page down as
    base,        \* where the kernel went: kernel_phys_base and on
    held,        \* pages the kernel will use: itself, tables, BootInfo, files
    dir,         \* entries of /boot not yet read
    files,       \* boot_files
    room,        \* descriptors the buffer was sized for, then the last map's
    map,         \* memory_map, as a function of pages
    current,     \* the key is that of the firmware's present map
    tries,
    k,           \* the next step of kernel_main
    flag,        \* RFLAGS.IF
    open,        \* lines the PIC lets through
    handler,     \* s_handlers
    served       \* what happened to the last interrupt

vars == <<pc, page, base, held, dir, files, room, map, current, tries,
          k, flag, open, handler, served>>
loader == <<pc, page, base, held, dir, files, room, map, current, tries>>
kernel == <<k, flag, open, handler, served>>

Page == 0..Top
Line == {0, 1, 12}
Driver == [l \in Line |-> IF l = 0 THEN "timer" ELSE IF l = 1 THEN "keyboard"
                                                    ELSE "mouse"]

----------------------------------------------------------------------------
\* GetMemoryMap gives one descriptor for each run of pages of one type.
Descriptors == Cardinality({p \in Page : p = 0 \/ page[p] # page[p - 1]})

BootMemoryType(t) ==
    CASE t \in {"free", "bs"} -> "available"
      [] t = "loader"         -> "loader"
      [] OTHER                -> "reserved"

FillMemoryMap == map' = [p \in Page |-> BootMemoryType(page[p])]

\* AllocatePool and AllocatePages: any page, and the key is stale.
Allocate(p) == /\ p \in Pool /\ page[p] = "free"
               /\ page' = [page EXCEPT ![p] = "loader"]
               /\ current' = FALSE

Init == /\ pc = "LoadFile"
        /\ page = [p \in Page |-> IF p \in Fixed THEN "fixed" ELSE "free"]
        /\ base = {} /\ held = {} /\ dir = Dir /\ files = <<>>
        /\ room = 0 /\ map = [p \in Page |-> "reserved"]
        /\ current = FALSE /\ tries = 0
        /\ k = 1 /\ flag \in FlagAtEntry
        /\ open = {0} /\ handler = [l \in Line |-> "firmware"]
        /\ served = "well"

Free == {p \in Page : page[p] = "free"}

\* The firmware works on its own, from a timer event.
FirmwareEvent(p) ==
    /\ pc \notin {"kernel", "panic"} /\ p \in Firmware
    /\ page[p] \in {"free", "fixed"} /\ p \notin Fixed
    /\ page' = [page EXCEPT ![p] = IF @ = "free" THEN "fixed" ELSE "free"]
    /\ current' = FALSE
    /\ UNCHANGED <<pc, base, held, dir, files, room, map, tries, kernel>>

\* The file of the kernel comes first, to a buffer of its own.
LoadFile ==
    /\ pc = "LoadFile"
    /\ \E p \in Page :
          /\ Allocate(p)
          /\ held' = {p}
    /\ pc' = "LoadElf"
    /\ UNCHANGED <<base, dir, files, room, map, tries, kernel>>

\* The segments go where they are linked, or, when that is taken, to any run
\* of pages as long; the buffer is given back.
LoadElf ==
    /\ pc = "LoadElf"
    /\ \E to \in IF Linked \subseteq Free THEN {Linked}
                 ELSE {a..(a + Cardinality(Linked) - 1) : a \in Page} :
          /\ to \subseteq Free
          /\ base' = to
          /\ page' = [p \in Page |-> IF p \in to THEN "loader"
                                     ELSE IF p \in held THEN "free" ELSE page[p]]
          /\ held' = to
    /\ current' = FALSE /\ pc' = "LoadInitrd"
    /\ UNCHANGED <<dir, files, room, map, tries, kernel>>

\* The initrd may be there; it is loaded, and not handed over.
LoadInitrd ==
    /\ pc = "LoadInitrd" /\ pc' = "BuildPageTables"
    /\ \/ \E p \in Page : Allocate(p)
       \/ UNCHANGED <<page, current>>
    /\ UNCHANGED <<base, held, dir, files, room, map, tries, kernel>>

BuildPageTables ==
    /\ pc = "BuildPageTables" /\ pc' = "BootInfo"
    /\ \E p \in Page : Allocate(p) /\ held' = held \cup {p}
    /\ UNCHANGED <<base, dir, files, room, map, tries, kernel>>

AllocBootInfo ==
    /\ pc = "BootInfo" /\ pc' = "BootFiles"
    /\ \E p \in Page : Allocate(p) /\ held' = held \cup {p}
    /\ UNCHANGED <<base, dir, files, room, map, tries, kernel>>

\* One entry of /boot.  A directory, a file of another kind and one that
\* cannot be opened are passed over; of one that cannot be read the buffer
\* stays; at BOOT_FILES_MAX the rest is left.
LoadBootFile ==
    /\ pc = "BootFiles" /\ dir # <<>>
    /\ \/ /\ Head(dir) = "exe" /\ Len(files) < FILES_MAX
          /\ \E p \in Page :
                /\ Allocate(p)
                /\ \/ files' = Append(files, p) /\ held' = held \cup {p}
                   \/ UNCHANGED <<files, held>>
          /\ dir' = Tail(dir)
       \/ /\ Head(dir) = "exe" => Len(files) < FILES_MAX
          /\ dir' = Tail(dir)
          /\ UNCHANGED <<page, current, files, held>>
       \/ /\ Head(dir) = "exe" /\ Len(files) >= FILES_MAX
          /\ dir' = <<>>
          /\ UNCHANGED <<page, current, files, held>>
    /\ UNCHANGED <<pc, base, room, map, tries, kernel>>

\* The size of the map is asked for, with four descriptors to spare, and the
\* buffer taken, which may split a run.
SizeMap ==
    /\ pc = "BootFiles" /\ dir = <<>> /\ pc' = "GetMap"
    /\ room' = Descriptors + Slack
    /\ \E p \in Page : Allocate(p)
    /\ UNCHANGED <<base, held, dir, files, map, tries, kernel>>

\* The map is read; its own size is what the variable then holds.
GetMemoryMap ==
    /\ pc = "GetMap"
    /\ IF Descriptors > room
       THEN pc' = "panic" /\ UNCHANGED <<room, map, current>>
       ELSE /\ pc' = "Exit" /\ room' = Descriptors /\ current' = TRUE
            /\ FillMemoryMap
    /\ UNCHANGED <<page, base, held, dir, files, tries, kernel>>

\* Mutant: only the key is refreshed.
RefreshKey ==
    /\ current' = TRUE
    /\ UNCHANGED map

\* The key is refreshed, its status not looked at: a map that no longer fits
\* the size of the first leaves the buffer as it was.
Refresh ==
    /\ current' = TRUE
    /\ IF Descriptors > room THEN UNCHANGED map ELSE FillMemoryMap

ExitBootServices ==
    /\ pc = "Exit" /\ tries' = tries + 1
    /\ pc' = IF current THEN "kernel"
             ELSE IF tries + 1 = Attempts THEN "panic" ELSE "Stale"
    /\ UNCHANGED <<page, base, held, dir, files, room, map, current, kernel>>

Retry ==
    /\ pc = "Stale" /\ pc' = "Exit"
    /\ Refresh
    /\ UNCHANGED <<page, base, held, dir, files, room, tries, kernel>>

----------------------------------------------------------------------------
\* Mutant: the table of handlers is set up after the keyboard is in it.
HalStepsSwapped ==
    <<"Video", "GdtInit", "PicInit", "Keyboard", "IrqInit", "OpenKeyboard",
      "Mouse", "OpenMouse", "IdtInit", "EnableInterrupts", "PitInit",
      "OpenTimer">>

HalSteps ==
    <<"Video", "GdtInit", "PicInit", "IrqInit", "Keyboard", "OpenKeyboard",
      "Mouse", "OpenMouse", "IdtInit", "EnableInterrupts", "PitInit",
      "OpenTimer">>

MemorySteps == <<"PMM", "KernelHeap", "VMM", "KUSER", "OB">>

SystemSteps == <<"PS", "IO", "SYSCALL", "LDR", "Sections", "Protection",
                 "SessionModules">>

KernelSteps == HalSteps \o MemorySteps \o SystemSteps

Done(s) == \E i \in 1..(k - 1) : KernelSteps[i] = s

\* What IrqInit and IrqRegister leave in the table.
Registered(s) ==
    CASE s = "IrqInit"  -> [l \in Line |-> "none"]
      [] s = "Keyboard" -> [handler EXCEPT ![1] = "keyboard"]
      [] s = "Mouse"    -> [handler EXCEPT ![12] = "mouse"]
      [] s = "PitInit"  -> [handler EXCEPT ![0] = "timer"]
      [] OTHER          -> handler

Unmasked(s) ==
    CASE s = "PicInit"      -> {}
      [] s = "OpenKeyboard" -> open \cup {1}
      [] s = "OpenMouse"    -> open \cup {12}
      [] s = "OpenTimer"    -> open \cup {0}
      [] OTHER              -> open

KernelStep ==
    /\ pc = "kernel" /\ k <= Len(KernelSteps)
    /\ LET s == KernelSteps[k] IN
       /\ handler' = Registered(s)
       /\ open' = Unmasked(s)
       /\ flag' = (flag \/ s = "EnableInterrupts")
    /\ k' = k + 1
    /\ UNCHANGED <<loader, served>>

\* An interrupt goes by the gates of the firmware while its descriptor table
\* is there, by those of the kernel once they are, and to the handler in the
\* table.
Irq(l) ==
    /\ pc = "kernel" /\ flag /\ l \in open /\ served = "well"
    /\ served' = IF ~Done("IdtInit")
                 THEN IF Done("GdtInit") THEN "fault" ELSE "well"
                 ELSE IF handler[l] = Driver[l] THEN "well" ELSE "lost"
    /\ UNCHANGED <<loader, k, flag, open, handler>>

Next == \/ LoadFile \/ LoadElf \/ LoadInitrd \/ BuildPageTables
        \/ AllocBootInfo \/ LoadBootFile \/ SizeMap \/ GetMemoryMap
        \/ ExitBootServices \/ Retry \/ KernelStep
        \/ \E p \in Page : FirmwareEvent(p)
        \/ \E l \in Line : Irq(l)

Spec == Init /\ [][Next]_vars

----------------------------------------------------------------------------
(* When the kernel has the machine, every page the map calls available is   *)
(* one nobody uses: neither the kernel, the tables, BootInfo and the files, *)
(* nor the firmware.  PMM::Init frees exactly these pages.                  *)
HandOff ==
    pc = "kernel" =>
        \A p \in Page : map[p] = "available"
            => p \notin held /\ page[p] \in {"free", "bs"}

(* Every interrupt the PIC lets through while the kernel sets itself up     *)
(* finds a gate and the handler of its device.                              *)
InterruptsServed == served = "well"

(* kernel_main jumps to kernel_phys_base as if it were the linked address;  *)
(* not so when the firmware has the linked pages in use, see the README.    *)
RunsWhereLinked == pc = "kernel" => base = Linked

(* The kernel reaches a page by its physical address; a page it may be      *)
(* given is mapped there.  Not so with more than 4 GB, see the README.      *)
GivenIsMapped ==
    pc = "kernel" => \A p \in Page : map[p] = "available" => p \in Mapped
=============================================================================
