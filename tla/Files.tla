------------------------------- MODULE Files --------------------------------
(***************************************************************************)
(* Files, directories and pipes: the writable nodes of vfs.cpp with their  *)
(* lock and their copy in a UEFI variable, the pipes of syscall.cpp, and   *)
(* the calls of user threads that work on them.  Boot files are read-only  *)
(* and only stand in the way of names.                                     *)
(*                                                                         *)
(* A system call runs with interrupts on: it can be preempted between the  *)
(* steps below.  Only the functions that take s_wlock exclude each other.  *)
(***************************************************************************)
EXTENDS Integers, Sequences, FiniteSets, FiniteSetsExt, Functions

CONSTANTS
  Thread,     \* user threads
  Name,       \* names, equal up to upper and lower case (str_ieq)
  BootFile,   \* those of read-only boot files
  Kept,       \* Kept[n]: what WNODE_NAME_MAX leaves of n
  Byte,       \* what callers write
  Junk,       \* what is in the buffer of a caller that wants to read
  Nodes,      \* WNODE_MAX
  Pipes,      \* the length of g_pipes
  Room,       \* Room[k]: WNODE_DATA_MAX for a file, 512 for a pipe
  Chunk,      \* the longest write
  Lister,     \* threads that list the directory
  Saver,      \* threads that save to the UEFI variable
  Piper,      \* threads that use pipes
  Killed,     \* threads that may be dropped in the middle of a call
  Exclusive,  \* a node is written by one thread at a time, and not deleted then
  Calls,      \* bound on the calls and restarts
  None        \* no thread, no name, no saved table

FilesAssumption ==
  /\ Nodes \in Nat \ {0} /\ Pipes \in Nat /\ Room \in [{"file", "pipe"} -> Nat] /\ Chunk \in Nat
  /\ BootFile \subseteq Name /\ Kept \in [Name -> Name]
  /\ None \notin Name \cup Thread /\ Junk \notin Byte

VARIABLES
  table,   \* table.file: s_wnodes, table.pipe: g_pipes
  lock,    \* s_wlock: its holder
  nvram,   \* the UEFI variable
  pc,      \* where each thread is in its call
  arg,     \* the locals of that call
  calls,   \* how many calls and restarts there were
  cursor,  \* cb_args of NT_QUERY_DIR: whose buffer, and what was put there
  synced   \* history: the nodes when the save that is going on began, those changed
           \*   since, and whether all saves the nodes descend from were undisturbed

vars == <<table, lock, nvram, pc, arg, calls, cursor, synced>>

Kind == {"file", "pipe"}

Index(k) == 1 .. (IF k = "file" THEN Nodes ELSE Pipes)

Free == [used |-> FALSE, dir |-> FALSE, name |-> None, data |-> <<>>]

Empty(k) == [i \in Index(k) |-> Free]

NoArg == [k |-> "file", i |-> 0, name |-> None, dir |-> FALSE, at |-> 0, left |-> 0, copy |-> <<>>]

Used(k) == {i \in Index(k) : table[k][i].used}

\* The scan for a name, and the one for a free entry.
Find(k, n) == {i \in Used(k) : table[k][i].name = n}

FirstFree(k) == IF Used(k) = Index(k) THEN 0 ELSE Min(Index(k) \ Used(k))

\* A node changes while it may be being saved.
Touch(i) == synced' = IF synced.nodes = None THEN synced
                      ELSE [synced EXCEPT !.touched = @ \cup {i}]

Goto(t, l) == pc' = [pc EXCEPT ![t] = l]

Return(t) == Goto(t, "user") /\ arg' = [arg EXCEPT ![t] = NoArg]

Count == calls < Calls /\ calls' = calls + 1

Call(t, l, a) == /\ pc[t] = "user"
                 /\ Goto(t, l) /\ arg' = [arg EXCEPT ![t] = a]
                 /\ Count

Init ==
  /\ table = [file |-> Empty("file"), pipe |-> Empty("pipe")]
  /\ lock = None
  /\ nvram = None
  /\ pc = [t \in Thread |-> "user"]
  /\ arg = [t \in Thread |-> NoArg]
  /\ calls = 0
  /\ cursor = [owner |-> None, names |-> <<>>]
  /\ synced = [nodes |-> None, touched |-> {}, clean |-> TRUE]

-----------------------------------------------------------------------------
(* Names: creating and deleting.                                           *)

\* NtCreateFile of a name that no boot file has.
CreateFile(t, n) ==
  /\ n \notin BootFile
  /\ Call(t, "create", [NoArg EXCEPT !.name = n])
  /\ UNCHANGED <<table, lock, nvram, cursor, synced>>

\* MkDir looks for the name without the lock.
MkDir(t, n) ==
  /\ Find("file", n) = {}
  /\ Call(t, "create", [NoArg EXCEPT !.name = n, !.dir = TRUE])
  /\ UNCHANGED <<table, lock, nvram, cursor, synced>>

Delete(t, n) ==
  /\ Call(t, "delete", [NoArg EXCEPT !.name = n])
  /\ UNCHANGED <<table, lock, nvram, cursor, synced>>

\* Mutant: nothing is tested and set.
AcquireTaken(t) ==
  /\ pc[t] \in {"create", "delete", "listNodes"}
  /\ lock' = t
  /\ Goto(t, CASE pc[t] = "create" -> "find" [] pc[t] = "delete" -> "clear"
               [] pc[t] = "listNodes" -> "listing")
  /\ UNCHANGED <<table, nvram, arg, cursor, synced, calls>>

\* The spinlock: who does not get it burns the rest of its quantum.
Acquire(t) ==
  /\ pc[t] \in {"create", "delete", "listNodes"}
  /\ lock = None
  /\ lock' = t
  /\ Goto(t, CASE pc[t] = "create" -> "find" [] pc[t] = "delete" -> "clear"
               [] pc[t] = "listNodes" -> "listing")
  /\ UNCHANGED <<table, nvram, arg, cursor, synced, calls>>

\* WFindOrCreate, up to the copying of the name.
Claim(t) ==
  /\ pc[t] = "find"
  /\ LET i == FirstFree("file") IN
     IF Find("file", arg[t].name) # {} \/ i = 0
       THEN /\ lock' = None /\ Return(t)
            /\ UNCHANGED <<table, synced>>
       ELSE /\ table' = [table EXCEPT !.file[i] = [Free EXCEPT !.used = TRUE, !.dir = arg[t].dir]]
            /\ arg' = [arg EXCEPT ![t].i = i]
            /\ Goto(t, "name") /\ Touch(i)
            /\ UNCHANGED lock
  /\ UNCHANGED <<nvram, cursor, calls>>

SetName(t) ==
  /\ pc[t] = "name"
  /\ table' = [table EXCEPT !.file[arg[t].i].name = Kept[arg[t].name]]
  /\ Touch(arg[t].i)
  /\ lock' = None /\ Return(t)
  /\ UNCHANGED <<nvram, cursor, calls>>

\* Where a write call of another thread goes on.
Written(t) == {arg[u].i : u \in {v \in Thread \ {t} : pc[v] \in {"load", "store"} /\ arg[v].k = "file"}}

\* Delete under the lock: the first node of the name, if there is one.
Clear(t) ==
  /\ pc[t] = "clear"
  /\ LET found == Find("file", arg[t].name) IN
     IF found = {} THEN UNCHANGED <<table, synced>>
     ELSE /\ Exclusive => Min(found) \notin Written(t)
          /\ table' = [table EXCEPT !.file[Min(found)] = Free]
          /\ Touch(Min(found))
  /\ lock' = None /\ Return(t)
  /\ UNCHANGED <<nvram, cursor, calls>>

-----------------------------------------------------------------------------
(* Bytes.  The handle is the index; nobody looks whether it is still his.  *)

\* Mutant: what fits is not computed.
WriteAll(t, k, i, len) ==
  /\ table[k][i].used
  /\ k = "pipe" => t \in Piper
  /\ Exclusive /\ k = "file" => i \notin Written(t)
  /\ Call(t, "load", [NoArg EXCEPT !.k = k, !.i = i, !.left = len])
  /\ UNCHANGED <<table, lock, nvram, cursor, synced>>

\* WWrite computes once how much fits; the pipe's loop looks at every byte.
Write(t, k, i, len) ==
  /\ table[k][i].used
  /\ k = "pipe" => t \in Piper
  /\ Exclusive /\ k = "file" => i \notin Written(t)
  /\ LET fits == IF k = "pipe" THEN len ELSE Min({len, Room[k] - Len(table[k][i].data)}) IN
     /\ fits > 0
     /\ Call(t, "load", [NoArg EXCEPT !.k = k, !.i = i, !.left = fits])
  /\ UNCHANGED <<table, lock, nvram, cursor, synced>>

\* data[size++]: the size is read ...
Load(t) ==
  /\ pc[t] = "load"
  /\ LET size == Len(table[arg[t].k][arg[t].i].data) IN
     IF arg[t].left = 0 \/ (arg[t].k = "pipe" /\ size >= Room.pipe)
       THEN Return(t)
       ELSE /\ arg' = [arg EXCEPT ![t].at = size] /\ Goto(t, "store")
  /\ UNCHANGED <<table, lock, nvram, cursor, synced, calls>>

\* ... and the byte and the new size are stored.
Put(data, at, b) ==
  [j \in 1 .. at + 1 |-> IF j = at + 1 THEN b ELSE IF j \in DOMAIN data THEN data[j] ELSE Junk]

Store(t, b) ==
  /\ pc[t] = "store"
  /\ table' = [table EXCEPT ![arg[t].k][arg[t].i].data = Put(@, arg[t].at, b)]
  /\ arg' = [arg EXCEPT ![t].left = @ - 1]
  /\ Goto(t, "load")
  /\ IF arg[t].k = "file" THEN Touch(arg[t].i) ELSE UNCHANGED synced
  /\ UNCHANGED <<lock, nvram, cursor, calls>>

\* NtReadFile of a pipe: the first of two branches with one condition, and it appends
\* `offset` bytes of the caller's buffer.
ReadPipe(t, i, offset) ==
  /\ pc[t] = "user" /\ t \in Piper
  /\ table.pipe[i].used
  /\ LET data == table.pipe[i].data
         more == Min({offset, Room.pipe - Len(data)}) IN
     table' = [table EXCEPT !.pipe[i].data = data \o [j \in 1 .. more |-> Junk]]
  /\ Count
  /\ UNCHANGED <<lock, nvram, pc, arg, cursor, synced>>

-----------------------------------------------------------------------------
(* Pipes: they are found by name, and created in a second loop.            *)

CreateNamedPipe(t, n) ==
  /\ t \in Piper
  /\ Find("pipe", n) = {}
  /\ FirstFree("pipe") # 0
  /\ Call(t, "pipe", [NoArg EXCEPT !.k = "pipe", !.name = n, !.i = FirstFree("pipe")])
  /\ UNCHANGED <<table, lock, nvram, cursor, synced>>

TakePipe(t) ==
  /\ pc[t] = "pipe"
  /\ table' = [table EXCEPT !.pipe[arg[t].i] = [Free EXCEPT !.used = TRUE, !.name = arg[t].name]]
  /\ Return(t)
  /\ UNCHANGED <<lock, nvram, cursor, synced, calls>>

\* The kernel fills a pipe at boot, before user threads use any.
SetupTestPipe(n, b) ==
  /\ Used("pipe") = {} /\ \A t \in Thread : pc[t] = "user"
  /\ FirstFree("pipe") # 0
  /\ table' = [table EXCEPT !.pipe[FirstFree("pipe")] =
                 [Free EXCEPT !.used = TRUE, !.name = n, !.data = <<b>>]]
  /\ Count
  /\ UNCHANGED <<lock, nvram, pc, arg, cursor, synced>>

-----------------------------------------------------------------------------
(* NtQueryDirectory: the buffer it fills is in a static variable.          *)

QueryDir(t) ==
  /\ t \in Lister
  /\ Call(t, "listNodes", NoArg)
  /\ cursor' = [owner |-> t, names |-> <<>>]
  /\ UNCHANGED <<table, lock, nvram, synced>>

ListNode(t) ==
  /\ pc[t] = "listing"
  /\ LET i == arg[t].i + 1 IN
     IF i > Nodes
       THEN /\ lock' = None /\ Return(t)
            /\ cursor' = [owner |-> None, names |-> <<>>]
       ELSE /\ arg' = [arg EXCEPT ![t].i = i]
            /\ IF table.file[i].used
                 THEN cursor' = [cursor EXCEPT !.names = Append(@, table.file[i].name)]
                 ELSE UNCHANGED cursor
            /\ UNCHANGED <<lock, pc>>
  /\ UNCHANGED <<table, nvram, synced, calls>>

-----------------------------------------------------------------------------
(* Persistence.                                                            *)

\* SaveNVRAM, of the commands save and exit: node after node, without the lock.
SaveNVRAM(t) ==
  /\ t \in Saver
  /\ Call(t, "save", NoArg)
  /\ synced' = [synced EXCEPT !.nodes = table.file]
  /\ UNCHANGED <<table, lock, nvram, cursor>>

\* Mutant: the data array is not copied.
SaveNameOnly(t) ==
  /\ pc[t] = "save" /\ Len(arg[t].copy) < Nodes
  /\ arg' = [arg EXCEPT ![t].copy = Append(@, [table.file[Len(@) + 1] EXCEPT !.data = <<>>])]
  /\ UNCHANGED <<table, lock, nvram, pc, cursor, synced, calls>>

SaveNode(t) ==
  /\ pc[t] = "save" /\ Len(arg[t].copy) < Nodes
  /\ arg' = [arg EXCEPT ![t].copy = Append(@, table.file[Len(@) + 1])]
  /\ UNCHANGED <<table, lock, nvram, pc, cursor, synced, calls>>

\* The firmware stores the variable whole, or reports an error.  The boot loader leaves
\* efi_runtime_va at 0 today: then SaveNVRAM returns at once, as if every SetVariable failed.
SetVariable(t) ==
  /\ pc[t] = "save" /\ Len(arg[t].copy) = Nodes
  /\ \/ nvram' = [image |-> arg[t].copy,
                   exact |-> \A i \in Index("file") \ synced.touched : arg[t].copy[i] = synced.nodes[i],
                   clean |-> synced.clean /\ synced.touched = {}]
     \/ UNCHANGED nvram
  /\ synced' = [synced EXCEPT !.nodes = None, !.touched = {}]
  /\ Return(t)
  /\ UNCHANGED <<table, lock, cursor, calls>>

\* Power off and on at any time; LoadNVRAM.
Reboot ==
  /\ Count
  /\ table' = [file |-> IF nvram = None THEN Empty("file") ELSE nvram.image,
               pipe |-> Empty("pipe")]
  /\ lock' = None
  /\ pc' = [t \in Thread |-> "user"]
  /\ arg' = [t \in Thread |-> NoArg]
  /\ cursor' = [owner |-> None, names |-> <<>>]
  /\ synced' = [nodes |-> None, touched |-> {}, clean |-> nvram # None => nvram.clean]
  /\ UNCHANGED nvram

\* KillProcess has marked the thread, and a tick drops it.
Drop(t) ==
  /\ t \in Killed /\ pc[t] \notin {"user", "dropped"}
  /\ Goto(t, "dropped")
  /\ UNCHANGED <<table, lock, nvram, arg, cursor, synced, calls>>

-----------------------------------------------------------------------------
Step(t) ==
  \/ Acquire(t) \/ Claim(t) \/ SetName(t) \/ Clear(t)
  \/ Load(t) \/ \E b \in Byte : Store(t, b)
  \/ TakePipe(t) \/ ListNode(t) \/ SaveNode(t) \/ SetVariable(t)

Request(t) ==
  \/ \E n \in Name : \/ CreateFile(t, n) \/ MkDir(t, n) \/ Delete(t, n)
                     \/ CreateNamedPipe(t, n)
  \/ \E k \in Kind : \E i \in Index(k), len \in 1 .. Chunk : Write(t, k, i, len)
  \/ \E i \in Index("pipe"), offset \in 0 .. Chunk : ReadPipe(t, i, offset)
  \/ QueryDir(t) \/ SaveNVRAM(t)

Next ==
  \/ \E t \in Thread : Step(t) \/ Request(t) \/ Drop(t)
  \/ \E n \in Name, b \in Byte : SetupTestPipe(n, b)
  \/ Reboot

Spec == Init /\ [][Next]_vars

-----------------------------------------------------------------------------
(* Properties.                                                             *)

TypeOK ==
  /\ DOMAIN table = Kind
  /\ \A k \in Kind : \A i \in Index(k) :
       /\ table[k][i].used \in BOOLEAN /\ table[k][i].dir \in BOOLEAN
       /\ table[k][i].name \in Name \cup {None}
       /\ table[k][i].data \in Seq(Byte \cup {Junk})
  /\ lock \in Thread \cup {None}
  /\ \A t \in Thread : arg[t].left \in 0 .. Chunk

\* No two nodes have one name.  A disturbed save can bring back two: the node of a file is
\* copied, the file is deleted and made again in a node that is copied later.
NoTwins ==
  \A i, j \in Used("file") :
    i # j /\ table.file[i].name # None => table.file[i].name # table.file[j].name

\* However NtCreateFile, mkdir and rm of several threads interleave, one name never has two
\* nodes (WFindOrCreate looks again under s_wlock), and a power cycle does not change that
\* unless a save was disturbed: a node copied before its file moved to another one stays.
OneNodePerName == TypeOK /\ (synced.clean => NoTwins)

\* A node that nobody changed while SaveNVRAM copied the table comes back from the variable
\* as it was when the save began, whatever failed or was saved since.
SavedSurvives == nvram # None => nvram.exact

\* A write is whole: no byte of a file is lost or comes from nowhere, and the node's data
\* does not outgrow its array, while its writers take turns.
DataWhole ==
  \A i \in Index("file") :
    /\ Len(table.file[i].data) <= Room.file
    /\ \A j \in DOMAIN table.file[i].data : table.file[i].data[j] \in Byte
    /\ \A t \in Thread : (pc[t] = "store" /\ arg[t].k = "file" /\ arg[t].i = i)
                           => arg[t].at = Len(table.file[i].data)

\* Reading a pipe does not change what it holds ("read from named pipe", syscall.cpp:1123).
PipeReadKeepsData ==
  [][(\E t \in Thread, i \in Index("pipe"), o \in 0 .. Chunk : ReadPipe(t, i, o))
       => UNCHANGED table]_vars

\* One name has one pipe: NtCreateNamedPipe finds the existing one.
OnePipePerName ==
  \A i, j \in Used("pipe") : i # j => table.pipe[i].name # table.pipe[j].name

\* What NtQueryDirectory returns is the caller's own listing.
ListingIsOwn == \A t \in Thread : pc[t] = "listing" => cursor.owner = t

\* Who holds s_wlock is running inside a function that gives it back.
LockHolderRuns ==
  lock # None => pc[lock] \in {"find", "name", "clear", "listing"}

=============================================================================
