----------------------------- MODULE FilesProofs -----------------------------
(***************************************************************************)
(* Theorems about files and pipes for any number of threads, nodes, pipes  *)
(* and names, any calls, interrupted anywhere, and any power cycles.       *)
(***************************************************************************)
EXTENDS Files, WellFoundedInduction, TLAPS

Node == [used : BOOLEAN, dir : BOOLEAN, name : Name \cup {None}, data : Seq(Byte \cup {Junk})]

FileTable == [Index("file") -> Node]

PipeTable == [Index("pipe") -> Node]

Locals == [k : Kind, i : Nat, name : Name \cup {None}, dir : BOOLEAN, at : Nat,
           left : 0 .. Chunk, copy : Seq(Node)]

(***************************************************************************)
(* What the theorems assume of the constants besides FilesAssumption.  One *)
(* thread saves: two saves at a time share the history that says what was  *)
(* disturbed.  ShortNames: a name of 64 characters and more is stored cut, *)
(* and made again whenever it is asked for.                                *)
(***************************************************************************)
Assumptions ==
  /\ FilesAssumption
  /\ Chunk \in Nat
  /\ None \notin FileTable
  /\ \A t, u \in Saver : t = u

ShortNames == \A n \in Name : Kept[n] = n

(***************************************************************************)
(* The inductive invariant.  Names: whoever is in a function that takes    *)
(* s_wlock holds it, so that a name that was not found is still not there  *)
(* when it is stored.  Saves: what has been copied and not been changed    *)
(* since is as it was at the beginning.                                    *)
(***************************************************************************)
TablesOK ==
  /\ table = [k \in Kind |-> table[k]]
  /\ table["file"] \in FileTable
  /\ table["pipe"] \in PipeTable

LocalsOK == arg \in [Thread -> Locals] /\ pc = [t \in Thread |-> pc[t]]

SyncedOK ==
  /\ synced \in [nodes : FileTable \cup {None}, touched : SUBSET Index("file"), clean : BOOLEAN]
  /\ synced.nodes = None => synced.touched = {}

Holds(t) == pc[t] \in {"find", "name", "clear", "listing"} => lock = t

Named(t) ==
  /\ pc[t] \in {"create", "find", "name", "pipe"} => arg[t].name \in Name
  /\ pc[t] = "pipe" => arg[t].i \in Index("pipe")
  /\ pc[t] = "name" => arg[t].i \in Index("file") /\ Find("file", arg[t].name) = {}

Writes(t) ==
  /\ pc[t] \in {"load", "store"} => arg[t].i \in Index(arg[t].k)
  /\ pc[t] = "store" => arg[t].left > 0

Saves(t) ==
  pc[t] = "save" =>
    /\ t \in Saver
    /\ synced.nodes # None
    /\ Len(arg[t].copy) <= Nodes
    /\ \A i \in 1 .. Len(arg[t].copy) : i \notin synced.touched => arg[t].copy[i] = synced.nodes[i]

Unchanged ==
  synced.nodes # None =>
    \A i \in Index("file") \ synced.touched : table["file"][i] = synced.nodes[i]

NoTwinsIn(nodes) ==
  \A i, j \in Index("file") :
    i # j /\ nodes[i].used /\ nodes[j].used /\ nodes[i].name # None => nodes[i].name # nodes[j].name

SavedOK ==
  nvram # None => /\ nvram.image \in FileTable
                  /\ nvram.exact
                  /\ nvram.clean \in BOOLEAN

TwinFree ==
  /\ synced.clean => NoTwinsIn(table["file"])
  /\ synced.clean /\ synced.nodes # None => NoTwinsIn(synced.nodes)
  /\ nvram # None /\ nvram.clean => NoTwinsIn(nvram.image)

Kinds ==
  /\ TablesOK
  /\ LocalsOK
  /\ SyncedOK
  /\ lock \in Thread \cup {None}

IInv ==
  /\ Kinds
  /\ \A t \in Thread : Holds(t) /\ Named(t) /\ Writes(t) /\ Saves(t)
  /\ Unchanged
  /\ SavedOK

-----------------------------------------------------------------------------
(* The operators of the model.                                             *)

LEMMA MinIsMember ==
  ASSUME NEW S \in SUBSET Nat, S # {}
  PROVE  Min(S) \in S /\ \A k \in S : Min(S) <= k
<1>1. PICK m \in S : \A k \in S : <<k, m>> \notin OpToRel(<, Nat)
  BY NatLessThanWellFounded, WFMin, Zenon
<1>2. \A k \in S : ~(k < m)
  BY <1>1 DEF OpToRel
<1>3. \A k \in S : m <= k
  BY <1>2
<1>. QED
  BY <1>1, <1>3 DEF Min

LEMMA MinOfTwo ==
  ASSUME NEW a \in Int, NEW b \in Int
  PROVE  Min({a, b}) \in {a, b} /\ Min({a, b}) <= a /\ Min({a, b}) <= b
<1>1. \E x \in {a, b} : \A y \in {a, b} : x <= y
  OBVIOUS
<1>. QED
  BY <1>1 DEF Min

LEMMA FreeIsNode ==
  /\ Free \in Node /\ ~Free.used /\ Free.data = <<>>
  /\ \A k \in Kind : Empty(k) \in [Index(k) -> Node]
<1>1. Free \in Node /\ ~Free.used /\ Free.data = <<>>
  BY DEF Free, Node
<1>. QED
  BY <1>1 DEF Empty

LEMMA NoArgIsLocals ==
  ASSUME Assumptions
  PROVE  NoArg \in Locals /\ NoArg.i = 0 /\ NoArg.copy = <<>>
BY DEF NoArg, Locals, Assumptions, Kind

LEMMA IndexIsNat ==
  ASSUME Assumptions
  PROVE  \A k \in Kind : Index(k) \subseteq Nat \ {0}
BY DEF Index, Kind, Assumptions, FilesAssumption

LEMMA FirstFreeIsFree ==
  ASSUME Assumptions, NEW k \in Kind, FirstFree(k) # 0
  PROVE  FirstFree(k) \in Index(k) /\ ~table[k][FirstFree(k)].used
<1>1. Used(k) \subseteq Index(k)
  BY DEF Used
<1>2. Index(k) \ Used(k) # {} /\ Index(k) \ Used(k) \in SUBSET Nat
  BY <1>1, IndexIsNat DEF FirstFree
<1>3. FirstFree(k) \in Index(k) \ Used(k)
  BY <1>2, MinIsMember DEF FirstFree
<1>. QED
  BY <1>3 DEF Used

LEMMA InitIInv ==
  ASSUME Assumptions, Init
  PROVE  IInv /\ (synced.clean /\ TwinFree)
<1>1. TablesOK
  <2>1. table = [file |-> Empty("file"), pipe |-> Empty("pipe")]
    BY DEF Init
  <2>. QED
    BY <2>1, FreeIsNode DEF TablesOK, Kind, FileTable, PipeTable
<1>2. table["file"] = Empty("file")
  BY DEF Init
<1>3. LocalsOK /\ \A t \in Thread : pc[t] = "user"
  BY NoArgIsLocals DEF Init, LocalsOK
<1>4. SyncedOK /\ lock = None /\ nvram = None /\ synced.nodes = None /\ synced.clean
  BY DEF Init, SyncedOK
<1>5. NoTwinsIn(table["file"])
  BY <1>2 DEF NoTwinsIn, Empty, Free
<1>. QED
  BY <1>1, <1>3, <1>4, <1>5 DEF IInv, Kinds, Holds, Named, Writes, Saves, Unchanged, SavedOK, TwinFree

-----------------------------------------------------------------------------
(* What a step of t leaves to the others.                                  *)

LEMMA OthersKeep ==
  ASSUME Assumptions, IInv, NEW t \in Thread,
         \A u \in Thread : u # t => pc'[u] = pc[u] /\ arg'[u] = arg[u],
         lock' = lock \/ lock = None \/ lock = t,
         \/ lock = t
         \/ \A i \in Index("file") :
              table'["file"][i].used => /\ table["file"][i].used
                                        /\ table'["file"][i].name = table["file"][i].name,
         \/ t \in Saver
         \/ synced'.nodes = synced.nodes /\ synced.touched \subseteq synced'.touched
  PROVE  \A u \in Thread \ {t} : Holds(u)' /\ Named(u)' /\ Writes(u)' /\ Saves(u)'
<1>. SUFFICES ASSUME NEW u \in Thread, u # t
              PROVE  Holds(u)' /\ Named(u)' /\ Writes(u)' /\ Saves(u)'
  OBVIOUS
<1>1. /\ pc'[u] = pc[u] /\ arg'[u] = arg[u] /\ None \notin Thread
      /\ Holds(u) /\ Named(u) /\ Writes(u) /\ Saves(u)
  BY DEF IInv, Assumptions, FilesAssumption
<1>2. Holds(u)'
  BY <1>1 DEF Holds
<1>3. Named(u)'
  <2>1. CASE pc[u] # "name"
    BY <1>1, <2>1 DEF Named
  <2>2. CASE pc[u] = "name"
    <3>1. lock = u /\ Find("file", arg[u].name) = {} /\ arg[u].i \in Index("file")
      BY <1>1, <2>2 DEF Holds, Named
    <3>2. Find("file", arg[u].name)' = {}
      BY <1>1, <3>1 DEF Find, Used
    <3>. QED
      BY <1>1, <2>2, <3>1, <3>2 DEF Named
  <2>. QED
    BY <2>1, <2>2
<1>4. Writes(u)'
  BY <1>1 DEF Writes
<1>5. Saves(u)'
  <2>1. CASE t \in Saver
    BY <1>1, <2>1 DEF Saves, Assumptions
  <2>2. CASE synced'.nodes = synced.nodes /\ synced.touched \subseteq synced'.touched
    BY <1>1, <2>2 DEF Saves
  <2>. QED
    BY <2>1, <2>2
<1>. QED
  BY <1>2, <1>3, <1>4, <1>5

\* A step that only moves t on, to a place l with the locals a.
LEMMA MoveKeeps ==
  ASSUME Assumptions, IInv, NEW t \in Thread, NEW l, NEW a \in Locals,
         pc' = [pc EXCEPT ![t] = l], arg' = [arg EXCEPT ![t] = a],
         UNCHANGED <<table, lock, nvram, synced>>,
         l \in {"find", "name", "clear", "listing"} => lock = t,
         l \in {"create", "find", "pipe"} => a.name \in Name,
         l = "pipe" => a.i \in Index("pipe"),
         l # "name" /\ l # "save",
         l \in {"load", "store"} => a.i \in Index(a.k) /\ (l = "store" => a.left > 0)
  PROVE  IInv'
<1>1. Kinds' /\ pc'[t] = l /\ arg'[t] = a
      /\ \A u \in Thread : u # t => pc'[u] = pc[u] /\ arg'[u] = arg[u]
  BY DEF IInv, Kinds, TablesOK, LocalsOK, SyncedOK
<1>2. Holds(t)' /\ Named(t)' /\ Writes(t)' /\ Saves(t)'
  BY <1>1 DEF Holds, Named, Writes, Saves
<1>3. \A u \in Thread \ {t} : Holds(u)' /\ Named(u)' /\ Writes(u)' /\ Saves(u)'
  BY <1>1, OthersKeep
<1>. QED
  BY <1>1, <1>2, <1>3 DEF IInv, Unchanged, SavedOK

\* An entry of the table of files is written, and noted while a save goes on.
LEMMA EntryNoted ==
  ASSUME Assumptions, IInv, NEW i \in Index("file"), NEW n \in Node,
         table' = [table EXCEPT !["file"][i] = n], Touch(i)
  PROVE  /\ TablesOK' /\ SyncedOK' /\ Unchanged'
         /\ table'["file"] = [table["file"] EXCEPT ![i] = n]
         /\ table'["pipe"] = table["pipe"]
         /\ synced'.nodes = synced.nodes /\ synced.touched \subseteq synced'.touched
         /\ synced'.clean = synced.clean
<1>1. TablesOK /\ SyncedOK /\ Unchanged /\ "file" \in Kind /\ "pipe" \in Kind
  BY DEF IInv, Kinds, Kind
<1>2. /\ TablesOK' /\ table'["file"] = [table["file"] EXCEPT ![i] = n]
      /\ table'["pipe"] = table["pipe"]
      /\ \A j \in Index("file") : j # i => table'["file"][j] = table["file"][j]
  BY <1>1 DEF TablesOK, Kind, FileTable, PipeTable
<1>3. /\ SyncedOK' /\ synced'.nodes = synced.nodes /\ synced.touched \subseteq synced'.touched
      /\ synced'.clean = synced.clean
      /\ synced.nodes # None => i \in synced'.touched
  BY <1>1 DEF SyncedOK, Touch
<1>4. Unchanged'
  BY <1>1, <1>2, <1>3 DEF Unchanged
<1>. QED
  BY <1>2, <1>3, <1>4

-----------------------------------------------------------------------------
(* The calls and the steps of the threads.                                 *)

LEMMA CallStep ==
  ASSUME Assumptions, IInv, NEW t \in Thread, NEW n \in Name,
         CreateFile(t, n) \/ MkDir(t, n) \/ Delete(t, n) \/ CreateNamedPipe(t, n)
  PROVE  IInv'
<1>. USE NoArgIsLocals DEF Call, Goto
<1>1. CASE CreateFile(t, n)
  <2>1. PICK a \in Locals : a = [NoArg EXCEPT !.name = n]
    BY DEF NoArg, Locals
  <2>2. /\ pc' = [pc EXCEPT ![t] = "create"] /\ arg' = [arg EXCEPT ![t] = a] /\ a.name = n
        /\ UNCHANGED <<table, lock, nvram, synced>>
    BY <1>1, <2>1 DEF CreateFile, NoArg
  <2>. QED
    BY <2>2, MoveKeeps
<1>2. CASE MkDir(t, n)
  <2>1. PICK a \in Locals : a = [NoArg EXCEPT !.name = n, !.dir = TRUE]
    BY DEF NoArg, Locals
  <2>2. /\ pc' = [pc EXCEPT ![t] = "create"] /\ arg' = [arg EXCEPT ![t] = a] /\ a.name = n
        /\ UNCHANGED <<table, lock, nvram, synced>>
    BY <1>2, <2>1 DEF MkDir, NoArg
  <2>. QED
    BY <2>2, MoveKeeps
<1>3. CASE Delete(t, n)
  <2>1. PICK a \in Locals : a = [NoArg EXCEPT !.name = n]
    BY DEF NoArg, Locals
  <2>2. /\ pc' = [pc EXCEPT ![t] = "delete"] /\ arg' = [arg EXCEPT ![t] = a] /\ a.name = n
        /\ UNCHANGED <<table, lock, nvram, synced>>
    BY <1>3, <2>1 DEF Delete, NoArg
  <2>. QED
    BY <2>2, MoveKeeps
<1>4. CASE CreateNamedPipe(t, n)
  <2>1. FirstFree("pipe") \in Index("pipe") /\ FirstFree("pipe") \in Nat
    BY <1>4, FirstFreeIsFree, IndexIsNat DEF CreateNamedPipe, Kind
  <2>2. PICK a \in Locals : a = [NoArg EXCEPT !.k = "pipe", !.name = n, !.i = FirstFree("pipe")]
    BY <2>1 DEF NoArg, Locals, Kind
  <2>3. /\ pc' = [pc EXCEPT ![t] = "pipe"] /\ arg' = [arg EXCEPT ![t] = a]
        /\ a.name = n /\ a.i \in Index("pipe")
        /\ UNCHANGED <<table, lock, nvram, synced>>
    BY <1>4, <2>1, <2>2 DEF CreateNamedPipe, NoArg
  <2>. QED
    BY <2>3, MoveKeeps
<1>. QED
  BY <1>1, <1>2, <1>3, <1>4

LEMMA QueryDirStep ==
  ASSUME Assumptions, IInv, NEW t \in Thread, QueryDir(t)
  PROVE  IInv'
<1>1. PICK a \in Locals : a = NoArg
  BY NoArgIsLocals
<1>2. /\ pc' = [pc EXCEPT ![t] = "listNodes"] /\ arg' = [arg EXCEPT ![t] = a]
      /\ UNCHANGED <<table, lock, nvram, synced>>
  BY <1>1 DEF QueryDir, Call, Goto
<1>. QED
  BY <1>2, MoveKeeps

\* A write begins with no more bytes to write than the caller asked for.
LEMMA WriteStep ==
  ASSUME Assumptions, IInv, NEW t \in Thread, NEW k \in Kind, NEW i \in Index(k),
         NEW len \in 1 .. Chunk, Write(t, k, i, len)
  PROVE  /\ IInv'
         /\ pc'[t] = "load" /\ arg'[t].k = k /\ arg'[t].i = i
         /\ k = "file" => Len(table["file"][i].data) + arg'[t].left <= Room.file
<1>1. Len(table["file"][i].data) \in Nat \/ k # "file"
  BY DEF IInv, Kinds, TablesOK, FileTable, Node
<1>2. PICK fits \in Int :
        fits = IF k = "pipe" THEN len ELSE Min({len, Room[k] - Len(table[k][i].data)})
  <2>1. Room[k] \in Int /\ len \in Int
    BY DEF Assumptions, FilesAssumption, Kind
  <2>. QED
    <3>1. CASE k = "pipe"
      BY <2>1, <3>1
    <3>2. CASE k = "file"
      <4>1. PICK r \in Int : r = Room[k] - Len(table[k][i].data)
        BY <1>1, <2>1, <3>2
      <4>2. PICK m \in Int : m = Min({len, r})
        BY <2>1, MinOfTwo
      <4>. QED
        BY <3>2, <4>1, <4>2
    <3>. QED
      BY <3>1, <3>2 DEF Kind
<1>3. fits \in 1 .. Chunk /\ (k = "file" => Len(table["file"][i].data) + fits <= Room.file)
  <2>1. fits > 0
    BY <1>2 DEF Write
  <2>2. CASE k = "pipe"
    BY <1>2, <2>1, <2>2 DEF Assumptions
  <2>3. CASE k = "file"
    <3>1. PICK d \in Nat : d = Len(table[k][i].data)
      BY <1>1, <2>3
    <3>2. PICK r \in Int : r = Room[k] - d
      BY <2>3 DEF Assumptions, FilesAssumption
    <3>3. fits = Min({len, r})
      BY <1>2, <2>3, <3>1, <3>2
    <3>4. fits <= len /\ fits <= r
      BY <3>3, MinOfTwo
    <3>5. len \in 1 .. Chunk /\ Chunk \in Nat
      BY DEF Assumptions, FilesAssumption
    <3>6. d + fits <= Room[k]
      <4>1. PICK s \in Int : s = Room[k]
        BY <2>3 DEF Assumptions, FilesAssumption
      <4>. QED
        BY <3>2, <3>4, <4>1
    <3>. QED
      BY <2>1, <2>3, <3>1, <3>4, <3>5, <3>6
  <2>. QED
    BY <2>2, <2>3 DEF Kind
<1>4. i \in Nat
  BY IndexIsNat
<1>5. PICK a \in Locals : a = [NoArg EXCEPT !.k = k, !.i = i, !.left = fits]
  <2>1. fits \in 0 .. Chunk
    BY <1>3
  <2>. QED
    BY <1>4, <2>1, NoArgIsLocals DEF NoArg, Locals
<1>6. a.k = k /\ a.i = i /\ a.left = fits
  BY <1>5 DEF NoArg
<1>7. /\ pc' = [pc EXCEPT ![t] = "load"] /\ arg' = [arg EXCEPT ![t] = a]
      /\ UNCHANGED <<table, lock, nvram, synced>>
  BY <1>2, <1>5 DEF Write, Call, Goto
<1>8. IInv'
  BY <1>6, <1>7, MoveKeeps
<1>. QED
  BY <1>3, <1>6, <1>7, <1>8 DEF IInv, Kinds, LocalsOK

LEMMA LoadStep ==
  ASSUME Assumptions, IInv, NEW t \in Thread, Load(t)
  PROVE  IInv'
<1>1. /\ pc[t] = "load" /\ arg[t] \in Locals /\ arg[t].i \in Index(arg[t].k)
      /\ arg[t].k \in Kind /\ arg[t].left \in Nat
      /\ UNCHANGED <<table, lock, nvram, synced>>
  BY DEF Load, IInv, Kinds, LocalsOK, Writes, Locals, Assumptions
<1>2. CASE Return(t)
  <2>1. PICK a \in Locals : a = NoArg
    BY NoArgIsLocals
  <2>2. pc' = [pc EXCEPT ![t] = "user"] /\ arg' = [arg EXCEPT ![t] = a]
    BY <1>2, <2>1 DEF Return, Goto
  <2>. QED
    BY <1>1, <2>2, MoveKeeps
<1>3. CASE ~Return(t)
  <2>1. PICK size : size = Len(table[arg[t].k][arg[t].i].data)
    OBVIOUS
  <2>2. size \in Nat
    BY <1>1, <2>1 DEF IInv, Kinds, TablesOK, FileTable, PipeTable, Node, Kind
  <2>3. PICK a \in Locals : a = [arg[t] EXCEPT !.at = size]
    BY <1>1, <2>2 DEF Locals
  <2>4. /\ arg[t].left # 0 /\ pc' = [pc EXCEPT ![t] = "store"]
        /\ arg' = [arg EXCEPT ![t] = a]
    BY <1>1, <1>3, <2>1, <2>3 DEF Load, Goto
  <2>5. a.i \in Index(a.k) /\ a.left > 0
    <3>1. a.i = arg[t].i /\ a.k = arg[t].k /\ a.left = arg[t].left
      BY <1>1, <2>3 DEF Locals
    <3>. QED
      BY <1>1, <2>4, <3>1
  <2>. QED
    BY <1>1, <2>4, <2>5, MoveKeeps
<1>. QED
  BY <1>2, <1>3

LEMMA AcquireStep ==
  ASSUME Assumptions, IInv, NEW t \in Thread, Acquire(t)
  PROVE  IInv'
<1>1. PICK l : pc' = [pc EXCEPT ![t] = l]
               /\ ((l = "find" /\ pc[t] = "create") \/ l \in {"clear", "listing"})
  BY DEF Acquire, Goto
<1>2. /\ lock = None /\ lock' = t /\ UNCHANGED <<table, nvram, arg, synced>>
  BY DEF Acquire
<1>3. Kinds' /\ pc'[t] = l
      /\ \A u \in Thread : u # t => pc'[u] = pc[u] /\ arg'[u] = arg[u]
  BY <1>1, <1>2 DEF IInv, Kinds, TablesOK, LocalsOK, SyncedOK
<1>4. Holds(t)' /\ Named(t)' /\ Writes(t)' /\ Saves(t)'
  BY <1>1, <1>2, <1>3 DEF IInv, Holds, Named, Writes, Saves
<1>5. \A u \in Thread \ {t} : Holds(u)' /\ Named(u)' /\ Writes(u)' /\ Saves(u)'
  BY <1>2, <1>3, OthersKeep
<1>. QED
  BY <1>2, <1>3, <1>4, <1>5 DEF IInv, Unchanged, SavedOK

\* A step of t that gives the lock back if it has it, and returns.
LEMMA ReturnKeeps ==
  ASSUME Assumptions, IInv, NEW t \in Thread, Return(t),
         lock' = lock \/ (lock = t /\ lock' = None),
         TablesOK', SyncedOK', Unchanged', SavedOK',
         \/ lock = t
         \/ \A i \in Index("file") :
              table'["file"][i].used => /\ table["file"][i].used
                                        /\ table'["file"][i].name = table["file"][i].name,
         \/ t \in Saver
         \/ synced'.nodes = synced.nodes /\ synced.touched \subseteq synced'.touched
  PROVE  IInv'
<1>1. /\ LocalsOK' /\ pc'[t] = "user"
      /\ \A u \in Thread : u # t => pc'[u] = pc[u] /\ arg'[u] = arg[u]
  <2>1. PICK a \in Locals : a = NoArg
    BY NoArgIsLocals
  <2>. QED
    BY <2>1 DEF IInv, Kinds, LocalsOK, Return, Goto
<1>2. Kinds'
  BY <1>1 DEF IInv, Kinds
<1>3. Holds(t)' /\ Named(t)' /\ Writes(t)' /\ Saves(t)'
  BY <1>1 DEF Holds, Named, Writes, Saves
<1>4. \A u \in Thread \ {t} : Holds(u)' /\ Named(u)' /\ Writes(u)' /\ Saves(u)'
  BY <1>1, OthersKeep
<1>. QED
  BY <1>2, <1>3, <1>4 DEF IInv

\* The name is looked for again under the lock; the free entry has no name yet.
LEMMA ClaimStep ==
  ASSUME Assumptions, IInv, NEW t \in Thread, Claim(t)
  PROVE  IInv' /\ (TwinFree => TwinFree')
<1>1. /\ pc[t] = "find" /\ lock = t /\ arg[t].name \in Name /\ arg[t] \in Locals
      /\ UNCHANGED nvram
  BY DEF Claim, IInv, Holds, Named, Kinds, LocalsOK
<1>2. CASE Find("file", arg[t].name) # {} \/ FirstFree("file") = 0
  <2>1. lock' = None /\ Return(t) /\ UNCHANGED <<table, synced>>
    BY <1>2 DEF Claim
  <2>2. TablesOK' /\ SyncedOK' /\ Unchanged' /\ SavedOK'
    BY <1>1, <2>1 DEF IInv, Kinds, TablesOK, SyncedOK, Unchanged, SavedOK
  <2>3. IInv'
    BY <1>1, <2>1, <2>2, ReturnKeeps
  <2>. QED
    BY <1>1, <2>1, <2>3 DEF TwinFree, NoTwinsIn
<1>3. CASE ~(Find("file", arg[t].name) # {} \/ FirstFree("file") = 0)
  <2>1. PICK i \in Index("file") : i = FirstFree("file") /\ ~table["file"][i].used
    BY <1>3, FirstFreeIsFree DEF Kind
  <2>2. PICK n \in Node : /\ n = [Free EXCEPT !.used = TRUE, !.dir = arg[t].dir]
                          /\ n.name = None /\ n.used
    <3>1. arg[t].dir \in BOOLEAN
      BY <1>1 DEF Locals
    <3>2. PICK n : n = [Free EXCEPT !.used = TRUE, !.dir = arg[t].dir]
      OBVIOUS
    <3>3. n \in Node /\ n.name = None /\ n.used
      <4>1. Free \in Node /\ Free.name = None
        BY FreeIsNode DEF Free
      <4>. QED
        BY <3>1, <3>2, <4>1 DEF Node
    <3>. QED
      BY <3>2, <3>3
  <2>3. PICK a \in Locals : a = [arg[t] EXCEPT !.i = i] /\ a.i = i /\ a.name = arg[t].name
    <3>1. PICK a : a = [arg[t] EXCEPT !.i = i]
      OBVIOUS
    <3>2. i \in Nat
      BY IndexIsNat DEF Kind
    <3>3. a \in Locals /\ a.i = i /\ a.name = arg[t].name
      BY <1>1, <3>1, <3>2 DEF Locals
    <3>. QED
      BY <3>1, <3>3
  <2>4. /\ table' = [table EXCEPT !["file"][i] = n]
        /\ arg' = [arg EXCEPT ![t] = a] /\ pc' = [pc EXCEPT ![t] = "name"]
        /\ Touch(i) /\ UNCHANGED lock
    BY <1>3, <2>1, <2>2, <2>3 DEF Claim, Goto
  <2>5. /\ TablesOK' /\ SyncedOK' /\ Unchanged'
        /\ table'["file"] = [table["file"] EXCEPT ![i] = n]
        /\ synced'.nodes = synced.nodes /\ synced.touched \subseteq synced'.touched
        /\ synced'.clean = synced.clean
    BY <2>4, EntryNoted
  <2>6. /\ table'["file"][i] = n
        /\ \A j \in Index("file") : j # i => table'["file"][j] = table["file"][j]
    BY <2>5 DEF IInv, Kinds, TablesOK, FileTable
  <2>7. /\ Kinds' /\ pc'[t] = "name" /\ arg'[t] = a
        /\ \A u \in Thread : u # t => pc'[u] = pc[u] /\ arg'[u] = arg[u]
    BY <2>4, <2>5 DEF IInv, Kinds, LocalsOK
  <2>8. Find("file", a.name)' = {}
    <3>1. Find("file", a.name) = {} /\ a.name # None
      BY <1>1, <1>3, <2>3 DEF Assumptions, FilesAssumption
    <3>2. \A j \in Index("file") : table["file"][j].used => table["file"][j].name # a.name
      BY <3>1 DEF Find, Used
    <3>3. \A j \in Index("file") : table'["file"][j].used => table'["file"][j].name # a.name
      BY <2>2, <2>6, <3>1, <3>2, Zenon
    <3>. QED
      BY <3>3 DEF Find, Used
  <2>9. Holds(t)' /\ Named(t)' /\ Writes(t)' /\ Saves(t)'
    BY <1>1, <2>3, <2>4, <2>7, <2>8 DEF Holds, Named, Writes, Saves
  <2>10. \A u \in Thread \ {t} : Holds(u)' /\ Named(u)' /\ Writes(u)' /\ Saves(u)'
    BY <1>1, <2>4, <2>5, <2>7, OthersKeep
  <2>11. IInv'
    BY <1>1, <2>5, <2>7, <2>9, <2>10 DEF IInv, SavedOK
  <2>12. ASSUME NoTwinsIn(table["file"])
         PROVE  NoTwinsIn(table'["file"])
    <3>1. SUFFICES ASSUME NEW j \in Index("file"), NEW k \in Index("file"), j # k,
                          table'["file"][j].used, table'["file"][k].used,
                          table'["file"][j].name # None
                   PROVE  table'["file"][j].name # table'["file"][k].name
      BY DEF NoTwinsIn
    <3>2. table'["file"][i].name = None
      BY <2>2, <2>6
    <3>3. CASE j = i
      BY <3>1, <3>2, <3>3
    <3>4. CASE k = i
      BY <3>1, <3>2, <3>4
    <3>5. CASE j # i /\ k # i
      <4>1. table'["file"][j] = table["file"][j] /\ table'["file"][k] = table["file"][k]
        BY <2>6, <3>5
      <4>. QED
        BY <2>12, <3>1, <4>1, Zenon DEF NoTwinsIn
    <3>. QED
      BY <3>3, <3>4, <3>5
  <2>. QED
    BY <1>1, <2>5, <2>11, <2>12 DEF TwinFree
<1>. QED
  BY <1>2, <1>3

\* No node had the name when it was looked for, and under the lock none got it.
LEMMA SetNameStep ==
  ASSUME Assumptions, IInv, NEW t \in Thread, SetName(t)
  PROVE  IInv' /\ (ShortNames /\ TwinFree => TwinFree')
<1>1. /\ pc[t] = "name" /\ lock = t /\ arg[t].name \in Name /\ UNCHANGED nvram
      /\ Find("file", arg[t].name) = {} /\ lock' = None /\ Return(t)
  BY DEF SetName, IInv, Holds, Named
<1>2. PICK i \in Index("file") : i = arg[t].i
  BY <1>1 DEF IInv, Named
<1>3. PICK n \in Node : /\ n = [table["file"][i] EXCEPT !.name = Kept[arg[t].name]]
                        /\ n.name = Kept[arg[t].name]
  <2>1. table["file"][i] \in Node /\ Kept[arg[t].name] \in Name
    BY <1>1 DEF IInv, Kinds, TablesOK, FileTable, Assumptions, FilesAssumption
  <2>2. PICK n : n = [table["file"][i] EXCEPT !.name = Kept[arg[t].name]]
    OBVIOUS
  <2>3. n \in Node /\ n.name = Kept[arg[t].name]
    BY <2>1, <2>2 DEF Node
  <2>. QED
    BY <2>2, <2>3
<1>4. table' = [table EXCEPT !["file"][i] = n] /\ Touch(i)
  BY <1>2, <1>3 DEF SetName
<1>5. /\ TablesOK' /\ SyncedOK' /\ Unchanged'
      /\ table'["file"] = [table["file"] EXCEPT ![i] = n]
      /\ synced'.nodes = synced.nodes /\ synced.touched \subseteq synced'.touched
      /\ synced'.clean = synced.clean
  BY <1>4, EntryNoted
<1>6. /\ table'["file"][i] = n
      /\ \A j \in Index("file") : j # i => table'["file"][j] = table["file"][j]
  BY <1>5 DEF IInv, Kinds, TablesOK, FileTable
<1>7. IInv'
  <2>1. SavedOK'
    BY <1>1 DEF IInv, SavedOK
  <2>. QED
    BY <1>1, <1>5, <2>1, ReturnKeeps
<1>8. ShortNames /\ NoTwinsIn(table["file"]) => NoTwinsIn(table'["file"])
  <2>1. ASSUME ShortNames
        PROVE  \A j \in Index("file") : j # i /\ table["file"][j].used => table["file"][j].name # n.name
    BY <1>1, <1>3, <2>1 DEF ShortNames, Find, Used
  <2>. QED
    BY <1>6, <2>1 DEF NoTwinsIn
<1>. QED
  BY <1>1, <1>5, <1>7, <1>8 DEF TwinFree

LEMMA ClearStep ==
  ASSUME Assumptions, IInv, NEW t \in Thread, Clear(t)
  PROVE  IInv' /\ (TwinFree => TwinFree')
<1>1. pc[t] = "clear" /\ lock = t /\ UNCHANGED nvram /\ lock' = None /\ Return(t)
  BY DEF Clear, IInv, Holds
<1>2. SavedOK'
  BY <1>1 DEF IInv, SavedOK
<1>3. CASE Find("file", arg[t].name) = {}
  <2>1. UNCHANGED <<table, synced>>
    BY <1>3 DEF Clear
  <2>2. TablesOK' /\ SyncedOK' /\ Unchanged'
    BY <1>1, <2>1 DEF IInv, Kinds, TablesOK, SyncedOK, Unchanged
  <2>3. IInv'
    BY <1>1, <1>2, <2>1, <2>2, ReturnKeeps
  <2>. QED
    BY <1>1, <2>1, <2>3 DEF TwinFree, NoTwinsIn
<1>4. CASE Find("file", arg[t].name) # {}
  <2>1. Min(Find("file", arg[t].name)) \in Index("file")
    <3>1. Find("file", arg[t].name) \in SUBSET Index("file") /\ Index("file") \subseteq Nat
      BY IndexIsNat DEF Find, Used, Kind
    <3>. QED
      BY <1>4, <3>1, MinIsMember
  <2>2. PICK i \in Index("file") : i = Min(Find("file", arg[t].name))
    BY <2>1
  <2>3. PICK n \in Node : n = Free /\ ~n.used
    BY FreeIsNode
  <2>4. table' = [table EXCEPT !["file"][i] = n] /\ Touch(i)
    BY <1>4, <2>2, <2>3 DEF Clear
  <2>5. /\ TablesOK' /\ SyncedOK' /\ Unchanged'
        /\ table'["file"] = [table["file"] EXCEPT ![i] = n]
        /\ synced'.nodes = synced.nodes /\ synced.touched \subseteq synced'.touched
        /\ synced'.clean = synced.clean
    BY <2>4, EntryNoted
  <2>6. /\ table'["file"][i] = n
        /\ \A j \in Index("file") : j # i => table'["file"][j] = table["file"][j]
    BY <2>5 DEF IInv, Kinds, TablesOK, FileTable
  <2>7. IInv'
    BY <1>1, <1>2, <2>5, ReturnKeeps
  <2>8. NoTwinsIn(table["file"]) => NoTwinsIn(table'["file"])
    BY <2>3, <2>6 DEF NoTwinsIn
  <2>. QED
    BY <1>1, <2>5, <2>7, <2>8 DEF TwinFree
<1>. QED
  BY <1>3, <1>4

LEMMA PutIsData ==
  ASSUME NEW d \in Seq(Byte \cup {Junk}), NEW at \in Nat, NEW b \in Byte
  PROVE  Put(d, at, b) \in Seq(Byte \cup {Junk}) /\ Len(Put(d, at, b)) = at + 1
<1>1. \A j \in 1 .. at + 1 : j \in DOMAIN d => d[j] \in Byte \cup {Junk}
  OBVIOUS
<1>2. Put(d, at, b) \in [1 .. at + 1 -> Byte \cup {Junk}]
  BY <1>1 DEF Put
<1>. QED
  BY <1>2

\* At the end of what is there, no byte of the buffer's is made up.
LEMMA PutAtEnd ==
  ASSUME NEW d \in Seq(Byte), NEW b \in Byte
  PROVE  Put(d, Len(d), b) \in Seq(Byte) /\ Len(Put(d, Len(d), b)) = Len(d) + 1
<1>1. Len(d) \in Nat /\ DOMAIN d = 1 .. Len(d) /\ \A j \in 1 .. Len(d) : d[j] \in Byte
  OBVIOUS
<1>2. Put(d, Len(d), b) \in [1 .. Len(d) + 1 -> Byte]
  BY <1>1 DEF Put
<1>. QED
  BY <1>1, <1>2

\* One byte is stored: the node keeps its name and its state of use.
LEMMA StoreStep ==
  ASSUME Assumptions, IInv, NEW t \in Thread, NEW b \in Byte, Store(t, b)
  PROVE  /\ IInv' /\ (TwinFree => TwinFree')
         /\ pc'[t] = "load" /\ arg'[t].k = arg[t].k /\ arg'[t].i = arg[t].i
         /\ arg'[t].left = arg[t].left - 1
         /\ arg[t].k = "pipe" => table'["file"] = table["file"]
         /\ arg[t].k = "file" =>
              /\ table'["file"][arg[t].i].used = table["file"][arg[t].i].used
              /\ table'["file"][arg[t].i].data = Put(table["file"][arg[t].i].data, arg[t].at, b)
              /\ \A j \in Index("file") : j # arg[t].i => table'["file"][j] = table["file"][j]
<1>1. /\ pc[t] = "store" /\ arg[t] \in Locals /\ arg[t].k \in Kind /\ arg[t].at \in Nat
      /\ arg[t].left \in 1 .. Chunk
      /\ arg[t].i \in Index(arg[t].k) /\ UNCHANGED <<lock, nvram>>
  <2>1. /\ pc[t] = "store" /\ arg[t] \in Locals /\ arg[t].i \in Index(arg[t].k) /\ arg[t].left > 0
        /\ UNCHANGED <<lock, nvram>>
    BY DEF Store, IInv, Kinds, LocalsOK, Writes
  <2>. QED
    BY <2>1 DEF Locals, Assumptions
<1>2. PICK a \in Locals : /\ a = [arg[t] EXCEPT !.left = arg[t].left - 1]
                          /\ a.k = arg[t].k /\ a.i = arg[t].i /\ a.left = arg[t].left - 1
  <2>1. PICK m \in 0 .. Chunk : m = arg[t].left - 1
    BY <1>1 DEF Assumptions
  <2>2. PICK a : a = [arg[t] EXCEPT !.left = m]
    OBVIOUS
  <2>3. a \in Locals /\ a.k = arg[t].k /\ a.i = arg[t].i /\ a.left = m
    BY <1>1, <2>2 DEF Locals
  <2>. QED
    BY <2>1, <2>2, <2>3
<1>3. arg' = [arg EXCEPT ![t] = a] /\ pc' = [pc EXCEPT ![t] = "load"]
  BY <1>2 DEF Store, Goto
<1>4. /\ LocalsOK' /\ pc'[t] = "load" /\ arg'[t] = a
      /\ \A u \in Thread : u # t => pc'[u] = pc[u] /\ arg'[u] = arg[u]
  BY <1>3 DEF IInv, Kinds, LocalsOK
<1>5. Holds(t)' /\ Named(t)' /\ Writes(t)' /\ Saves(t)'
  BY <1>1, <1>2, <1>4 DEF Holds, Named, Writes, Saves
<1>6. CASE arg[t].k = "pipe"
  <2>1. PICK i \in Index("pipe") : i = arg[t].i
    BY <1>1, <1>6
  <2>2. PICK n \in Node : n = [table["pipe"][i] EXCEPT !.data = Put(table["pipe"][i].data, arg[t].at, b)]
    BY <1>1, PutIsData DEF IInv, Kinds, TablesOK, PipeTable, Node
  <2>3. table' = [table EXCEPT !["pipe"][i] = n] /\ UNCHANGED synced
    BY <1>1, <1>6, <2>1, <2>2 DEF Store
  <2>4. TablesOK' /\ table'["file"] = table["file"]
    BY <2>3 DEF IInv, Kinds, TablesOK, Kind, FileTable, PipeTable
  <2>5. Kinds' /\ Unchanged' /\ SavedOK'
    BY <1>1, <1>4, <2>3, <2>4 DEF IInv, Kinds, SyncedOK, Unchanged, SavedOK
  <2>6. \A u \in Thread \ {t} : Holds(u)' /\ Named(u)' /\ Writes(u)' /\ Saves(u)'
    BY <1>1, <1>4, <2>3, <2>4, OthersKeep
  <2>7. IInv'
    BY <1>5, <2>5, <2>6 DEF IInv
  <2>8. TwinFree => TwinFree'
    BY <1>1, <2>3, <2>4 DEF TwinFree, NoTwinsIn
  <2>. QED
    BY <1>2, <1>4, <1>6, <2>4, <2>7, <2>8
<1>7. CASE arg[t].k = "file"
  <2>1. PICK i \in Index("file") : i = arg[t].i
    BY <1>1, <1>7
  <2>2. PICK n \in Node : /\ n = [table["file"][i] EXCEPT !.data = Put(table["file"][i].data, arg[t].at, b)]
                          /\ n.used = table["file"][i].used /\ n.name = table["file"][i].name
                          /\ n.data = Put(table["file"][i].data, arg[t].at, b)
    <3>1. table["file"][i] \in Node
      BY DEF IInv, Kinds, TablesOK, FileTable
    <3>2. PICK d \in Seq(Byte \cup {Junk}) : d = Put(table["file"][i].data, arg[t].at, b)
      BY <1>1, <3>1, PutIsData DEF Node
    <3>3. PICK n : n = [table["file"][i] EXCEPT !.data = d]
      OBVIOUS
    <3>4. /\ n \in Node /\ n.used = table["file"][i].used /\ n.name = table["file"][i].name
          /\ n.data = d
      BY <3>1, <3>3 DEF Node
    <3>. QED
      BY <3>2, <3>3, <3>4
  <2>3. table' = [table EXCEPT !["file"][i] = n] /\ Touch(i)
    BY <1>1, <1>7, <2>1, <2>2 DEF Store
  <2>4. /\ TablesOK' /\ SyncedOK' /\ Unchanged'
        /\ table'["file"] = [table["file"] EXCEPT ![i] = n]
        /\ synced'.nodes = synced.nodes /\ synced.touched \subseteq synced'.touched
        /\ synced'.clean = synced.clean
    BY <2>3, EntryNoted
  <2>5. /\ table'["file"][i] = n
        /\ \A j \in Index("file") : j # i => table'["file"][j] = table["file"][j]
    BY <2>4 DEF IInv, Kinds, TablesOK, FileTable
  <2>6. \A u \in Thread \ {t} : Holds(u)' /\ Named(u)' /\ Writes(u)' /\ Saves(u)'
    BY <1>1, <1>4, <2>2, <2>4, <2>5, OthersKeep
  <2>7. IInv'
    BY <1>1, <1>4, <1>5, <2>4, <2>6 DEF IInv, Kinds, SavedOK
  <2>8. NoTwinsIn(table["file"]) => NoTwinsIn(table'["file"])
    <3>1. \A j \in Index("file") : /\ table'["file"][j].used = table["file"][j].used
                                   /\ table'["file"][j].name = table["file"][j].name
      BY <2>2, <2>5
    <3>2. SUFFICES ASSUME NoTwinsIn(table["file"]), NEW j \in Index("file"),
                          NEW k \in Index("file"), j # k,
                          table'["file"][j].used, table'["file"][k].used,
                          table'["file"][j].name # None
                   PROVE  table'["file"][j].name # table'["file"][k].name
      BY DEF NoTwinsIn
    <3>3. /\ table["file"][j].used /\ table["file"][k].used /\ table["file"][j].name # None
          /\ table'["file"][j].name = table["file"][j].name
          /\ table'["file"][k].name = table["file"][k].name
      BY <3>1, <3>2, Zenon
    <3>4. table["file"][j].name # table["file"][k].name
      BY <3>2, <3>3, Zenon DEF NoTwinsIn
    <3>. QED
      BY <3>3, <3>4
  <2>9. TwinFree => TwinFree'
    BY <1>1, <2>4, <2>8 DEF TwinFree
  <2>. QED
    BY <1>2, <1>4, <1>7, <2>1, <2>2, <2>5, <2>7, <2>9
<1>. QED
  BY <1>1, <1>6, <1>7 DEF Kind

\* What is written to a pipe leaves the files alone.
LEMMA PipeWritten ==
  ASSUME Assumptions, IInv, NEW i \in Index("pipe"), NEW n \in Node,
         table' = [table EXCEPT !["pipe"][i] = n], UNCHANGED <<lock, nvram, synced>>
  PROVE  /\ TablesOK' /\ table'["file"] = table["file"]
         /\ SyncedOK' /\ Unchanged' /\ SavedOK' /\ (TwinFree => TwinFree')
<1>1. TablesOK' /\ table'["file"] = table["file"]
  BY DEF IInv, Kinds, TablesOK, Kind, FileTable, PipeTable
<1>. QED
  BY <1>1 DEF IInv, Kinds, SyncedOK, Unchanged, SavedOK, TwinFree, NoTwinsIn

LEMMA ReadPipeStep ==
  ASSUME Assumptions, IInv, NEW t \in Thread, NEW i \in Index("pipe"), NEW offset \in 0 .. Chunk,
         ReadPipe(t, i, offset)
  PROVE  IInv' /\ (TwinFree => TwinFree')
<1>1. /\ pc[t] = "user" /\ UNCHANGED <<lock, nvram, pc, arg, synced>>
      /\ table["pipe"][i] \in Node
  BY DEF ReadPipe, IInv, Kinds, TablesOK, PipeTable
<1>2. PICK more \in Int : more = Min({offset, Room.pipe - Len(table["pipe"][i].data)})
  <2>1. PICK r \in Int : r = Room.pipe - Len(table["pipe"][i].data)
    BY <1>1 DEF Node, Assumptions, FilesAssumption
  <2>2. Min({offset, r}) \in Int
    <3>1. offset \in Int
      BY DEF Assumptions
    <3>. QED
      BY <3>1, MinOfTwo
  <2>. QED
    BY <2>1, <2>2
<1>3. [j \in 1 .. more |-> Junk] \in Seq(Byte \cup {Junk})
  <2>1. CASE more >= 0
    BY <2>1
  <2>2. CASE more < 0
    <3>1. 1 .. more = 1 .. 0
      BY <2>2
    <3>. QED
      BY <3>1
  <2>. QED
    BY <2>1, <2>2
<1>4. PICK d \in Seq(Byte \cup {Junk}) : d = table["pipe"][i].data \o [j \in 1 .. more |-> Junk]
  <2>1. PICK e \in Seq(Byte \cup {Junk}) : e = [j \in 1 .. more |-> Junk]
    BY <1>3
  <2>2. PICK c \in Seq(Byte \cup {Junk}) : c = table["pipe"][i].data
    BY <1>1 DEF Node
  <2>3. c \o e \in Seq(Byte \cup {Junk})
    OBVIOUS
  <2>. QED
    BY <2>1, <2>2, <2>3
<1>5. PICK n \in Node : n = [table["pipe"][i] EXCEPT !.data = d]
  BY <1>1 DEF Node
<1>6. table' = [table EXCEPT !["pipe"][i] = n]
  BY <1>2, <1>4, <1>5 DEF ReadPipe
<1>7. /\ TablesOK' /\ table'["file"] = table["file"]
      /\ SyncedOK' /\ Unchanged' /\ SavedOK' /\ (TwinFree => TwinFree')
  BY <1>1, <1>6, PipeWritten
<1>8. \A u \in Thread \ {t} : Holds(u)' /\ Named(u)' /\ Writes(u)' /\ Saves(u)'
  BY <1>1, <1>7, OthersKeep
<1>9. Holds(t)' /\ Named(t)' /\ Writes(t)' /\ Saves(t)'
  BY <1>1 DEF Holds, Named, Writes, Saves
<1>. QED
  BY <1>1, <1>7, <1>8, <1>9 DEF IInv, Kinds, LocalsOK

LEMMA TakePipeStep ==
  ASSUME Assumptions, IInv, NEW t \in Thread, TakePipe(t)
  PROVE  IInv' /\ (TwinFree => TwinFree')
<1>1. /\ pc[t] = "pipe" /\ arg[t].name \in Name /\ Return(t)
      /\ UNCHANGED <<lock, nvram, synced>>
  BY DEF TakePipe, IInv, Named
<1>2. PICK i \in Index("pipe") : i = arg[t].i
  BY <1>1 DEF IInv, Named
<1>3. PICK n \in Node : n = [Free EXCEPT !.used = TRUE, !.name = arg[t].name]
  BY <1>1, FreeIsNode DEF Node
<1>4. table' = [table EXCEPT !["pipe"][i] = n]
  BY <1>2, <1>3 DEF TakePipe
<1>5. /\ TablesOK' /\ table'["file"] = table["file"]
      /\ SyncedOK' /\ Unchanged' /\ SavedOK' /\ (TwinFree => TwinFree')
  BY <1>1, <1>4, PipeWritten
<1>. QED
  BY <1>1, <1>5, ReturnKeeps

LEMMA SetupTestPipeStep ==
  ASSUME Assumptions, IInv, NEW n \in Name, NEW b \in Byte, SetupTestPipe(n, b)
  PROVE  IInv' /\ (TwinFree => TwinFree')
<1>1. FirstFree("pipe") # 0 /\ UNCHANGED <<lock, nvram, pc, arg, synced>>
  BY DEF SetupTestPipe
<1>2. PICK i \in Index("pipe") : i = FirstFree("pipe")
  BY <1>1, FirstFreeIsFree DEF Kind
<1>3. PICK m \in Node : m = [Free EXCEPT !.used = TRUE, !.name = n, !.data = <<b>>]
  <2>1. PICK d \in Seq(Byte \cup {Junk}) : d = <<b>>
    <3>1. <<b>> \in Seq(Byte \cup {Junk})
      OBVIOUS
    <3>. QED
      BY <3>1
  <2>2. PICK m : m = [Free EXCEPT !.used = TRUE, !.name = n, !.data = d]
    OBVIOUS
  <2>3. m \in Node
    BY <2>2, FreeIsNode DEF Node
  <2>. QED
    BY <2>1, <2>2, <2>3
<1>4. table' = [table EXCEPT !["pipe"][i] = m]
  BY <1>2, <1>3 DEF SetupTestPipe
<1>5. /\ TablesOK' /\ table'["file"] = table["file"]
      /\ SyncedOK' /\ Unchanged' /\ SavedOK' /\ (TwinFree => TwinFree')
  BY <1>1, <1>4, PipeWritten
<1>6. \A u \in Thread : Find("file", arg[u].name)' = Find("file", arg[u].name)
  BY <1>1, <1>5 DEF Find, Used
<1>7. \A u \in Thread : Holds(u)' /\ Named(u)' /\ Writes(u)' /\ Saves(u)'
  BY <1>1, <1>6 DEF IInv, Holds, Named, Writes, Saves
<1>. QED
  BY <1>1, <1>5, <1>7 DEF IInv, Kinds, LocalsOK

LEMMA ListNodeStep ==
  ASSUME Assumptions, IInv, NEW t \in Thread, ListNode(t)
  PROVE  IInv'
<1>1. /\ pc[t] = "listing" /\ lock = t /\ arg[t] \in Locals /\ LocalsOK
      /\ UNCHANGED <<table, nvram, synced>>
  BY DEF ListNode, IInv, Holds, Kinds, LocalsOK
<1>2. TablesOK' /\ SyncedOK' /\ Unchanged' /\ SavedOK'
  BY <1>1 DEF IInv, Kinds, TablesOK, SyncedOK, Unchanged, SavedOK
<1>3. CASE lock' = None /\ Return(t)
  BY <1>1, <1>2, <1>3, ReturnKeeps
<1>4. CASE ~(lock' = None /\ Return(t))
  <2>1. PICK a \in Locals : a = [arg[t] EXCEPT !.i = arg[t].i + 1]
    <3>1. PICK k \in Nat : k = arg[t].i + 1
      BY <1>1 DEF Locals
    <3>2. PICK a : a = [arg[t] EXCEPT !.i = k]
      OBVIOUS
    <3>3. a \in Locals
      BY <1>1, <3>2 DEF Locals
    <3>. QED
      BY <3>1, <3>2, <3>3
  <2>2. /\ arg' = [arg EXCEPT ![t] = a] /\ UNCHANGED lock
        /\ pc' = pc
    BY <1>4, <2>1 DEF ListNode
  <2>3. pc' = [pc EXCEPT ![t] = "listing"]
    BY <1>1, <2>2 DEF LocalsOK
  <2>. QED
    BY <1>1, <2>2, <2>3, MoveKeeps
<1>. QED
  BY <1>3, <1>4

\* A thread that is dropped keeps the lock, and is in no function any more.
LEMMA DropStep ==
  ASSUME Assumptions, IInv, NEW t \in Thread, Drop(t)
  PROVE  IInv'
<1>1. PICK a \in Locals : a = arg[t] /\ arg' = [arg EXCEPT ![t] = a]
  BY DEF Drop, IInv, Kinds, LocalsOK
<1>2. pc' = [pc EXCEPT ![t] = "dropped"] /\ UNCHANGED <<table, lock, nvram, synced>>
  BY DEF Drop, Goto
<1>. QED
  BY <1>1, <1>2, MoveKeeps

-----------------------------------------------------------------------------
(* Saving and starting again.                                              *)

LEMMA SaveNVRAMStep ==
  ASSUME Assumptions, IInv, NEW t \in Thread, SaveNVRAM(t)
  PROVE  IInv' /\ (TwinFree => TwinFree')
<1>1. /\ t \in Saver /\ UNCHANGED <<table, lock, nvram>>
      /\ TablesOK /\ SyncedOK /\ LocalsOK /\ table["file"] \in FileTable
      /\ synced' = [synced EXCEPT !.nodes = table["file"]]
  BY DEF SaveNVRAM, IInv, Kinds, TablesOK
<1>2. /\ synced'.nodes = table["file"] /\ synced'.touched = synced.touched
      /\ synced'.clean = synced.clean
      /\ synced'.nodes # None /\ SyncedOK'
  BY <1>1 DEF SyncedOK, Assumptions
<1>3. PICK a \in Locals : a = NoArg /\ a.copy = <<>>
  BY NoArgIsLocals
<1>4. /\ Kinds' /\ pc'[t] = "save" /\ arg'[t] = a
      /\ \A u \in Thread : u # t => pc'[u] = pc[u] /\ arg'[u] = arg[u]
  BY <1>1, <1>2, <1>3 DEF IInv, Kinds, TablesOK, LocalsOK, SaveNVRAM, Call, Goto
<1>5. Holds(t)' /\ Named(t)' /\ Writes(t)' /\ Saves(t)'
  <2>1. Len(a.copy) = 0
    BY <1>3
  <2>2. Len(a.copy) <= Nodes /\ 1 .. Len(a.copy) = {}
    BY <2>1 DEF Assumptions, FilesAssumption
  <2>. QED
    BY <1>1, <1>2, <1>4, <2>2 DEF Holds, Named, Writes, Saves
<1>6. \A u \in Thread \ {t} : Holds(u)' /\ Named(u)' /\ Writes(u)' /\ Saves(u)'
  BY <1>1, <1>4, OthersKeep
<1>7. Unchanged' /\ SavedOK'
  BY <1>1, <1>2 DEF IInv, Unchanged, SavedOK
<1>8. TwinFree => TwinFree'
  BY <1>1, <1>2 DEF TwinFree, NoTwinsIn
<1>. QED
  BY <1>4, <1>5, <1>6, <1>7, <1>8 DEF IInv

LEMMA SaveNodeStep ==
  ASSUME Assumptions, IInv, NEW t \in Thread, SaveNode(t)
  PROVE  /\ IInv'
         /\ pc[t] = "save" /\ pc' = pc /\ Len(arg[t].copy) < Nodes
         /\ arg'[t].copy = Append(arg[t].copy, table["file"][Len(arg[t].copy) + 1])
         /\ \A u \in Thread : u # t => arg'[u] = arg[u]
<1>1. /\ pc[t] = "save" /\ Len(arg[t].copy) < Nodes /\ arg[t] \in Locals
      /\ UNCHANGED <<table, lock, nvram, pc, synced>> /\ t \in Saver
      /\ table["file"] \in FileTable /\ Nodes \in Nat
  BY DEF SaveNode, IInv, Kinds, LocalsOK, TablesOK, Saves, Assumptions, FilesAssumption
<1>2. PICK c \in Seq(Node) : c = arg[t].copy
  BY <1>1 DEF Locals
<1>3. PICK k \in Index("file") : k = Len(c) + 1
  BY <1>1, <1>2 DEF Index
<1>4. PICK n \in Node : n = table["file"][k]
  BY <1>1 DEF FileTable
<1>5. PICK d \in Seq(Node) : d = Append(c, n)
  <2>1. Append(c, n) \in Seq(Node)
    OBVIOUS
  <2>. QED
    BY <2>1
<1>6. /\ Len(d) = k /\ d[k] = n /\ \A i \in 1 .. Len(c) : d[i] = c[i]
  BY <1>3, <1>5
<1>7. PICK a \in Locals : a = [arg[t] EXCEPT !.copy = d] /\ a.copy = d
  <2>1. PICK a : a = [arg[t] EXCEPT !.copy = d]
    OBVIOUS
  <2>2. a \in Locals /\ a.copy = d
    BY <1>1, <2>1 DEF Locals
  <2>. QED
    BY <2>1, <2>2
<1>8. arg' = [arg EXCEPT ![t] = a]
  BY <1>2, <1>3, <1>4, <1>5, <1>7 DEF SaveNode
<1>9. Kinds' /\ arg'[t] = a /\ \A u \in Thread : u # t => arg'[u] = arg[u]
  BY <1>1, <1>8 DEF IInv, Kinds, TablesOK, LocalsOK, SyncedOK
<1>10. Saves(t)'
  <2>1. ASSUME NEW i \in 1 .. Len(d), i \notin synced.touched
        PROVE  d[i] = synced.nodes[i]
    <3>1. CASE i = k
      BY <1>1, <1>3, <1>4, <1>6, <2>1, <3>1 DEF IInv, Unchanged, Saves
    <3>2. CASE i # k
      <4>1. i \in 1 .. Len(c)
        BY <1>3, <1>6, <3>2
      <4>. QED
        BY <1>1, <1>2, <1>6, <2>1, <4>1 DEF IInv, Saves
    <3>. QED
      BY <3>1, <3>2
  <2>2. Len(d) <= Nodes
    BY <1>1, <1>2, <1>3, <1>6
  <2>. QED
    BY <1>1, <1>7, <1>9, <2>1, <2>2 DEF IInv, Saves
<1>11. Holds(t)' /\ Named(t)' /\ Writes(t)'
  BY <1>1 DEF Holds, Named, Writes
<1>12. \A u \in Thread \ {t} : Holds(u)' /\ Named(u)' /\ Writes(u)' /\ Saves(u)'
  BY <1>1, <1>9, OthersKeep
<1>13. IInv'
  BY <1>1, <1>9, <1>10, <1>11, <1>12 DEF IInv, Unchanged, SavedOK
<1>. QED
  BY <1>1, <1>2, <1>3, <1>4, <1>5, <1>7, <1>9, <1>13

\* The copy is exact where nothing was changed; if nothing was, it is the table
\* as it was when the save began.
LEMMA SetVariableStep ==
  ASSUME Assumptions, IInv, NEW t \in Thread, SetVariable(t)
  PROVE  /\ IInv' /\ (TwinFree => TwinFree')
         /\ pc[t] = "save" /\ Len(arg[t].copy) = Nodes
         /\ nvram' = nvram \/ nvram'.image = arg[t].copy
<1>1. /\ pc[t] = "save" /\ Len(arg[t].copy) = Nodes /\ arg[t] \in Locals /\ t \in Saver
      /\ UNCHANGED <<table, lock>> /\ Return(t)
      /\ synced' = [synced EXCEPT !.nodes = None, !.touched = {}]
      /\ SyncedOK /\ TablesOK
  BY DEF SetVariable, IInv, Kinds, LocalsOK, Saves
<1>2. /\ synced'.nodes = None /\ synced'.touched = {} /\ synced'.clean = synced.clean
      /\ SyncedOK' /\ Unchanged' /\ TablesOK'
  BY <1>1 DEF SyncedOK, TablesOK, Unchanged
<1>3. PICK c \in FileTable : c = arg[t].copy
  <2>1. PICK c \in Seq(Node) : c = arg[t].copy
    BY <1>1 DEF Locals
  <2>2. c \in [1 .. Nodes -> Node]
    BY <1>1, <2>1
  <2>. QED
    BY <2>1, <2>2 DEF FileTable, Index
<1>4. \A i \in Index("file") \ synced.touched : c[i] = synced.nodes[i]
  BY <1>1, <1>3 DEF IInv, Saves, Index
<1>5. CASE UNCHANGED nvram
  <2>1. SavedOK'
    BY <1>5 DEF IInv, SavedOK
  <2>2. IInv'
    BY <1>1, <1>2, <2>1, ReturnKeeps
  <2>. QED
    BY <1>1, <1>2, <1>5, <2>2 DEF TwinFree, NoTwinsIn
<1>6. CASE ~UNCHANGED nvram
  <2>1. PICK e \in BOOLEAN :
          e <=> \A i \in Index("file") \ synced.touched : c[i] = synced.nodes[i]
    OBVIOUS
  <2>2. PICK f \in BOOLEAN : f <=> synced.clean /\ synced.touched = {}
    OBVIOUS
  <2>3. /\ nvram'.image = c /\ (nvram'.exact <=> e) /\ (nvram'.clean <=> f)
        /\ nvram'.clean \in BOOLEAN
    <3>1. nvram' = [image |-> arg[t].copy,
                    exact |-> \A i \in Index("file") \ synced.touched : arg[t].copy[i] = synced.nodes[i],
                    clean |-> synced.clean /\ synced.touched = {}]
      BY <1>6 DEF SetVariable
    <3>2. /\ nvram'.image = arg[t].copy
          /\ nvram'.exact <=> \A i \in Index("file") \ synced.touched : arg[t].copy[i] = synced.nodes[i]
          /\ nvram'.clean <=> synced.clean /\ synced.touched = {}
          /\ nvram'.clean \in BOOLEAN
      BY <3>1
    <3>. QED
      BY <1>3, <2>1, <2>2, <3>2
  <2>4. SavedOK'
    BY <1>4, <2>1, <2>3 DEF SavedOK
  <2>5. IInv'
    BY <1>1, <1>2, <2>4, ReturnKeeps
  <2>6. ASSUME TwinFree, nvram'.clean
        PROVE  NoTwinsIn(nvram'.image)
    <3>1. synced.clean /\ synced.nodes # None /\ \A i \in Index("file") : c[i] = synced.nodes[i]
      BY <1>1, <1>4, <2>2, <2>3, <2>6 DEF IInv, Saves
    <3>2. NoTwinsIn(synced.nodes)
      BY <2>6, <3>1 DEF TwinFree
    <3>. QED
      BY <2>3, <3>1, <3>2 DEF NoTwinsIn
  <2>7. TwinFree => TwinFree'
    BY <1>1, <1>2, <2>6 DEF TwinFree, NoTwinsIn
  <2>. QED
    BY <1>1, <1>3, <2>3, <2>5, <2>7
<1>. QED
  BY <1>5, <1>6

\* What comes back is what was saved, and nobody is in a call.
LEMMA RebootStep ==
  ASSUME Assumptions, IInv, Reboot
  PROVE  /\ IInv' /\ (TwinFree => TwinFree')
         /\ table'["file"] = IF nvram = None THEN Empty("file") ELSE nvram.image
         /\ \A t \in Thread : pc'[t] = "user"
<1>1. /\ table' = [file |-> IF nvram = None THEN Empty("file") ELSE nvram.image,
                   pipe |-> Empty("pipe")]
      /\ lock' = None /\ UNCHANGED nvram /\ pc' = [t \in Thread |-> "user"]
      /\ arg' = [t \in Thread |-> NoArg]
  BY DEF Reboot
<1>2. /\ synced'.nodes = None /\ synced'.touched = {} /\ SyncedOK'
      /\ synced'.clean <=> (nvram # None => nvram.clean)
  BY DEF Reboot, SyncedOK
<1>3. PICK f \in FileTable : f = IF nvram = None THEN Empty("file") ELSE nvram.image
  BY FreeIsNode DEF IInv, SavedOK, FileTable, Kind
<1>4. table'["file"] = f /\ TablesOK'
  BY <1>1, <1>3, FreeIsNode DEF TablesOK, Kind, PipeTable
<1>5. LocalsOK' /\ \A t \in Thread : pc'[t] = "user"
  BY <1>1, NoArgIsLocals DEF LocalsOK
<1>6. IInv'
  BY <1>1, <1>2, <1>4, <1>5 DEF IInv, Kinds, Holds, Named, Writes, Saves, Unchanged, SavedOK
<1>7. NoTwinsIn(Empty("file"))
  BY DEF NoTwinsIn, Empty, Free
<1>8. TwinFree => TwinFree'
  BY <1>1, <1>2, <1>3, <1>4, <1>7 DEF TwinFree, NoTwinsIn
<1>. QED
  BY <1>3, <1>4, <1>5, <1>6, <1>8

-----------------------------------------------------------------------------
(***************************************************************************)
(* The bytes of files, while the writers of a node take turns: a node that *)
(* is being written has one writer and stays in use, and the writer counts *)
(* on no more room than there is and knows where the data ends.            *)
(***************************************************************************)
WholeNode(n) == n.data \in Seq(Byte) /\ Len(n.data) <= Room.file

WholeNodes ==
  /\ \A i \in Index("file") : WholeNode(table["file"][i])
  /\ \A t \in Thread : pc[t] = "save" => \A j \in 1 .. Len(arg[t].copy) : WholeNode(arg[t].copy[j])
  /\ nvram # None => \A i \in Index("file") : WholeNode(nvram.image[i])

WritesFile(t, i) == pc[t] \in {"load", "store"} /\ arg[t].k = "file" /\ arg[t].i = i

RoomKnown(t, i) ==
  /\ table["file"][i].used
  /\ Len(table["file"][i].data) + arg[t].left <= Room.file
  /\ pc[t] = "store" => arg[t].at = Len(table["file"][i].data)

Turns ==
  \A t \in Thread, i \in Index("file") : WritesFile(t, i) =>
    RoomKnown(t, i) /\ \A u \in Thread : WritesFile(u, i) => u = t

WInv == WholeNodes /\ Turns

\* A step of t that writes no data.
LEMMA QuietKeeps ==
  ASSUME WInv, NEW t \in Thread,
         table'["file"] = table["file"], UNCHANGED nvram,
         \A u \in Thread : u # t => pc'[u] = pc[u] /\ arg'[u] = arg[u],
         pc'[t] \notin {"load", "store", "save"} \/ (pc'[t] = pc[t] /\ arg'[t] = arg[t])
  PROVE  WInv'
<1>1. WholeNodes'
  BY DEF WInv, WholeNodes, WholeNode
<1>2. \A u \in Thread, i \in Index("file") :
        WritesFile(u, i)' => WritesFile(u, i) /\ RoomKnown(u, i)'
  BY DEF WInv, Turns, WritesFile, RoomKnown
<1>. QED
  BY <1>1, <1>2 DEF WInv, Turns

\* A step of t that writes an entry, of which nobody is writing the data, or that
\* leaves its data as they are.
LEMMA EntryKeeps ==
  ASSUME WInv, NEW t \in Thread, NEW i \in Index("file"), UNCHANGED nvram,
         \A j \in Index("file") : j # i => table'["file"][j] = table["file"][j],
         \A u \in Thread : u # t => pc'[u] = pc[u] /\ arg'[u] = arg[u],
         pc'[t] \notin {"load", "store", "save"},
         WholeNode(table'["file"][i]),
         \/ \A u \in Thread \ {t} : ~WritesFile(u, i)
         \/ table'["file"][i].used /\ table'["file"][i].data = table["file"][i].data
  PROVE  WInv'
<1>1. WholeNodes'
  BY DEF WInv, WholeNodes, WholeNode
<1>2. ASSUME NEW u \in Thread, NEW j \in Index("file"), WritesFile(u, j)'
      PROVE  WritesFile(u, j) /\ RoomKnown(u, j)'
  <2>1. u # t /\ WritesFile(u, j) /\ RoomKnown(u, j) /\ pc'[u] = pc[u] /\ arg'[u] = arg[u]
    BY <1>2 DEF WInv, Turns, WritesFile
  <2>2. CASE j # i
    BY <2>1, <2>2 DEF RoomKnown
  <2>3. CASE j = i
    BY <2>1, <2>3 DEF RoomKnown
  <2>. QED
    BY <2>1, <2>2, <2>3
<1>. QED
  BY <1>1, <1>2 DEF WInv, Turns

LEMMA NamesKeepData ==
  ASSUME Assumptions, Exclusive, IInv, WInv, NEW t \in Thread,
         Claim(t) \/ SetName(t) \/ Clear(t)
  PROVE  WInv'
<1>1. /\ table["file"] \in FileTable /\ "file" \in DOMAIN table /\ UNCHANGED nvram
      /\ pc[t] \in {"find", "name", "clear"} /\ pc[t] = "name" => arg[t].i \in Index("file")
  BY DEF IInv, Kinds, TablesOK, Kind, Named, Claim, SetName, Clear
<1>2. /\ \A u \in Thread : u # t => pc'[u] = pc[u] /\ arg'[u] = arg[u]
      /\ pc'[t] \in {"user", "name"}
  BY DEF IInv, Kinds, LocalsOK, Claim, SetName, Clear, Return, Goto
<1>3. CASE UNCHANGED table
  BY <1>1, <1>2, <1>3, QuietKeeps
<1>4. WholeNode(Free)
  <2>1. Free.data = <<>>
    BY DEF Free
  <2>. QED
    BY <2>1 DEF WholeNode, Assumptions, FilesAssumption
<1>5. CASE Claim(t) /\ ~UNCHANGED table
  <2>1. PICK i \in Index("file") : i = FirstFree("file") /\ ~table["file"][i].used
    BY <1>5, FirstFreeIsFree DEF Claim, Kind
  <2>2. PICK n : n = [Free EXCEPT !.used = TRUE, !.dir = arg[t].dir]
    OBVIOUS
  <2>3. table' = [table EXCEPT !["file"][i] = n] /\ n.data = Free.data
    BY <1>5, <2>1, <2>2 DEF Claim, Free
  <2>4. table'["file"][i] = n /\ \A j \in Index("file") : j # i => table'["file"][j] = table["file"][j]
    BY <1>1, <2>3 DEF FileTable
  <2>5. WholeNode(table'["file"][i]) /\ \A u \in Thread \ {t} : ~WritesFile(u, i)
    BY <1>4, <2>1, <2>3, <2>4 DEF WholeNode, WInv, Turns, RoomKnown
  <2>. QED
    BY <1>1, <1>2, <2>4, <2>5, EntryKeeps
<1>6. CASE SetName(t)
  <2>1. PICK i \in Index("file") : i = arg[t].i
    BY <1>1, <1>6 DEF SetName
  <2>2. PICK n : n = [table["file"][i] EXCEPT !.name = Kept[arg[t].name]]
    OBVIOUS
  <2>3. table' = [table EXCEPT !["file"][i] = n]
    BY <1>6, <2>1, <2>2 DEF SetName
  <2>4. /\ table'["file"][i] = n
        /\ \A j \in Index("file") : j # i => table'["file"][j] = table["file"][j]
    BY <1>1, <2>3 DEF FileTable
  <2>5. n.data = table["file"][i].data /\ n.used = table["file"][i].used
    BY <1>1, <2>2 DEF FileTable, Node
  <2>6. WholeNode(table'["file"][i])
    BY <2>4, <2>5 DEF WholeNode, WInv, WholeNodes
  <2>7. \/ \A u \in Thread \ {t} : ~WritesFile(u, i)
        \/ table'["file"][i].used /\ table'["file"][i].data = table["file"][i].data
    BY <2>4, <2>5 DEF WInv, Turns, RoomKnown
  <2>. QED
    BY <1>1, <1>2, <2>4, <2>6, <2>7, EntryKeeps
<1>7. CASE Clear(t) /\ ~UNCHANGED table
  <2>1. Min(Find("file", arg[t].name)) \in Index("file")
    <3>1. Find("file", arg[t].name) \in SUBSET Index("file") /\ Index("file") \subseteq Nat
      BY IndexIsNat DEF Find, Used, Kind
    <3>. QED
      BY <1>7, <3>1, MinIsMember DEF Clear
  <2>2. PICK i \in Index("file") : i = Min(Find("file", arg[t].name))
    BY <2>1
  <2>3. PICK n : n = Free
    OBVIOUS
  <2>4. table' = [table EXCEPT !["file"][i] = n] /\ i \notin Written(t)
    BY <1>7, <2>2, <2>3 DEF Clear
  <2>5. table'["file"][i] = n /\ \A j \in Index("file") : j # i => table'["file"][j] = table["file"][j]
    BY <1>1, <2>4 DEF FileTable
  <2>6. WholeNode(table'["file"][i]) /\ \A u \in Thread \ {t} : ~WritesFile(u, i)
    BY <1>4, <2>3, <2>4, <2>5 DEF WritesFile, Written
  <2>. QED
    BY <1>1, <1>2, <2>5, <2>6, EntryKeeps
<1>. QED
  BY <1>3, <1>5, <1>6, <1>7

LEMMA WriteTurns ==
  ASSUME Assumptions, Exclusive, IInv, WInv, NEW t \in Thread, NEW k \in Kind, NEW i \in Index(k),
         NEW len \in 1 .. Chunk, Write(t, k, i, len)
  PROVE  WInv'
<1>1. /\ pc'[t] = "load" /\ arg'[t].k = k /\ arg'[t].i = i
      /\ k = "file" => Len(table["file"][i].data) + arg'[t].left <= Room.file
  BY WriteStep
<1>2. /\ UNCHANGED <<table, nvram>> /\ pc[t] = "user" /\ table[k][i].used
      /\ k = "file" => i \notin Written(t)
      /\ \A u \in Thread : u # t => pc'[u] = pc[u] /\ arg'[u] = arg[u]
  BY DEF Write, Call, Goto, IInv, Kinds, LocalsOK
<1>3. WholeNodes'
  BY <1>1, <1>2 DEF WInv, WholeNodes, WholeNode
<1>4. \A u \in Thread \ {t}, j \in Index("file") :
        WritesFile(u, j)' => WritesFile(u, j) /\ RoomKnown(u, j)'
  BY <1>2 DEF WInv, Turns, WritesFile, RoomKnown
<1>5. \A j \in Index("file") : WritesFile(t, j)' =>
        RoomKnown(t, j)' /\ \A u \in Thread \ {t} : ~WritesFile(u, j)
  BY <1>1, <1>2 DEF WritesFile, RoomKnown, Written
<1>. QED
  BY <1>3, <1>4, <1>5 DEF WInv, Turns

LEMMA LoadTurns ==
  ASSUME Assumptions, IInv, WInv, NEW t \in Thread, Load(t)
  PROVE  WInv'
<1>1. /\ pc[t] = "load" /\ UNCHANGED <<table, nvram>> /\ arg[t] \in Locals
      /\ \A u \in Thread : u # t => pc'[u] = pc[u] /\ arg'[u] = arg[u]
  BY DEF Load, Return, Goto, IInv, Kinds, LocalsOK
<1>2. CASE Return(t)
  <2>1. pc'[t] = "user"
    BY <1>2 DEF Return, Goto, IInv, Kinds, LocalsOK
  <2>. QED
    BY <1>1, <2>1, QuietKeeps
<1>3. CASE ~Return(t)
  <2>1. PICK size : size = Len(table[arg[t].k][arg[t].i].data)
    OBVIOUS
  <2>2. /\ arg' = [arg EXCEPT ![t].at = size] /\ pc'[t] = "store"
    BY <1>1, <1>3, <2>1 DEF Load, Goto, IInv, Kinds, LocalsOK
  <2>3. /\ arg'[t].at = size /\ arg'[t].k = arg[t].k /\ arg'[t].i = arg[t].i
        /\ arg'[t].left = arg[t].left
    BY <1>1, <2>2 DEF IInv, Kinds, LocalsOK, Locals
  <2>4. WholeNodes'
    BY <1>1, <2>2 DEF WInv, WholeNodes, WholeNode
  <2>5. \A u \in Thread, j \in Index("file") :
          WritesFile(u, j)' => WritesFile(u, j) /\ RoomKnown(u, j)'
    BY <1>1, <2>1, <2>2, <2>3 DEF WInv, Turns, WritesFile, RoomKnown
  <2>. QED
    BY <2>4, <2>5 DEF WInv, Turns
<1>. QED
  BY <1>2, <1>3

\* The only writer of the node appends one byte where it knows there is room.
LEMMA StoreTurns ==
  ASSUME Assumptions, IInv, WInv, NEW t \in Thread, NEW b \in Byte, Store(t, b)
  PROVE  WInv'
<1>1. /\ pc'[t] = "load" /\ arg'[t].k = arg[t].k /\ arg'[t].i = arg[t].i
      /\ arg'[t].left = arg[t].left - 1
      /\ arg[t].k = "pipe" => table'["file"] = table["file"]
      /\ arg[t].k = "file" =>
           /\ table'["file"][arg[t].i].used = table["file"][arg[t].i].used
           /\ table'["file"][arg[t].i].data = Put(table["file"][arg[t].i].data, arg[t].at, b)
           /\ \A j \in Index("file") : j # arg[t].i => table'["file"][j] = table["file"][j]
  BY StoreStep
<1>2. /\ pc[t] = "store" /\ UNCHANGED nvram
      /\ arg[t].i \in Index(arg[t].k) /\ arg[t].k \in Kind /\ arg[t].left \in Nat /\ arg[t].left > 0
      /\ \A u \in Thread : u # t => pc'[u] = pc[u] /\ arg'[u] = arg[u]
  <2>1. arg[t] \in Locals
    BY DEF IInv, Kinds, LocalsOK
  <2>. QED
    BY <2>1 DEF Store, Goto, IInv, Kinds, LocalsOK, Writes, Locals, Assumptions
<1>3. CASE arg[t].k = "pipe"
  <2>1. WholeNodes'
    BY <1>1, <1>2, <1>3 DEF WInv, WholeNodes, WholeNode
  <2>2. \A u \in Thread, j \in Index("file") :
          WritesFile(u, j)' => WritesFile(u, j) /\ RoomKnown(u, j)'
    BY <1>1, <1>2, <1>3 DEF WInv, Turns, WritesFile, RoomKnown
  <2>. QED
    BY <2>1, <2>2 DEF WInv, Turns
<1>4. CASE arg[t].k = "file"
  <2>1. PICK i \in Index("file") : i = arg[t].i
    BY <1>2, <1>4
  <2>2. /\ RoomKnown(t, i) /\ \A u \in Thread : WritesFile(u, i) => u = t
        /\ WholeNode(table["file"][i])
    BY <1>2, <1>4, <2>1 DEF WInv, WholeNodes, Turns, WritesFile
  <2>3. PICK d \in Seq(Byte) : d = table["file"][i].data
    BY <2>2 DEF WholeNode
  <2>4. /\ Len(d) \in Nat /\ Len(d) + arg[t].left <= Room.file /\ arg[t].at = Len(d)
        /\ table["file"][i].used
    BY <1>2, <2>2, <2>3 DEF RoomKnown
  <2>5. PICK e \in Seq(Byte) : e = table'["file"][i].data /\ Len(e) = Len(d) + 1
    <3>1. PICK p : p = Put(d, Len(d), b)
      OBVIOUS
    <3>2. p \in Seq(Byte) /\ Len(p) = Len(d) + 1
      BY <3>1, PutAtEnd
    <3>3. table'["file"][i].data = p
      BY <1>1, <1>4, <2>1, <2>3, <2>4, <3>1
    <3>. QED
      BY <3>2, <3>3
  <2>6. Len(e) + arg'[t].left <= Room.file /\ Len(e) <= Room.file
    BY <1>1, <1>2, <2>4, <2>5 DEF Assumptions, FilesAssumption
  <2>7. WholeNodes'
    BY <1>1, <1>2, <1>4, <2>1, <2>5, <2>6 DEF WInv, WholeNodes, WholeNode
  <2>8. \A j \in Index("file") : WritesFile(t, j)' => WritesFile(t, j) /\ RoomKnown(t, j)'
    BY <1>1, <1>2, <1>4, <2>1, <2>4, <2>5, <2>6 DEF WritesFile, RoomKnown
  <2>9. \A u \in Thread \ {t}, j \in Index("file") :
          WritesFile(u, j)' => WritesFile(u, j) /\ RoomKnown(u, j)'
    BY <1>1, <1>2, <1>4, <2>1, <2>2 DEF WInv, Turns, WritesFile, RoomKnown
  <2>. QED
    BY <2>7, <2>8, <2>9 DEF WInv, Turns
<1>. QED
  BY <1>2, <1>3, <1>4 DEF Kind

LEMMA SavesWholeNodes ==
  ASSUME Assumptions, IInv, WInv, NEW t \in Thread, SaveNVRAM(t) \/ SaveNode(t) \/ SetVariable(t)
  PROVE  WInv'
<1>1. /\ table["file"] \in FileTable /\ UNCHANGED table
      /\ pc'[t] \in {"save", "user"}
      /\ \A u \in Thread : u # t => pc'[u] = pc[u] /\ arg'[u] = arg[u]
  BY DEF IInv, Kinds, TablesOK, LocalsOK, SaveNVRAM, SaveNode, SetVariable, Call, Goto, Return
<1>2. /\ nvram' # None => \A i \in Index("file") : WholeNode(nvram'.image[i])
      /\ pc'[t] = "save" => \A j \in 1 .. Len(arg'[t].copy) : WholeNode(arg'[t].copy[j])
  <2>1. CASE SaveNVRAM(t)
    <3>1. PICK a \in Locals : a = NoArg /\ a.copy = <<>>
      BY NoArgIsLocals
    <3>2. arg'[t] = a /\ Len(a.copy) = 0 /\ UNCHANGED nvram
      BY <2>1, <3>1 DEF SaveNVRAM, Call, IInv, Kinds, LocalsOK
    <3>. QED
      BY <3>2 DEF WInv, WholeNodes
  <2>2. CASE SaveNode(t)
    <3>1. /\ pc[t] = "save" /\ Len(arg[t].copy) < Nodes
          /\ arg'[t].copy = Append(arg[t].copy, table["file"][Len(arg[t].copy) + 1])
      BY <2>2, SaveNodeStep
    <3>2. PICK c \in Seq(Node) : c = arg[t].copy
      BY DEF IInv, Kinds, LocalsOK, Locals
    <3>3. PICK k \in Index("file") : k = Len(c) + 1
      BY <3>1, <3>2 DEF Index, Assumptions, FilesAssumption
    <3>4. PICK n \in Node : n = table["file"][k]
      BY <1>1 DEF FileTable
    <3>5. PICK d : d = Append(c, n)
      OBVIOUS
    <3>6. Len(d) = k /\ d[k] = n /\ \A j \in 1 .. Len(c) : d[j] = c[j]
      BY <3>3, <3>5
    <3>7. arg'[t].copy = d /\ UNCHANGED nvram
      BY <2>2, <3>1, <3>2, <3>3, <3>4, <3>5 DEF SaveNode
    <3>8. ASSUME NEW j \in 1 .. Len(d)
          PROVE  WholeNode(d[j])
      <4>1. CASE j = k
        BY <3>4, <3>6, <4>1 DEF WInv, WholeNodes
      <4>2. CASE j # k
        <5>1. j \in 1 .. Len(c)
          BY <3>3, <3>6, <4>2
        <5>. QED
          BY <3>1, <3>2, <3>6, <5>1 DEF WInv, WholeNodes
      <4>. QED
        BY <4>1, <4>2
    <3>. QED
      BY <3>7, <3>8 DEF WInv, WholeNodes
  <2>3. CASE SetVariable(t)
    <3>1. /\ pc[t] = "save" /\ Len(arg[t].copy) = Nodes
          /\ nvram' = nvram \/ nvram'.image = arg[t].copy
          /\ pc'[t] = "user"
      BY <2>3, SetVariableStep DEF SetVariable, Return, Goto, IInv, Kinds, LocalsOK
    <3>. QED
      BY <3>1 DEF WInv, WholeNodes, Index
  <2>. QED
    BY <2>1, <2>2, <2>3
<1>3. WholeNodes'
  BY <1>1, <1>2 DEF WInv, WholeNodes, WholeNode
<1>4. \A u \in Thread, i \in Index("file") :
        WritesFile(u, i)' => WritesFile(u, i) /\ RoomKnown(u, i)'
  BY <1>1 DEF WInv, Turns, WritesFile, RoomKnown
<1>. QED
  BY <1>3, <1>4 DEF WInv, Turns

LEMMA RebootWhole ==
  ASSUME Assumptions, IInv, WInv, Reboot
  PROVE  WInv'
<1>1. /\ table'["file"] = IF nvram = None THEN Empty("file") ELSE nvram.image
      /\ \A t \in Thread : pc'[t] = "user"
      /\ UNCHANGED nvram
  BY RebootStep DEF Reboot
<1>2. \A i \in Index("file") : WholeNode(Empty("file")[i])
  <2>1. ASSUME NEW i \in Index("file")
        PROVE  Empty("file")[i].data = <<>>
    BY DEF Empty, Free
  <2>2. <<>> \in Seq(Byte) /\ Len(<<>>) <= Room.file
    BY DEF Assumptions, FilesAssumption
  <2>. QED
    BY <2>1, <2>2 DEF WholeNode
<1>. QED
  BY <1>1, <1>2 DEF WInv, WholeNodes, WholeNode, Turns, WritesFile

-----------------------------------------------------------------------------
LEMMA NextIInv ==
  ASSUME Assumptions, IInv, [Next]_vars
  PROVE  IInv' /\ (ShortNames /\ TwinFree => TwinFree')
<1>1. ASSUME NEW t \in Thread, Step(t)
      PROVE  IInv' /\ (ShortNames /\ TwinFree => TwinFree')
  <2>1. CASE Acquire(t) \/ Load(t) \/ ListNode(t) \/ SaveNode(t)
    <3>1. UNCHANGED <<table, nvram, synced>>
      BY <2>1 DEF Acquire, Load, ListNode, SaveNode
    <3>2. IInv'
      BY <2>1, AcquireStep, LoadStep, ListNodeStep, SaveNodeStep
    <3>. QED
      BY <3>1, <3>2 DEF TwinFree, NoTwinsIn
  <2>2. CASE Claim(t) \/ SetName(t) \/ Clear(t)
    BY <2>2, ClaimStep, SetNameStep, ClearStep
  <2>3. CASE (\E b \in Byte : Store(t, b)) \/ TakePipe(t) \/ SetVariable(t)
    BY <2>3, StoreStep, TakePipeStep, SetVariableStep
  <2>. QED
    BY <1>1, <2>1, <2>2, <2>3 DEF Step
<1>2. ASSUME NEW t \in Thread, Request(t)
      PROVE  IInv' /\ (ShortNames /\ TwinFree => TwinFree')
  <2>1. CASE \E n \in Name : CreateFile(t, n) \/ MkDir(t, n) \/ Delete(t, n) \/ CreateNamedPipe(t, n)
    <3>1. UNCHANGED <<table, nvram, synced>>
      BY <2>1 DEF CreateFile, MkDir, Delete, CreateNamedPipe
    <3>2. IInv'
      BY <2>1, CallStep
    <3>. QED
      BY <3>1, <3>2 DEF TwinFree, NoTwinsIn
  <2>2. CASE \E k \in Kind : \E i \in Index(k), len \in 1 .. Chunk : Write(t, k, i, len)
    <3>1. UNCHANGED <<table, nvram, synced>>
      BY <2>2 DEF Write
    <3>2. IInv'
      BY <2>2, WriteStep
    <3>. QED
      BY <3>1, <3>2 DEF TwinFree, NoTwinsIn
  <2>3. CASE QueryDir(t)
    <3>1. UNCHANGED <<table, nvram, synced>>
      BY <2>3 DEF QueryDir
    <3>2. IInv'
      BY <2>3, QueryDirStep
    <3>. QED
      BY <3>1, <3>2 DEF TwinFree, NoTwinsIn
  <2>4. CASE \E i \in Index("pipe"), offset \in 0 .. Chunk : ReadPipe(t, i, offset)
    BY <2>4, ReadPipeStep
  <2>5. CASE SaveNVRAM(t)
    BY <2>5, SaveNVRAMStep
  <2>. QED
    BY <1>2, <2>1, <2>2, <2>3, <2>4, <2>5 DEF Request
<1>3. ASSUME NEW t \in Thread, Drop(t)
      PROVE  IInv' /\ (ShortNames /\ TwinFree => TwinFree')
  <2>1. UNCHANGED <<table, nvram, synced>>
    BY <1>3 DEF Drop
  <2>. QED
    BY <1>3, <2>1, DropStep DEF TwinFree, NoTwinsIn
<1>4. CASE \E n \in Name, b \in Byte : SetupTestPipe(n, b)
  BY <1>4, SetupTestPipeStep
<1>5. CASE Reboot
  BY <1>5, RebootStep
<1>6. CASE UNCHANGED vars
  <2>1. UNCHANGED <<table, lock, nvram, pc, arg, synced>>
    BY <1>6 DEF vars
  <2>2. Kinds' /\ Unchanged' /\ SavedOK'
    BY <2>1 DEF IInv, Kinds, TablesOK, LocalsOK, SyncedOK, Unchanged, SavedOK
  <2>3. ASSUME NEW t \in Thread
        PROVE  Holds(t)' /\ Named(t)' /\ Writes(t)' /\ Saves(t)'
    <3>1. Find("file", arg[t].name)' = Find("file", arg[t].name)
      BY <2>1 DEF Find, Used
    <3>2. Holds(t) /\ Named(t) /\ Writes(t) /\ Saves(t)
      BY DEF IInv
    <3>. QED
      BY <2>1, <3>1, <3>2 DEF Holds, Named, Writes, Saves
  <2>4. TwinFree => TwinFree'
    BY <2>1 DEF TwinFree, NoTwinsIn
  <2>. QED
    BY <2>2, <2>3, <2>4 DEF IInv
<1>. QED
  BY <1>1, <1>2, <1>3, <1>4, <1>5, <1>6 DEF Next

LEMMA NextWInv ==
  ASSUME Assumptions, Exclusive, IInv, WInv, [Next]_vars
  PROVE  WInv'
<1>1. ASSUME NEW t \in Thread, Step(t)
      PROVE  WInv'
  <2>1. CASE Acquire(t) \/ TakePipe(t) \/ ListNode(t)
    <3>1. /\ UNCHANGED nvram /\ table'["file"] = table["file"]
          /\ \A u \in Thread : u # t => pc'[u] = pc[u] /\ arg'[u] = arg[u]
          /\ pc'[t] \notin {"load", "store", "save"}
      <4>1. CASE Acquire(t)
        BY <4>1 DEF Acquire, Goto, IInv, Kinds, LocalsOK
      <4>2. CASE TakePipe(t)
        BY <4>2 DEF TakePipe, Return, Goto, IInv, Kinds, LocalsOK, TablesOK, Kind
      <4>3. CASE ListNode(t)
        BY <4>3 DEF ListNode, Return, Goto, IInv, Kinds, LocalsOK
      <4>. QED
        BY <2>1, <4>1, <4>2, <4>3
    <3>. QED
      BY <3>1, QuietKeeps
  <2>2. CASE Claim(t) \/ SetName(t) \/ Clear(t)
    BY <2>2, NamesKeepData
  <2>3. CASE Load(t) \/ \E b \in Byte : Store(t, b)
    BY <2>3, LoadTurns, StoreTurns
  <2>4. CASE SaveNode(t) \/ SetVariable(t)
    BY <2>4, SavesWholeNodes
  <2>. QED
    BY <1>1, <2>1, <2>2, <2>3, <2>4 DEF Step
<1>2. ASSUME NEW t \in Thread, Request(t)
      PROVE  WInv'
  <2>1. CASE \/ \E n \in Name : CreateFile(t, n) \/ MkDir(t, n) \/ Delete(t, n) \/ CreateNamedPipe(t, n)
             \/ QueryDir(t)
    <3>1. /\ UNCHANGED <<table, nvram>>
          /\ \A u \in Thread : u # t => pc'[u] = pc[u] /\ arg'[u] = arg[u]
          /\ pc'[t] \notin {"load", "store", "save"}
      BY <2>1 DEF CreateFile, MkDir, Delete, CreateNamedPipe, QueryDir, Call, Goto, IInv, Kinds, LocalsOK
    <3>. QED
      BY <3>1, QuietKeeps
  <2>2. CASE \E i \in Index("pipe"), offset \in 0 .. Chunk : ReadPipe(t, i, offset)
    <3>1. /\ UNCHANGED <<nvram, pc, arg>> /\ table'["file"] = table["file"]
      BY <2>2 DEF ReadPipe, IInv, Kinds, TablesOK, Kind
    <3>. QED
      BY <3>1, QuietKeeps
  <2>3. CASE \E k \in Kind : \E i \in Index(k), len \in 1 .. Chunk : Write(t, k, i, len)
    BY <2>3, WriteTurns
  <2>4. CASE SaveNVRAM(t)
    BY <2>4, SavesWholeNodes
  <2>. QED
    BY <1>2, <2>1, <2>2, <2>3, <2>4 DEF Request
<1>3. ASSUME NEW t \in Thread, Drop(t)
      PROVE  WInv'
  <2>1. /\ UNCHANGED <<table, nvram, arg>>
        /\ \A u \in Thread : u # t => pc'[u] = pc[u]
        /\ pc'[t] \notin {"load", "store", "save"}
    BY <1>3 DEF Drop, Goto, IInv, Kinds, LocalsOK
  <2>. QED
    BY <2>1, QuietKeeps
<1>4. CASE (\E n \in Name, b \in Byte : SetupTestPipe(n, b)) \/ UNCHANGED vars
  <2>1. UNCHANGED <<nvram, pc, arg>> /\ table'["file"] = table["file"]
    BY <1>4 DEF vars, SetupTestPipe, IInv, Kinds, TablesOK, Kind
  <2>. QED
    BY <2>1 DEF WInv, WholeNodes, WholeNode, Turns, WritesFile, RoomKnown
<1>5. CASE Reboot
  BY <1>5, RebootWhole
<1>. QED
  BY <1>1, <1>2, <1>3, <1>4, <1>5 DEF Next

LEMMA InitWInv ==
  ASSUME Assumptions, Init
  PROVE  WInv
<1>1. /\ table["file"] = Empty("file") /\ nvram = None
      /\ \A t \in Thread : pc[t] = "user"
  BY DEF Init
<1>2. <<>> \in Seq(Byte) /\ Len(<<>>) <= Room.file
  BY DEF Assumptions, FilesAssumption
<1>3. ASSUME NEW i \in Index("file")
      PROVE  Empty("file")[i].data = <<>>
  BY DEF Empty, Free
<1>. QED
  BY <1>1, <1>2, <1>3 DEF WInv, WholeNodes, WholeNode, Turns, WritesFile

-----------------------------------------------------------------------------
(***************************************************************************)
(* The theorems.                                                           *)
(***************************************************************************)

\* s_wlock is held by whoever is in one of the functions that take it, and the copy
\* of a save that is going on is exact wherever nothing was changed meanwhile.
THEOREM Invariance ==
  ASSUME Assumptions
  PROVE  Spec => []IInv
<1>1. Init => IInv
  BY InitIInv
<1>2. IInv /\ [Next]_vars => IInv'
  BY NextIInv
<1>. QED
  BY <1>1, <1>2, PTL DEF Spec

\* Nodes, pipes and the locals of the calls keep their types: a write never has
\* more left than was asked for, and stores only what is written or in the buffer.
THEOREM TypeCorrect ==
  ASSUME Assumptions
  PROVE  Spec => []TypeOK
<1>1. IInv => TypeOK
  <2>. SUFFICES ASSUME IInv PROVE TypeOK
    OBVIOUS
  <2>1. TablesOK /\ LocalsOK /\ lock \in Thread \cup {None}
    BY DEF IInv, Kinds
  <2>2. DOMAIN table = Kind
    BY <2>1 DEF TablesOK
  <2>3. \A k \in Kind : \A i \in Index(k) : table[k][i] \in Node
    BY <2>1 DEF TablesOK, Kind, FileTable, PipeTable
  <2>4. \A t \in Thread : arg[t].left \in 0 .. Chunk
    BY <2>1 DEF LocalsOK, Locals
  <2>. QED
    BY <2>1, <2>2, <2>3, <2>4 DEF TypeOK, Node
<1>. QED
  BY <1>1, Invariance, PTL

\* WFindOrCreate and Delete under s_wlock: one name has one node, whatever was looked
\* for before the lock was taken, and after any power cycle, unless a save was disturbed.
THEOREM NamesUnique ==
  ASSUME Assumptions, ShortNames
  PROVE  Spec => []OneNodePerName
<1>1. Init => IInv /\ TwinFree
  BY InitIInv
<1>2. IInv /\ TwinFree /\ [Next]_vars => IInv' /\ TwinFree'
  BY NextIInv
<1>3. TwinFree => (synced.clean => NoTwins)
  BY DEF TwinFree, NoTwinsIn, NoTwins, Used
<1>4. Spec => [](synced.clean => NoTwins)
  BY <1>1, <1>2, <1>3, PTL DEF Spec
<1>5. TypeOK /\ (synced.clean => NoTwins) => OneNodePerName
  BY DEF OneNodePerName
<1>. QED
  BY <1>4, <1>5, TypeCorrect, PTL

\* SaveNVRAM and LoadNVRAM: what nobody changed during a save comes back as it was.
THEOREM SavesExact ==
  ASSUME Assumptions
  PROVE  Spec => []SavedSurvives
<1>1. IInv => SavedSurvives
  BY DEF IInv, SavedOK, SavedSurvives
<1>. QED
  BY <1>1, Invariance, PTL

\* WWrite: no byte of a file is lost, doubled or made up, and no array is outgrown,
\* as long as the writers of a node take turns.
THEOREM WritesWhole ==
  ASSUME Assumptions, Exclusive
  PROVE  Spec => []DataWhole
<1>1. Init => IInv /\ WInv
  BY InitIInv, InitWInv
<1>2. IInv /\ WInv /\ [Next]_vars => IInv' /\ WInv'
  BY NextIInv, NextWInv
<1>3. IInv /\ WInv => DataWhole
  <2>. SUFFICES ASSUME IInv, WInv, NEW i \in Index("file")
                PROVE  /\ Len(table.file[i].data) <= Room.file
                       /\ \A j \in DOMAIN table.file[i].data : table.file[i].data[j] \in Byte
                       /\ \A t \in Thread : (pc[t] = "store" /\ arg[t].k = "file" /\ arg[t].i = i)
                                               => arg[t].at = Len(table.file[i].data)
    BY DEF DataWhole
  <2>1. PICK d \in Seq(Byte) : d = table["file"][i].data /\ Len(d) <= Room.file
    BY DEF WInv, WholeNodes, WholeNode
  <2>2. \A j \in DOMAIN d : d[j] \in Byte
    OBVIOUS
  <2>3. \A t \in Thread : WritesFile(t, i) /\ pc[t] = "store" => arg[t].at = Len(d)
    BY <2>1 DEF WInv, Turns, RoomKnown
  <2>. QED
    BY <2>1, <2>2, <2>3 DEF WritesFile
<1>. QED
  BY <1>1, <1>2, <1>3, PTL DEF Spec
=============================================================================
