--------------------------- MODULE ObjectManager ----------------------------
(***************************************************************************)
(* The object manager (object_manager.cpp): objects with a reference       *)
(* count, a table of handles and a namespace.  An object dies when its     *)
(* last reference goes; the heap does not give its memory to others.       *)
(*                                                                         *)
(* It is used at boot by one thread, so that calls do not overlap.  The    *)
(* caller gives back only references that it holds.                        *)
(***************************************************************************)
EXTENDS Integers, FiniteSets

CONSTANTS
  Object,    \* the objects that the heap has room for
  Type,      \* registered types
  Name,      \* what fits in ObjectHeader.Name
  LongPath,  \* paths that do not, but fit in NamespaceEntry.Path
  Cut,       \* what the header keeps of a long path
  Handles,   \* OB_HANDLE_TABLE_SIZE
  Entries,   \* OB_NAMESPACE_SIZE
  MaxRefs,   \* bound on the references the caller holds to an object
  NULL,      \* null
  Careful    \* a path names one living object, and is the name in its header

Path == Name \cup LongPath

Handle == 1 .. Handles

ObjectManagerAssumption ==
  /\ Handles \in Nat /\ Entries \in Nat /\ MaxRefs \in Nat
  /\ NULL \notin Object \cup Type \cup Path
  /\ Name \cap LongPath = {}
  /\ Cut \in [LongPath -> Name]

VARIABLES
  header,      \* the headers of the objects allocated so far
  handles,     \* the handle table
  namespace,   \* the entries of the namespace that are in use
  held         \* the references that the caller holds

vars == <<header, handles, namespace, held>>

NoObject == [alive |-> FALSE, type |-> NULL, refs |-> 0, handles |-> 0, name |-> NULL]

Init ==
  /\ header = [o \in {} |-> NoObject]
  /\ handles = [h \in Handle |-> NULL]
  /\ namespace = {}
  /\ held = [o \in Object |-> 0]

Alive(o) == o \in DOMAIN header /\ header[o].alive

Holds(o) == Alive(o) /\ held[o] > 0

Named(p) == {e \in namespace : e.path = p}

\* str_copy into ObjectHeader.Name.
Stored(p) == IF p \in LongPath THEN Cut[p] ELSE p

\* What a careful caller asks of the name of a new object.
Unused(p) == p \notin LongPath /\ \A o \in DOMAIN header : header[o].name # p \/ ~Alive(o)
-----------------------------------------------------------------------------
\* InsertObjectByName: the namespace after it, changed if the name is new and
\* there is room.
WithName(o, p) ==
  IF Named(p) = {} /\ Cardinality(namespace) < Entries
  THEN namespace \cup {[path |-> p, object |-> o]}
  ELSE namespace

InsertObjectByName(o, p) ==
  /\ Holds(o)
  /\ Careful => p = header[o].name
  /\ namespace' = WithName(o, p)
  /\ UNCHANGED <<header, handles, held>>

RemoveObjectByName(p) ==
  /\ namespace' = namespace \ Named(p)
  /\ UNCHANGED <<header, handles, held>>

\* A new object has one reference, its creator's.
New(o, type, name) ==
  /\ o \notin DOMAIN header
  /\ header' = [x \in DOMAIN header \cup {o} |->
       IF x = o
       THEN [alive |-> TRUE, type |-> type, refs |-> 1, handles |-> 0, name |-> name]
       ELSE header[x]]
  /\ held' = [held EXCEPT ![o] = 1]

AllocateObject(o, type, p) ==
  /\ New(o, type, IF p = NULL THEN NULL ELSE Stored(p))
  /\ Careful => p = NULL \/ Unused(p)
  /\ namespace' = IF p = NULL THEN namespace ELSE WithName(o, p)
  /\ UNCHANGED handles

\* The name is kept, but not entered in the namespace.
AllocateObjectRaw(o, p) ==
  /\ New(o, NULL, IF p = NULL THEN NULL ELSE Stored(p))
  /\ Careful => p = NULL \/ Unused(p)
  /\ UNCHANGED <<handles, namespace>>
-----------------------------------------------------------------------------
\* Mutant: a dead object leaves its name behind.
NameLeft(o) == namespace

\* Mutant: the name of an object that is still referenced goes as well.
DropEarly(o, hs) ==
  LET refs == header[o].refs - 1
  IN /\ header' = [header EXCEPT ![o].refs = refs,
                                 ![o].handles = @ - hs,
                                 ![o].alive = refs > 0]
     /\ namespace' = IF header[o].name = NULL THEN namespace
                     ELSE namespace \ Named(header[o].name)

NameDropped(o) == namespace \ Named(header[o].name)

(***************************************************************************)
(* Dropping a reference, from the handle table too if hs is 1.  With the   *)
(* last one the object loses its name and dies.                            *)
(***************************************************************************)
Drop(o, hs) ==
  LET refs == header[o].refs - 1
  IN /\ header' = [header EXCEPT ![o].refs = refs,
                                 ![o].handles = @ - hs,
                                 ![o].alive = refs > 0]
     /\ namespace' = IF refs > 0 \/ header[o].name = NULL THEN namespace
                     ELSE NameDropped(o)

ReferenceObject(o) ==
  /\ Holds(o)
  /\ held[o] < MaxRefs
  /\ header' = [header EXCEPT ![o].refs = @ + 1]
  /\ held' = [held EXCEPT ![o] = @ + 1]
  /\ UNCHANGED <<handles, namespace>>

DereferenceObject(o) ==
  /\ Holds(o)
  /\ held' = [held EXCEPT ![o] = @ - 1]
  /\ Drop(o, 0)
  /\ UNCHANGED handles

\* Mutant: the handle has no reference of its own.
HandleCounted(o) == [header EXCEPT ![o].handles = @ + 1]

WithHandle(o) == [header EXCEPT ![o].handles = @ + 1, ![o].refs = @ + 1]

Lookup(h) == handles[h] # NULL

\* The lowest entry that is empty.
Alloc(h) == ~Lookup(h) /\ \A i \in 1 .. h - 1 : Lookup(i)

InsertObject(o) ==
  /\ Holds(o)
  /\ \E h \in Handle : Alloc(h) /\ handles' = [handles EXCEPT ![h] = o]
  /\ header' = WithHandle(o)
  /\ UNCHANGED <<namespace, held>>

CloseHandle(h) ==
  /\ Lookup(h)
  /\ handles' = [handles EXCEPT ![h] = NULL]
  /\ Drop(handles[h], 1)
  /\ UNCHANGED held

\* A live object of the type asked for, if one is, gets another reference.
Found(o, type) ==
  /\ Alive(o)
  /\ type \in {NULL, header[o].type}
  /\ held[o] < MaxRefs
  /\ header' = [header EXCEPT ![o].refs = @ + 1]
  /\ held' = [held EXCEPT ![o] = @ + 1]
  /\ UNCHANGED <<handles, namespace>>

ReferenceObjectByHandle(h, type) == Lookup(h) /\ Found(handles[h], type)

LookupObjectByName(p, type) == \E e \in Named(p) : Found(e.object, type)
-----------------------------------------------------------------------------
Next ==
  \/ \E o \in Object :
       \/ \E type \in Type, p \in Path \cup {NULL} : AllocateObject(o, type, p)
       \/ \E p \in Path \cup {NULL} : AllocateObjectRaw(o, p)
       \/ \E p \in Path : InsertObjectByName(o, p)
       \/ ReferenceObject(o)
       \/ DereferenceObject(o)
       \/ InsertObject(o)
  \/ \E p \in Path :
       \/ RemoveObjectByName(p)
       \/ \E type \in Type \cup {NULL} : LookupObjectByName(p, type)
  \/ \E h \in Handle :
       \/ CloseHandle(h)
       \/ \E type \in Type \cup {NULL} : ReferenceObjectByHandle(h, type)

Spec == Init /\ [][Next]_vars
-----------------------------------------------------------------------------
\* Every variable holds a value of its kind, within the tables' sizes.
TypeOK ==
  /\ DOMAIN header \subseteq Object
  /\ \A o \in DOMAIN header :
       header[o] \in [alive : BOOLEAN, type : Type \cup {NULL}, refs : Nat,
                      handles : Nat, name : Name \cup {NULL}]
  /\ handles \in [Handle -> Object \cup {NULL}]
  /\ namespace \subseteq [path : Path, object : Object]
  /\ Cardinality(namespace) <= Entries
  /\ held \in [Object -> Nat]

\* Every variable holds a value of its kind, the tables stay within their
\* sizes, and every reference is accounted for: an object has as many as the caller holds
\* and the handle table has entries for it, it is alive just as long, and so
\* no handle leads to a dead object (InsertObject, CloseHandle, Drop).
RefsAccounted ==
  /\ TypeOK
  /\ \A o \in DOMAIN header :
       LET entries == Cardinality({h \in Handle : handles[h] = o})
       IN /\ header[o].handles = entries
          /\ header[o].refs = held[o] + entries
          /\ header[o].alive <=> header[o].refs > 0

\* "Remove from namespace if named" (object_manager.cpp:225): a dead object has
\* no name, so that its path can be given to another one.
NamesOfLiving == \A e \in namespace : Alive(e.object)

\* A live object keeps its name until someone removes that name: the death of
\* one object takes no name from another.
NamesKept ==
  [][\A e \in namespace : e \notin namespace' =>
       ~Alive(e.object)' \/ \E p \in {e.path} : RemoveObjectByName(p)]_vars
=============================================================================
