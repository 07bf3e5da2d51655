---------------------------- MODULE ObjectsProofs ---------------------------
(***************************************************************************)
(* Theorems about the object manager for any number of objects, and any    *)
(* sizes of the handle table and the namespace, and about the end of       *)
(* processes and the waits for it, for any number of them and of threads.  *)
(***************************************************************************)
EXTENDS Objects, FiniteSetTheorems, SequenceTheorems, TLAPS

Header == [alive : BOOLEAN, type : Type \cup {NULL}, refs : Nat, handles : Nat,
           name : ObjectName \cup {NULL}]

\* The handles that lead to o.
HandlesOf(o) == {h \in O!Handle : handles[h] = o}

(***************************************************************************)
(* The inductive invariant of the references.  A new object must not find  *)
(* references that were made before it, so nothing refers to what has not  *)
(* been allocated yet.                                                     *)
(***************************************************************************)
KindsOK ==
  /\ DOMAIN header \subseteq Object
  /\ header \in [DOMAIN header -> Header]
  /\ handles \in [O!Handle -> Object \cup {NULL}]
  /\ namespace \subseteq [path : O!Path, object : Object]
  /\ IsFiniteSet(namespace)
  /\ Cardinality(namespace) <= Entries
  /\ held \in [Object -> Nat]

Counted(o) ==
  /\ header[o].handles = Cardinality(HandlesOf(o))
  /\ header[o].refs = held[o] + Cardinality(HandlesOf(o))
  /\ header[o].alive <=> header[o].refs > 0

NothingBefore ==
  \A o \in Object \ DOMAIN header : held[o] = 0 /\ \A h \in O!Handle : handles[h] # o

RInv ==
  /\ KindsOK
  /\ \A o \in DOMAIN header : Counted(o)
  /\ NothingBefore

(***************************************************************************)
(* The inductive invariant of the names, of a careful caller: what is in   *)
(* the namespace is the name of a living object, and living objects have   *)
(* different names, so that a dying one takes only its own away.           *)
(***************************************************************************)
EntriesAreNames ==
  \A e \in namespace : O!Alive(e.object) /\ header[e.object].name = e.path

NamesDiffer ==
  \A a, b \in DOMAIN header :
    O!Alive(a) /\ O!Alive(b) /\ header[a].name = header[b].name /\ header[a].name # NULL => a = b

NInv == RInv /\ EntriesAreNames /\ NamesDiffer

-----------------------------------------------------------------------------
LEMMA TablesFact ==
  /\ Handles \in Nat /\ Entries \in Nat /\ MaxRefs \in Nat
  /\ NULL \notin Object \cup Type \cup O!Path
  /\ ObjectName \cap LongPath = {}
  /\ Cut \in [LongPath -> ObjectName]
BY ObjectsAssumption DEF O!ObjectManagerAssumption

\* The instance has a Cardinality of its own.
LEMMA SameCount ==
  ASSUME NEW S
  PROVE  O!Cardinality(S) = Cardinality(S)
BY DEF O!Cardinality, Cardinality

LEMMA HandlesFinite ==
  ASSUME NEW o
  PROVE  IsFiniteSet(HandlesOf(o)) /\ Cardinality(HandlesOf(o)) \in Nat
<1>1. Handles \in Int /\ HandlesOf(o) \in SUBSET (1 .. Handles)
  BY TablesFact DEF HandlesOf, O!Handle
<1>2. IsFiniteSet(1 .. Handles)
  BY <1>1, FS_Interval
<1>. QED
  BY <1>1, <1>2, FS_Subset, FS_CardinalityType

\* A name is entered only while there is room, and only once.
LEMMA WithNameFits ==
  ASSUME KindsOK, NEW o \in Object, NEW p \in O!Path
  PROVE  /\ O!WithName(o, p) \subseteq [path : O!Path, object : Object]
         /\ IsFiniteSet(O!WithName(o, p)) /\ Cardinality(O!WithName(o, p)) <= Entries
         /\ namespace \subseteq O!WithName(o, p)
         /\ \A e \in O!WithName(o, p) : e \in namespace \/ (e.path = p /\ e.object = o)
<1> DEFINE e == [path |-> p, object |-> o]
<1>1. /\ IsFiniteSet(namespace) /\ namespace \subseteq [path : O!Path, object : Object]
      /\ Cardinality(namespace) \in Nat /\ Cardinality(namespace) <= Entries
  BY FS_CardinalityType DEF KindsOK
<1>2. CASE O!Named(p) = {} /\ Cardinality(namespace) < Entries
  <2>1. O!WithName(o, p) = namespace \cup {e}
    BY <1>2, SameCount DEF O!WithName
  <2>2. /\ IsFiniteSet(namespace \cup {e})
        /\ \/ Cardinality(namespace \cup {e}) = Cardinality(namespace)
           \/ Cardinality(namespace \cup {e}) = Cardinality(namespace) + 1
    BY <1>1, FS_AddElement
  <2>. QED
    BY <1>1, <1>2, <2>1, <2>2, TablesFact
<1>3. CASE ~(O!Named(p) = {} /\ Cardinality(namespace) < Entries)
  BY <1>1, <1>3, SameCount DEF O!WithName
<1>. QED
  BY <1>2, <1>3

LEMMA FewerNamesFit ==
  ASSUME KindsOK, NEW S, S \subseteq namespace
  PROVE  S \subseteq [path : O!Path, object : Object] /\ IsFiniteSet(S) /\ Cardinality(S) <= Entries
<1>1. IsFiniteSet(S) /\ Cardinality(S) <= Cardinality(namespace)
  BY FS_Subset DEF KindsOK
<1>2. Cardinality(S) \in Nat /\ Cardinality(namespace) \in Nat
  BY <1>1, FS_CardinalityType DEF KindsOK
<1>. QED
  BY <1>1, <1>2, TablesFact DEF KindsOK

\* Drop writes the counts of one object, and whether it lives on.
LEMMA DropWrites ==
  ASSUME KindsOK, NEW o \in DOMAIN header, NEW hs \in {0, 1}, O!Drop(o, hs),
         header[o].refs > 0, header[o].handles >= hs
  PROVE  /\ DOMAIN header' = DOMAIN header
         /\ header' \in [DOMAIN header' -> Header]
         /\ header'[o].refs = header[o].refs - 1
         /\ header'[o].handles = header[o].handles - hs
         /\ header'[o].alive <=> header[o].refs - 1 > 0
         /\ header'[o].name = header[o].name
         /\ \A a \in DOMAIN header : a # o => header'[a] = header[a]
<1> DEFINE n == header[o].refs - 1
           k == header[o].handles - hs
           b == n > 0
           r == [header[o] EXCEPT !.refs = n, !.handles = k, !.alive = b]
<1>1. header \in [DOMAIN header -> Header] /\ header[o] \in Header
  BY DEF KindsOK
<1>2. n \in Nat /\ k \in Nat /\ b \in BOOLEAN
  BY <1>1 DEF Header
<1>3. header' = [header EXCEPT ![o] = r]
  BY DEF O!Drop
<1> HIDE DEF n, k, b
<1>4. r \in Header /\ r.refs = n /\ r.handles = k /\ (r.alive <=> b) /\ r.name = header[o].name
  BY <1>1, <1>2 DEF Header
<1> HIDE DEF r
<1>5. /\ DOMAIN header' = DOMAIN header /\ header' \in [DOMAIN header' -> Header]
      /\ header'[o] = r /\ \A a \in DOMAIN header : a # o => header'[a] = header[a]
  BY <1>1, <1>3, <1>4
<1>. QED
  BY <1>4, <1>5 DEF n, k, b

\* A reference more, counted for a handle too if hs is 1, writes nothing else.
LEMMA ReferenceWrites ==
  ASSUME KindsOK, NEW o \in DOMAIN header, NEW hs \in {0, 1},
         header' = IF hs = 1 THEN O!WithHandle(o) ELSE [header EXCEPT ![o].refs = @ + 1]
  PROVE  /\ DOMAIN header' = DOMAIN header
         /\ header' \in [DOMAIN header' -> Header]
         /\ header'[o].refs = header[o].refs + 1
         /\ header'[o].handles = header[o].handles + hs
         /\ header'[o].alive <=> header[o].alive
         /\ header'[o].name = header[o].name
         /\ \A a \in DOMAIN header : a # o => header'[a] = header[a]
<1> DEFINE n == header[o].refs + 1
           k == header[o].handles + hs
           r == [header[o] EXCEPT !.refs = n, !.handles = k]
<1>1. header \in [DOMAIN header -> Header] /\ header[o] \in Header
  BY DEF KindsOK
<1>2. n \in Nat /\ k \in Nat /\ (hs = 0 => k = header[o].handles)
  BY <1>1 DEF Header
<1>3. header' = [header EXCEPT ![o] = r]
  <2>1. CASE hs = 1
    BY <2>1, <1>1 DEF O!WithHandle, Header
  <2>2. CASE hs = 0
    <3>1. header' = [header EXCEPT ![o] = [header[o] EXCEPT !.refs = n]]
      BY <2>2
    <3>2. [header[o] EXCEPT !.refs = n] = r
      BY <1>1, <1>2, <2>2 DEF Header
    <3>. QED
      BY <3>1, <3>2
  <2>. QED
    BY <2>1, <2>2
<1> HIDE DEF n, k
<1>4. /\ r \in Header /\ r.refs = n /\ r.handles = k
      /\ (r.alive <=> header[o].alive) /\ r.name = header[o].name
  BY <1>1, <1>2 DEF Header
<1> HIDE DEF r
<1>5. /\ DOMAIN header' = DOMAIN header /\ header' \in [DOMAIN header' -> Header]
      /\ header'[o] = r /\ \A a \in DOMAIN header : a # o => header'[a] = header[a]
  BY <1>1, <1>3, <1>4
<1>. QED
  BY <1>4, <1>5 DEF n, k

-----------------------------------------------------------------------------
LEMMA InitRInv == O!Init => RInv
<1> SUFFICES ASSUME O!Init
             PROVE  RInv
  OBVIOUS
<1>1. DOMAIN header = {} /\ header \in [DOMAIN header -> Header]
  BY DEF O!Init
<1>2. KindsOK
  BY <1>1, FS_EmptySet, TablesFact DEF O!Init, KindsOK
<1>3. NothingBefore
  BY TablesFact DEF O!Init, NothingBefore
<1>. QED
  BY <1>1, <1>2, <1>3 DEF RInv

\* A new object begins with its creator's reference and no other.
LEMMA NewRInv ==
  ASSUME RInv, NEW o \in Object, NEW type \in Type \cup {NULL}, NEW name \in ObjectName \cup {NULL},
         O!New(o, type, name), UNCHANGED handles,
         namespace' \subseteq [path : O!Path, object : Object], IsFiniteSet(namespace'),
         Cardinality(namespace') <= Entries
  PROVE  RInv'
<1> DEFINE r == [alive |-> TRUE, type |-> type, refs |-> 1, handles |-> 0, name |-> name]
<1>1. KindsOK /\ NothingBefore
  BY DEF RInv
<1>2. /\ o \notin DOMAIN header
      /\ header' = [x \in DOMAIN header \cup {o} |-> IF x = o THEN r ELSE header[x]]
      /\ held' = [held EXCEPT ![o] = 1]
  BY DEF O!New
<1>3. r \in Header /\ r.refs = 1 /\ r.handles = 0 /\ r.alive
  BY DEF Header
<1> HIDE DEF r
<1>4. /\ DOMAIN header' = DOMAIN header \cup {o} /\ header' \in [DOMAIN header' -> Header]
      /\ header'[o] = r /\ \A a \in DOMAIN header : header'[a] = header[a]
  BY <1>1, <1>2, <1>3 DEF KindsOK
<1>5. KindsOK'
  BY <1>1, <1>2, <1>4 DEF KindsOK
<1>6. \A a : HandlesOf(a)' = HandlesOf(a)
  BY DEF HandlesOf
<1>7. Counted(o)'
  <2>1. HandlesOf(o)' = {}
    BY <1>1, <1>2, <1>6 DEF NothingBefore, HandlesOf
  <2>. QED
    BY <1>1, <1>2, <1>3, <1>4, <2>1, FS_EmptySet DEF Counted, KindsOK
<1>8. ASSUME NEW a \in DOMAIN header
      PROVE  Counted(a)'
  <2>1. held'[a] = held[a] /\ header'[a] = header[a]
    BY <1>1, <1>2, <1>4 DEF KindsOK
  <2>. QED
    BY <1>6, <2>1 DEF RInv, Counted
<1>9. NothingBefore'
  BY <1>1, <1>2, <1>4 DEF NothingBefore, KindsOK
<1>. QED
  BY <1>4, <1>5, <1>7, <1>8, <1>9 DEF RInv

\* A reference that the caller takes or gives back, the handles staying as they are.
LEMMA HeldRInv ==
  ASSUME RInv, NEW o \in DOMAIN header, NEW n \in Nat, UNCHANGED handles,
         DOMAIN header' = DOMAIN header, header' \in [DOMAIN header' -> Header],
         held' = [held EXCEPT ![o] = n],
         header'[o].refs = n + Cardinality(HandlesOf(o)),
         header'[o].handles = header[o].handles,
         header'[o].alive <=> header'[o].refs > 0,
         \A a \in DOMAIN header : a # o => header'[a] = header[a],
         namespace' \subseteq [path : O!Path, object : Object], IsFiniteSet(namespace'),
         Cardinality(namespace') <= Entries
  PROVE  RInv'
<1>1. KindsOK /\ NothingBefore
  BY DEF RInv
<1>2. KindsOK'
  BY <1>1 DEF KindsOK
<1>3. \A a : HandlesOf(a)' = HandlesOf(a)
  BY DEF HandlesOf
<1>4. Counted(o)'
  BY <1>1, <1>3 DEF RInv, KindsOK, Counted
<1>5. ASSUME NEW a \in DOMAIN header, a # o
      PROVE  Counted(a)'
  <2>1. held'[a] = held[a]
    BY <1>1, <1>5 DEF KindsOK
  <2>. QED
    BY <1>3, <1>5, <2>1 DEF RInv, Counted
<1>6. NothingBefore'
  BY <1>1 DEF NothingBefore, KindsOK
<1>. QED
  BY <1>2, <1>4, <1>5, <1>6 DEF RInv

LEMMA ReferenceRInv ==
  ASSUME RInv, NEW o \in Object, O!Alive(o), header' = [header EXCEPT ![o].refs = @ + 1],
         held' = [held EXCEPT ![o] = @ + 1], UNCHANGED <<handles, namespace>>
  PROVE  RInv'
<1>1. KindsOK /\ o \in DOMAIN header /\ Counted(o) /\ Cardinality(HandlesOf(o)) \in Nat
  BY HandlesFinite DEF RInv, O!Alive
<1>2. /\ DOMAIN header' = DOMAIN header
      /\ header' \in [DOMAIN header' -> Header]
      /\ header'[o].refs = header[o].refs + 1
      /\ header'[o].handles = header[o].handles + 0
      /\ header'[o].alive <=> header[o].alive
      /\ \A a \in DOMAIN header : a # o => header'[a] = header[a]
  <2>1. header' = IF 0 = 1 THEN O!WithHandle(o) ELSE [header EXCEPT ![o].refs = @ + 1]
    OBVIOUS
  <2>. QED
    BY <1>1, <2>1, ReferenceWrites
<1>3. /\ header[o].refs \in Nat /\ header[o].handles \in Nat /\ header[o].refs > 0
      /\ held[o] \in Nat
  BY <1>1 DEF KindsOK, Header, O!Alive, Counted
<1>4. /\ held' = [held EXCEPT ![o] = held[o] + 1]
      /\ header'[o].refs = (held[o] + 1) + Cardinality(HandlesOf(o))
      /\ header'[o].handles = header[o].handles
      /\ header'[o].alive <=> header'[o].refs > 0
  <2>1. header[o].refs = held[o] + Cardinality(HandlesOf(o)) /\ header[o].alive
    BY <1>1 DEF O!Alive, Counted
  <2>2. held' = [held EXCEPT ![o] = held[o] + 1]
    OBVIOUS
  <2>3. header'[o].alive /\ header'[o].refs > 0
    BY <1>2, <1>3, <2>1
  <2>. QED
    BY <1>1, <1>2, <1>3, <2>1, <2>2, <2>3
<1>5. /\ namespace' \subseteq [path : O!Path, object : Object] /\ IsFiniteSet(namespace')
      /\ Cardinality(namespace') <= Entries /\ held[o] + 1 \in Nat
  BY <1>1, <1>3 DEF KindsOK
<1>. QED
  BY <1>1, <1>2, <1>4, <1>5, HeldRInv

LEMMA DropNames ==
  ASSUME NEW o, NEW hs, O!Drop(o, hs)
  PROVE  namespace' \subseteq namespace
BY DEF O!Drop, O!NameDropped

LEMMA DereferenceRInv ==
  ASSUME RInv, NEW o \in Object, O!DereferenceObject(o)
  PROVE  RInv'
<1>1. /\ KindsOK /\ o \in DOMAIN header /\ Counted(o) /\ Cardinality(HandlesOf(o)) \in Nat
      /\ held[o] > 0 /\ O!Drop(o, 0) /\ held' = [held EXCEPT ![o] = held[o] - 1]
      /\ UNCHANGED handles
  BY HandlesFinite DEF RInv, O!DereferenceObject, O!Holds, O!Alive
<1>2. held[o] - 1 \in Nat /\ header[o].refs > 0 /\ header[o].handles \in Nat
  BY <1>1 DEF Counted, KindsOK, Header
<1>3. /\ DOMAIN header' = DOMAIN header
      /\ header' \in [DOMAIN header' -> Header]
      /\ header'[o].refs = header[o].refs - 1
      /\ header'[o].handles = header[o].handles - 0
      /\ header'[o].alive <=> header[o].refs - 1 > 0
      /\ \A a \in DOMAIN header : a # o => header'[a] = header[a]
  BY <1>1, <1>2, DropWrites
<1>4. /\ namespace' \subseteq [path : O!Path, object : Object] /\ IsFiniteSet(namespace')
      /\ Cardinality(namespace') <= Entries
  BY <1>1, DropNames, FewerNamesFit
<1>5. /\ header'[o].refs = (held[o] - 1) + Cardinality(HandlesOf(o))
      /\ header'[o].handles = header[o].handles
      /\ header'[o].alive <=> header'[o].refs > 0
  BY <1>1, <1>2, <1>3 DEF Counted, KindsOK
<1>. QED
  BY <1>1, <1>2, <1>3, <1>4, <1>5, HeldRInv

\* A handle brings its own reference.
LEMMA InsertRInv ==
  ASSUME RInv, NEW o \in Object, O!InsertObject(o)
  PROVE  RInv'
<1>1. KindsOK /\ NothingBefore /\ o \in DOMAIN header /\ Counted(o)
  BY DEF RInv, O!InsertObject, O!Holds, O!Alive
<1>2. PICK h \in O!Handle : handles[h] = NULL /\ handles' = [handles EXCEPT ![h] = o]
  BY DEF O!InsertObject, O!Alloc, O!Lookup
<1>3. /\ DOMAIN header' = DOMAIN header
      /\ header' \in [DOMAIN header' -> Header]
      /\ header'[o].refs = header[o].refs + 1
      /\ header'[o].handles = header[o].handles + 1
      /\ header'[o].alive <=> header[o].alive
      /\ \A a \in DOMAIN header : a # o => header'[a] = header[a]
  BY <1>1, ReferenceWrites DEF O!InsertObject
<1>4. UNCHANGED <<held, namespace>>
  BY DEF O!InsertObject
<1>5. KindsOK'
  BY <1>1, <1>2, <1>3, <1>4 DEF KindsOK
<1>6. Counted(o)'
  <2>1. HandlesOf(o)' = HandlesOf(o) \cup {h} /\ h \notin HandlesOf(o)
    BY <1>1, <1>2, TablesFact DEF HandlesOf, KindsOK
  <2>2. /\ Cardinality(HandlesOf(o)') = Cardinality(HandlesOf(o)) + 1
        /\ Cardinality(HandlesOf(o)) \in Nat
    BY <2>1, HandlesFinite, FS_AddElement
  <2>3. header[o].alive /\ header[o].refs \in Nat /\ header[o].handles \in Nat /\ held[o] \in Nat
    BY <1>1 DEF O!InsertObject, O!Holds, O!Alive, KindsOK, Header
  <2>. QED
    BY <1>1, <1>3, <1>4, <2>2, <2>3 DEF Counted
<1>7. ASSUME NEW a \in DOMAIN header, a # o
      PROVE  Counted(a)'
  <2>1. HandlesOf(a)' = HandlesOf(a)
    BY <1>1, <1>2, <1>7, TablesFact DEF HandlesOf, KindsOK
  <2>. QED
    BY <1>3, <1>4, <1>7, <2>1 DEF RInv, Counted
<1>8. NothingBefore'
  BY <1>1, <1>2, <1>3, <1>4 DEF NothingBefore, KindsOK
<1>. QED
  BY <1>3, <1>5, <1>6, <1>7, <1>8 DEF RInv

\* A handle takes its own reference with it.
LEMMA CloseRInv ==
  ASSUME RInv, NEW h \in O!Handle, NEW o, handles[h] = o, O!CloseHandle(h)
  PROVE  RInv'
<1>1. /\ KindsOK /\ NothingBefore /\ o # NULL /\ O!Drop(o, 1)
      /\ handles' = [handles EXCEPT ![h] = NULL] /\ UNCHANGED held
  BY DEF RInv, O!CloseHandle, O!Lookup
<1>2. o \in Object /\ o \in DOMAIN header /\ Counted(o)
  BY <1>1 DEF RInv, KindsOK, NothingBefore
<1>3. h \in HandlesOf(o)
  BY DEF HandlesOf
<1>4. /\ Cardinality(HandlesOf(o)) \in Nat /\ Cardinality(HandlesOf(o)) > 0
      /\ Cardinality(HandlesOf(o) \ {h}) = Cardinality(HandlesOf(o)) - 1
  BY <1>3, HandlesFinite, FS_RemoveElement, FS_EmptySet
<1>5. /\ header[o].refs \in Nat /\ header[o].handles \in Nat /\ held[o] \in Nat
      /\ header[o].refs > 0 /\ header[o].handles >= 1
  BY <1>1, <1>2, <1>4 DEF Counted, KindsOK, Header
<1>6. /\ DOMAIN header' = DOMAIN header
      /\ header' \in [DOMAIN header' -> Header]
      /\ header'[o].refs = header[o].refs - 1
      /\ header'[o].handles = header[o].handles - 1
      /\ header'[o].alive <=> header[o].refs - 1 > 0
      /\ \A a \in DOMAIN header : a # o => header'[a] = header[a]
  BY <1>1, <1>2, <1>5, DropWrites
<1>7. /\ namespace' \subseteq [path : O!Path, object : Object] /\ IsFiniteSet(namespace')
      /\ Cardinality(namespace') <= Entries
  BY <1>1, DropNames, FewerNamesFit
<1>8. KindsOK'
  BY <1>1, <1>6, <1>7 DEF KindsOK
<1>9. Counted(o)'
  <2>1. HandlesOf(o)' = HandlesOf(o) \ {h}
    BY <1>1, <1>2, TablesFact DEF HandlesOf, KindsOK
  <2>. QED
    BY <1>1, <1>2, <1>4, <1>5, <1>6, <2>1 DEF Counted
<1>10. ASSUME NEW a \in DOMAIN header, a # o
       PROVE  Counted(a)'
  <2>1. HandlesOf(a)' = HandlesOf(a)
    BY <1>1, <1>10, TablesFact DEF HandlesOf, KindsOK
  <2>. QED
    BY <1>1, <1>6, <1>10, <2>1 DEF RInv, Counted
<1>11. NothingBefore'
  BY <1>1, <1>6, TablesFact DEF NothingBefore, KindsOK
<1>. QED
  BY <1>6, <1>8, <1>9, <1>10, <1>11 DEF RInv

\* What changes nothing but the namespace.
LEMMA NamespaceRInv ==
  ASSUME RInv, UNCHANGED <<header, handles, held>>,
         namespace' \subseteq [path : O!Path, object : Object], IsFiniteSet(namespace'),
         Cardinality(namespace') <= Entries
  PROVE  RInv'
BY DEF RInv, KindsOK, Counted, HandlesOf, NothingBefore

LEMMA NextRInv == RInv /\ [O!Next]_(O!vars) => RInv'
<1> SUFFICES ASSUME RInv, [O!Next]_(O!vars)
             PROVE  RInv'
  OBVIOUS
<1> KindsOK
  BY DEF RInv
<1>1. ASSUME NEW o \in Object, NEW type \in Type, NEW p \in O!Path \cup {NULL},
             O!AllocateObject(o, type, p)
      PROVE  RInv'
  <2> DEFINE name == IF p = NULL THEN NULL ELSE O!Stored(p)
  <2>1. name \in ObjectName \cup {NULL}
    BY TablesFact DEF O!Stored, O!Path
  <2>2. O!New(o, type, name) /\ UNCHANGED handles
    BY <1>1 DEF O!AllocateObject
  <2>3. /\ namespace' \subseteq [path : O!Path, object : Object] /\ IsFiniteSet(namespace')
        /\ Cardinality(namespace') <= Entries
    BY <1>1, WithNameFits DEF O!AllocateObject, KindsOK
  <2> HIDE DEF name
  <2>. QED
    BY <2>1, <2>2, <2>3, NewRInv
<1>2. ASSUME NEW o \in Object, NEW p \in O!Path \cup {NULL}, O!AllocateObjectRaw(o, p)
      PROVE  RInv'
  <2> DEFINE name == IF p = NULL THEN NULL ELSE O!Stored(p)
  <2>1. name \in ObjectName \cup {NULL}
    BY TablesFact DEF O!Stored, O!Path
  <2>2. O!New(o, NULL, name) /\ UNCHANGED <<handles, namespace>>
    BY <1>2 DEF O!AllocateObjectRaw
  <2>3. /\ namespace' \subseteq [path : O!Path, object : Object] /\ IsFiniteSet(namespace')
        /\ Cardinality(namespace') <= Entries
    BY <2>2 DEF KindsOK
  <2> HIDE DEF name
  <2>. QED
    BY <2>1, <2>2, <2>3, NewRInv
<1>3. ASSUME NEW o \in Object, NEW p \in O!Path, O!InsertObjectByName(o, p)
      PROVE  RInv'
  BY <1>3, WithNameFits, NamespaceRInv DEF O!InsertObjectByName
<1>4. ASSUME NEW o \in Object, O!ReferenceObject(o)
      PROVE  RInv'
  BY <1>4, ReferenceRInv DEF O!ReferenceObject, O!Holds
<1>5. ASSUME NEW p \in O!Path, O!RemoveObjectByName(p)
      PROVE  RInv'
  BY <1>5, FewerNamesFit, NamespaceRInv DEF O!RemoveObjectByName
<1>6. ASSUME NEW o \in Object, NEW type, O!Found(o, type)
      PROVE  RInv'
  BY <1>6, ReferenceRInv DEF O!Found
<1>7. ASSUME NEW p \in O!Path, NEW type, O!LookupObjectByName(p, type)
      PROVE  RInv'
  <2>1. PICK e \in namespace : O!Found(e.object, type)
    BY <1>7 DEF O!LookupObjectByName, O!Named
  <2>2. e.object \in Object
    BY <2>1 DEF KindsOK
  <2>. QED
    BY <1>6, <2>1, <2>2
<1>8. ASSUME NEW h \in O!Handle, NEW type, O!ReferenceObjectByHandle(h, type)
      PROVE  RInv'
  <2>1. handles[h] \in Object /\ O!Found(handles[h], type)
    BY <1>8 DEF KindsOK, O!ReferenceObjectByHandle, O!Lookup
  <2>. QED
    BY <1>6, <2>1
<1>9. CASE UNCHANGED O!vars
  BY <1>9 DEF RInv, KindsOK, Counted, HandlesOf, NothingBefore, O!vars
<1>. QED
  BY <1>1, <1>2, <1>3, <1>4, <1>5, <1>7, <1>8, <1>9, DereferenceRInv, InsertRInv, CloseRInv
     DEF O!Next

-----------------------------------------------------------------------------
LEMMA InitNInv == O!Init => EntriesAreNames /\ NamesDiffer
BY DEF O!Init, EntriesAreNames, NamesDiffer

\* Steps that leave the names and the living as they are.
LEMMA SteadyNames ==
  ASSUME NInv, DOMAIN header' = DOMAIN header,
         \A a \in DOMAIN header :
           header'[a].name = header[a].name /\ (header'[a].alive <=> header[a].alive),
         \A e \in namespace' : \/ e \in namespace
                               \/ O!Alive(e.object) /\ header[e.object].name = e.path
  PROVE  EntriesAreNames' /\ NamesDiffer'
<1>1. EntriesAreNames'
  BY DEF NInv, EntriesAreNames, O!Alive
<1>2. NamesDiffer'
  BY DEF NInv, NamesDiffer, O!Alive
<1>. QED
  BY <1>1, <1>2

\* A careful caller gives a new object a name that no living object has.
LEMMA NewNames ==
  ASSUME NInv, NEW o \in Object, NEW type, NEW p \in O!Path \cup {NULL}, p = NULL \/ O!Unused(p),
         O!New(o, type, IF p = NULL THEN NULL ELSE O!Stored(p)),
         \A e \in namespace' : e \in namespace \/ (p # NULL /\ e.path = p /\ e.object = o)
  PROVE  EntriesAreNames' /\ NamesDiffer'
<1>1. O!Stored(p) = p \/ p = NULL
  BY DEF O!Unused, O!Stored
<1>2. /\ o \notin DOMAIN header /\ DOMAIN header' = DOMAIN header \cup {o}
      /\ header'[o].alive /\ header'[o].name = p
      /\ \A a \in DOMAIN header : header'[a] = header[a]
  BY <1>1 DEF O!New
<1>3. EntriesAreNames'
  BY <1>2 DEF NInv, EntriesAreNames, O!Alive
<1>4. \A a \in DOMAIN header : O!Alive(a) /\ p # NULL => header[a].name # p
  BY DEF O!Unused
<1>5. NamesDiffer'
  BY <1>2, <1>4 DEF NInv, NamesDiffer, O!Alive
<1>. QED
  BY <1>3, <1>5

\* An object that dies takes its own name along, and no other.
LEMMA DropNamesOwn ==
  ASSUME NInv, NEW o \in DOMAIN header, NEW hs \in {0, 1}, O!Drop(o, hs),
         header[o].refs > 0, header[o].handles >= hs
  PROVE  /\ EntriesAreNames' /\ NamesDiffer'
         /\ \A e \in namespace : e \notin namespace' => ~O!Alive(e.object)'
<1>1. KindsOK /\ header[o].alive /\ O!Alive(o)
  BY DEF NInv, RInv, Counted, O!Alive
<1>2. /\ DOMAIN header' = DOMAIN header
      /\ header'[o].alive <=> header[o].refs - 1 > 0
      /\ header'[o].name = header[o].name
      /\ \A a \in DOMAIN header : a # o => header'[a] = header[a]
  BY <1>1, DropWrites
<1>3. CASE header[o].refs - 1 > 0
  <2>1. namespace' = namespace
    BY <1>3 DEF O!Drop
  <2>2. EntriesAreNames' /\ NamesDiffer'
    BY <1>1, <1>2, <1>3, <2>1, SteadyNames
  <2>. QED
    BY <2>1, <2>2
<1>4. CASE ~(header[o].refs - 1 > 0)
  <2>1. namespace' = IF header[o].name = NULL THEN namespace
                     ELSE namespace \ O!Named(header[o].name)
    BY <1>4 DEF O!Drop, O!NameDropped
  <2>2. ASSUME NEW e \in namespace'
        PROVE  e \in namespace /\ e.object # o
    <3>1. e \in namespace
      BY <2>1
    <3>2. e.path # NULL /\ (e.object = o => e.path = header[o].name)
      BY <1>1, <3>1, TablesFact DEF NInv, EntriesAreNames, KindsOK
    <3>. QED
      BY <2>1, <3>1, <3>2 DEF O!Named
  <2>3. EntriesAreNames'
    BY <1>2, <2>2 DEF NInv, EntriesAreNames, O!Alive
  <2>4. NamesDiffer'
    BY <1>2, <1>4 DEF NInv, NamesDiffer, O!Alive
  <2>5. ASSUME NEW e \in namespace, e \notin namespace'
        PROVE  e.object = o
    <3>1. header[o].name # NULL /\ e.path = header[o].name
      BY <2>1, <2>5 DEF O!Named
    <3>2. O!Alive(e.object) /\ header[e.object].name = e.path
      BY DEF NInv, EntriesAreNames
    <3>. QED
      BY <1>1, <3>1, <3>2 DEF NInv, NamesDiffer, O!Alive
  <2>. QED
    BY <1>2, <1>4, <2>3, <2>4, <2>5 DEF O!Alive
<1>. QED
  BY <1>3, <1>4

\* What a step may do to the names: keep the invariant, and take away none but
\* that of an object that dies, or the one that RemoveObjectByName asks for.
NamesStep ==
  /\ EntriesAreNames' /\ NamesDiffer'
  /\ \A e \in namespace : e \notin namespace' =>
       ~O!Alive(e.object)' \/ \E p \in {e.path} : O!RemoveObjectByName(p)

LEMMA FoundNames ==
  ASSUME NInv, NEW o, O!Alive(o), header' = [header EXCEPT ![o].refs = @ + 1],
         namespace' = namespace
  PROVE  NamesStep
<1>1. KindsOK /\ o \in DOMAIN header
  BY DEF NInv, RInv, O!Alive
<1>2. /\ DOMAIN header' = DOMAIN header
      /\ (header'[o].alive <=> header[o].alive) /\ header'[o].name = header[o].name
      /\ \A a \in DOMAIN header : a # o => header'[a] = header[a]
  <2>1. header' = IF 0 = 1 THEN O!WithHandle(o) ELSE [header EXCEPT ![o].refs = @ + 1]
    OBVIOUS
  <2>. QED
    BY <1>1, <2>1, ReferenceWrites
<1>. QED
  BY <1>1, <1>2, SteadyNames DEF NamesStep

LEMMA NextNames ==
  ASSUME Careful, NInv, O!Next
  PROVE  NamesStep
<1> KindsOK
  BY DEF NInv, RInv
<1>1. ASSUME NEW o \in Object, NEW type \in Type, NEW p \in O!Path \cup {NULL},
             O!AllocateObject(o, type, p)
      PROVE  NamesStep
  <2>1. /\ \A e \in namespace' : e \in namespace \/ (p # NULL /\ e.path = p /\ e.object = o)
        /\ namespace \subseteq namespace'
    BY <1>1, WithNameFits DEF O!AllocateObject
  <2>2. /\ O!New(o, type, IF p = NULL THEN NULL ELSE O!Stored(p))
        /\ p = NULL \/ O!Unused(p)
    BY <1>1 DEF O!AllocateObject
  <2>. QED
    BY <2>1, <2>2, NewNames DEF NamesStep
<1>2. ASSUME NEW o \in Object, NEW p \in O!Path \cup {NULL}, O!AllocateObjectRaw(o, p)
      PROVE  NamesStep
  <2>1. /\ O!New(o, NULL, IF p = NULL THEN NULL ELSE O!Stored(p))
        /\ p = NULL \/ O!Unused(p)
        /\ namespace' = namespace
    BY <1>2 DEF O!AllocateObjectRaw
  <2>. QED
    BY <2>1, NewNames DEF NamesStep
<1>3. ASSUME NEW o \in Object, NEW p \in O!Path, O!InsertObjectByName(o, p)
      PROVE  NamesStep
  <2>1. /\ O!Alive(o) /\ p = header[o].name /\ header' = header
        /\ namespace \subseteq namespace'
        /\ \A e \in namespace' : e \in namespace \/ (e.path = p /\ e.object = o)
    BY <1>3, WithNameFits DEF O!InsertObjectByName, O!Holds
  <2>. QED
    BY <2>1, SteadyNames DEF NamesStep
<1>4. ASSUME NEW o \in Object, O!ReferenceObject(o)
      PROVE  NamesStep
  BY <1>4, FoundNames DEF O!ReferenceObject, O!Holds
<1>5. ASSUME NEW o \in Object, O!DereferenceObject(o)
      PROVE  NamesStep
  <2>1. o \in DOMAIN header /\ header[o].alive /\ O!Drop(o, 0)
    BY <1>5 DEF O!DereferenceObject, O!Holds, O!Alive
  <2>2. header[o].refs > 0 /\ header[o].handles >= 0
    BY <2>1 DEF NInv, RInv, Counted, KindsOK, Header
  <2>. QED
    BY <2>1, <2>2, DropNamesOwn DEF NamesStep
<1>6. ASSUME NEW o \in Object, O!InsertObject(o)
      PROVE  NamesStep
  <2>1. o \in DOMAIN header /\ header' = O!WithHandle(o) /\ namespace' = namespace
    BY <1>6 DEF O!InsertObject, O!Holds, O!Alive
  <2>2. /\ DOMAIN header' = DOMAIN header
        /\ (header'[o].alive <=> header[o].alive) /\ header'[o].name = header[o].name
        /\ \A a \in DOMAIN header : a # o => header'[a] = header[a]
    BY <2>1, ReferenceWrites
  <2>. QED
    BY <2>1, <2>2, SteadyNames DEF NamesStep
<1>7. ASSUME NEW p \in O!Path, O!RemoveObjectByName(p)
      PROVE  NamesStep
  <2>1. header' = header /\ namespace' = namespace \ O!Named(p)
    BY <1>7 DEF O!RemoveObjectByName
  <2>2. EntriesAreNames' /\ NamesDiffer'
    BY <2>1, SteadyNames
  <2>. QED
    BY <1>7, <2>1, <2>2 DEF NamesStep, O!Named
<1>8. ASSUME NEW p \in O!Path, NEW type, O!LookupObjectByName(p, type)
      PROVE  NamesStep
  BY <1>8, FoundNames DEF O!LookupObjectByName, O!Found
<1>9. ASSUME NEW h \in O!Handle, O!CloseHandle(h)
      PROVE  NamesStep
  <2>1. PICK o \in Object : o = handles[h]
    BY <1>9 DEF O!CloseHandle, O!Lookup, KindsOK
  <2>2. o \in DOMAIN header /\ Counted(o) /\ O!Drop(o, 1)
    BY <1>9, <2>1 DEF NInv, RInv, NothingBefore, O!CloseHandle
  <2>3. Cardinality(HandlesOf(o)) > 0 /\ Cardinality(HandlesOf(o)) \in Nat
    <3>1. h \in HandlesOf(o)
      BY <2>1 DEF HandlesOf
    <3>2. IsFiniteSet(HandlesOf(o)) /\ Cardinality(HandlesOf(o)) \in Nat
      BY HandlesFinite
    <3>3. Cardinality(HandlesOf(o)) # 0
      BY <3>1, <3>2, FS_EmptySet
    <3>. QED
      BY <3>2, <3>3
  <2>4. header[o].refs > 0 /\ header[o].handles >= 1
    BY <2>1, <2>2, <2>3 DEF Counted, KindsOK
  <2>. QED
    BY <2>2, <2>4, DropNamesOwn DEF NamesStep
<1>10. ASSUME NEW h \in O!Handle, NEW type, O!ReferenceObjectByHandle(h, type)
       PROVE  NamesStep
  BY <1>10, FoundNames DEF O!ReferenceObjectByHandle, O!Found
<1>. QED
  BY <1>1, <1>2, <1>3, <1>4, <1>5, <1>6, <1>7, <1>8, <1>9, <1>10 DEF O!Next

-----------------------------------------------------------------------------
\* The references' invariant holds in every reachable state.
THEOREM Invariance == O!Spec => []RInv
BY InitRInv, NextRInv, PTL DEF O!Spec

\* Every reference is accounted for, for any number of objects and any tables:
\* the count is what the caller holds and the handles, an object is alive just
\* as long as it is not 0, and no handle leads to a dead object.
THEOREM ReferencesAccounted == O!Spec => []RefsAccounted
<1>1. RInv => O!TypeOK
  BY SameCount DEF RInv, KindsOK, O!TypeOK, Header
<1>2. RInv => RefsAccounted
  BY <1>1, SameCount DEF RInv, Counted, HandlesOf, RefsAccounted, O!RefsAccounted
<1>. QED
  BY <1>2, Invariance, PTL

\* The names' invariant holds in every state that a careful caller reaches.
THEOREM NamesInvariance == ASSUME Careful PROVE O!Spec => []NInv
<1>1. O!Init => NInv
  BY InitRInv, InitNInv DEF NInv
<1>2. NInv /\ [O!Next]_(O!vars) => NInv'
  <2> SUFFICES ASSUME NInv, [O!Next]_(O!vars)
               PROVE  NInv'
    OBVIOUS
  <2>1. RInv'
    BY NextRInv DEF NInv
  <2>2. CASE O!Next
    BY <2>1, <2>2, NextNames DEF NInv, NamesStep
  <2>3. CASE UNCHANGED O!vars
    BY <2>1, <2>3 DEF NInv, EntriesAreNames, NamesDiffer, O!Alive, O!vars
  <2>. QED
    BY <2>2, <2>3
<1>. QED
  BY <1>1, <1>2, PTL DEF O!Spec

\* A dead object has no name, if the caller names objects as the kernel does.
THEOREM NamesLive == ASSUME Careful PROVE O!Spec => []NamesOfLiving
<1>1. NInv => NamesOfLiving
  BY DEF NInv, EntriesAreNames, NamesOfLiving, O!NamesOfLiving
<1>. QED
  BY <1>1, NamesInvariance, PTL

\* The death of one object takes no name from another.
THEOREM NamesStay == ASSUME Careful PROVE O!Spec => NamesKept
<1>1. NInv /\ [O!Next]_(O!vars) =>
        [\A e \in namespace : e \notin namespace' =>
           ~O!Alive(e.object)' \/ \E p \in {e.path} : O!RemoveObjectByName(p)]_(O!vars)
  BY NextNames DEF NamesStep
<1>. QED
  BY <1>1, NamesInvariance, PTL DEF O!Spec, NamesKept, O!NamesKept

-----------------------------------------------------------------------------
(***************************************************************************)
(* Processes.  A process that nobody kills has exited only when its        *)
(* threads have ended, provided that each process has one thread at most   *)
(* that creates threads (thread_count++ is not atomic), and that a thread  *)
(* which waits and ends belongs to the only process that may be killed: a  *)
(* waiter that two walk over at once may be made READY after its end.      *)
(***************************************************************************)
OneCreatorEach ==
  \A a, b \in Creators : Owner[a] = Owner[b] => a = b

NoLateWake ==
  \A t \in Waiters \cap Enders : Targets \subseteq {Owner[t]}

ProcessesSound ==
  /\ P!ProcessesAssumption
  /\ Main \in AnyThread /\ IsFiniteSet(AnyThread)
  /\ OneCreatorEach
  /\ NoLateWake

\* The threads at work on a creation, on their own end, or on a wake.
Making(r) == r.pc \in {"store", "register", "add"}

Walk == {"exit", "take", "clear", "wake", "unlink", "unblock", "ready"}

Leaving == {"test", "load", "drop"}

Ending(r) == r.pc \in Leaving \cup {"ended"} \/ (r.pc \in Walk /\ r.back = "ended")

\* A thread that is being created is in no queue and in no list.
Newcomers == {local[c].thread : c \in {d \in AnyThread : Making(local[d])}}

Settled == born \ Newcomers

Listed == (Waiters \cap Settled) \cup {NULL}

Spared(t) == Owner[t] \notin killed

(***************************************************************************)
(* The inductive invariant, part by part.                                  *)
(***************************************************************************)
ThreadKinds ==
  /\ state \in [AnyThread -> P!CpuState]
  /\ local \in [AnyThread -> P!Local]
  /\ registry \in Seq(AnyThread)
  /\ count \in [Process -> Nat]
  /\ exited \in [Process -> BOOLEAN]
  /\ born \subseteq AnyThread
  /\ killed \subseteq Targets

Creation(c) ==
  /\ c \in Creators
  /\ local[c].thread \in born
  /\ Owner[local[c].thread] # Owner[c] =>
       P!Members(Owner[local[c].thread]) = {local[c].thread}

CreatedOnce ==
  /\ current \in Settled /\ ready \subseteq Settled
  /\ \A c \in AnyThread : Making(local[c]) => Creation(c)
  /\ \A c, d \in AnyThread :
       /\ Making(local[c]) /\ Making(local[d])
       /\ Owner[local[c].thread] = Owner[local[d].thread]
       => c = d
  /\ \A t \in AnyThread \ Settled : local[t].pc = "out"

PointsWell(t, r, S) ==
  /\ r.w \in S /\ r.nxt \in S
  /\ r.pc \in {"unlink", "unblock", "ready"} => r.w # NULL
  /\ r.pc = "enqueue" => t \in Waiters

Pointers ==
  /\ waiters \in [Process -> Listed]
  /\ WaitNext \in [AnyThread -> Listed]
  /\ \A t \in AnyThread : PointsWell(t, local[t], Listed)

\* Who is at the end of a process is its own thread, or has called KillProcess.
Placed(t, r, K) ==
  /\ r.back \in {"out", "ended"}
  /\ r.pc = "mark" => r.back = "out"
  /\ r.pc \in Leaving => r.back = "ended" /\ r.process = Owner[t]
  /\ Ending(r) => t \in Enders
  /\ r.pc \in Walk /\ Ending(r) => r.process = Owner[t]
  /\ r.pc \in Walk \cup {"mark"} /\ ~Ending(r) => r.process \in K

Places == \A t \in AnyThread : Placed(t, local[t], killed)

\* A thread that nobody has killed is TERMINATED just when it ends itself, and
\* once switched away it does not come back.
EndsOnce(t) ==
  Spared(t) =>
    /\ state[t] = "TERMINATED" <=> Ending(local[t])
    /\ Ending(local[t]) => t \notin ready
    /\ t \in Enders /\ t = current => t \notin ready

WakesLiving ==
  local[current].pc = "ready" /\ killed = {} => state[local[current].w] # "TERMINATED"

Ends == WakesLiving /\ \A t \in AnyThread : EndsOnce(t)

\* The threads that thread_count has to count: not one that is not added yet,
\* and not one that has taken itself off, or never will.
Uncounted == {local[c].thread : c \in {d \in AnyThread : local[d].pc = "store"}}

Present(p) ==
  {t \in P!Members(p) :
     t \notin Uncounted /\ (Ending(local[t]) => t = current /\ local[t].pc \in Leaving)}

Bounds(p) ==
  Cardinality(Present(p)) <= count[p] /\ count[p] <= Cardinality(P!Members(p))

LoadedFits(p) ==
  \A c \in AnyThread :
    local[c].pc = "store" /\ Owner[local[c].thread] = p =>
      count[p] <= local[c].loaded /\ local[c].loaded < Cardinality(P!Members(p))

DropFits(p) ==
  local[current].pc = "drop" /\ Owner[current] = p => local[current].loaded = count[p]

AllEnd(p) == P!Members(p) # {} /\ \A t \in P!Members(p) : Ending(local[t])

AtExit(p) ==
  \E t \in AnyThread : Owner[t] = p /\ Ending(local[t]) /\ local[t].pc = "exit"

CountFits(p) ==
  /\ Bounds(p) /\ LoadedFits(p) /\ DropFits(p)
  /\ exited[p] \/ AtExit(p) => AllEnd(p)

Counts == \A p \in Process \ killed : CountFits(p)

ThreadsInv == ThreadKinds /\ CreatedOnce /\ Pointers /\ Places /\ Ends /\ Counts

-----------------------------------------------------------------------------
\* Facts about the constants.
LEMMA ThreadFacts ==
  ASSUME ProcessesSound
  PROVE  /\ NULL \notin AnyThread
         /\ Owner \in [AnyThread -> Process]
         /\ Main \in Started /\ Started \subseteq AnyThread
         /\ Main \in AnyThread /\ IsFiniteSet(AnyThread)
         /\ Waiters \subseteq AnyThread /\ Enders \subseteq AnyThread
         /\ Creators \subseteq AnyThread /\ Targets \subseteq Process
BY DEF ProcessesSound, P!ProcessesAssumption

LEMMA SameSize ==
  ASSUME NEW S
  PROVE  P!Cardinality(S) = Cardinality(S)
BY DEF P!Cardinality, Cardinality

LEMMA MembersFinite ==
  ASSUME ProcessesSound, ThreadKinds, NEW p
  PROVE  /\ IsFiniteSet(P!Members(p)) /\ Cardinality(P!Members(p)) \in Nat
         /\ Cardinality(P!Members(p)) < CountModulus /\ CountModulus \in Nat \ {0}
<1>1. P!Members(p) \subseteq AnyThread /\ IsFiniteSet(AnyThread)
  BY ThreadFacts DEF ThreadKinds, P!Members
<1>2. /\ IsFiniteSet(P!Members(p)) /\ Cardinality(P!Members(p)) <= Cardinality(AnyThread)
      /\ Cardinality(P!Members(p)) \in Nat /\ Cardinality(AnyThread) \in Nat
  BY <1>1, FS_Subset, FS_CardinalityType
<1>3. CountModulus \in Nat \ {0} /\ CountModulus > Cardinality(AnyThread)
  BY SameSize DEF ProcessesSound, P!ProcessesAssumption
<1>. QED
  BY <1>2, <1>3

LEMMA PresentFinite ==
  ASSUME ProcessesSound, ThreadKinds, NEW p
  PROVE  IsFiniteSet(Present(p)) /\ Cardinality(Present(p)) \in Nat
<1>1. Present(p) \subseteq P!Members(p)
  BY DEF Present
<1>. QED
  BY <1>1, MembersFinite, FS_Subset, FS_CardinalityType

-----------------------------------------------------------------------------
(* A step of t writes the locals of t, and of no other thread.             *)
Others(t) == \A c \in AnyThread \ {t} : local'[c] = local[c]

LEMMA Writes ==
  ASSUME ThreadKinds, NEW t \in AnyThread, NEW r \in P!Local,
         local' = [local EXCEPT ![t] = r]
  PROVE  local' \in [AnyThread -> P!Local] /\ local'[t] = r /\ Others(t)
BY DEF ThreadKinds, Others

LEMMA Goes ==
  ASSUME ThreadKinds, NEW t \in AnyThread, NEW l \in P!Location, P!Go(t, l)
  PROVE  /\ local' \in [AnyThread -> P!Local] /\ Others(t)
         /\ local'[t].pc = l /\ local'[t].thread = local[t].thread
         /\ local'[t].process = local[t].process /\ local'[t].loaded = local[t].loaded
         /\ local'[t].index = local[t].index /\ local'[t].w = local[t].w
         /\ local'[t].nxt = local[t].nxt /\ local'[t].back = local[t].back
<1> DEFINE r == [local[t] EXCEPT !.pc = l]
<1>1. local[t] \in P!Local
  BY DEF ThreadKinds
<1>2. /\ r \in P!Local /\ r.pc = l /\ r.thread = local[t].thread
      /\ r.process = local[t].process /\ r.loaded = local[t].loaded
      /\ r.index = local[t].index /\ r.w = local[t].w
      /\ r.nxt = local[t].nxt /\ r.back = local[t].back
  BY <1>1 DEF P!Local
<1>3. local' = [local EXCEPT ![t] = r]
  BY DEF P!Go
<1> HIDE DEF r
<1>. QED
  BY <1>2, <1>3, Writes

\* What is created, and what is not, stays when no creation begins or ends.
LEMMA CreationsStay ==
  ASSUME CreatedOnce, NEW t \in AnyThread, Others(t), born' = born,
         Making(local'[t]) <=> Making(local[t]),
         Making(local[t]) => local'[t].thread = local[t].thread
  PROVE  Newcomers' = Newcomers /\ Settled' = Settled /\ Listed' = Listed
<1>1. \A c \in AnyThread : /\ Making(local'[c]) <=> Making(local[c])
                           /\ Making(local[c]) => local'[c].thread = local[c].thread
  BY DEF Others
<1>2. Newcomers' = Newcomers
  BY <1>1 DEF Newcomers, Making
<1>. QED
  BY <1>2 DEF Settled, Listed

LEMMA CreatedOnceStays ==
  ASSUME CreatedOnce, NEW t \in AnyThread, Others(t), born' = born,
         Making(local'[t]) <=> Making(local[t]),
         Making(local[t]) => local'[t].thread = local[t].thread,
         t \in Settled, current' \in Settled, ready' \subseteq Settled
  PROVE  CreatedOnce'
<1>1. Settled' = Settled
  BY CreationsStay
<1>2. \A c \in AnyThread : /\ Making(local'[c]) <=> Making(local[c])
                           /\ Making(local[c]) => local'[c].thread = local[c].thread
  BY DEF Others
<1>3. \A p : P!Members(p)' = P!Members(p)
  BY DEF P!Members
<1>4. ASSUME NEW c \in AnyThread, Making(local'[c])
      PROVE  Creation(c)'
  <2>1. Creation(c) /\ local'[c].thread = local[c].thread
    BY <1>2, <1>4 DEF CreatedOnce
  <2>. QED
    BY <1>3, <2>1 DEF Creation
<1>5. ASSUME NEW c \in AnyThread, NEW d \in AnyThread, Making(local'[c]), Making(local'[d]),
             Owner[local'[c].thread] = Owner[local'[d].thread]
      PROVE  c = d
  BY <1>2, <1>5 DEF CreatedOnce
<1>6. \A c \in AnyThread \ Settled : local'[c].pc = "out"
  BY DEF CreatedOnce, Others
<1>. QED
  BY <1>1, <1>4, <1>5, <1>6 DEF CreatedOnce

LEMMA PointersStay ==
  ASSUME Pointers, NEW t \in AnyThread, Others(t), Listed' = Listed,
         waiters' \in [Process -> Listed], WaitNext' \in [AnyThread -> Listed],
         PointsWell(t, local'[t], Listed)
  PROVE  Pointers'
<1>1. \A c \in AnyThread : PointsWell(c, local'[c], Listed)
  BY DEF Others, Pointers
<1>. QED
  BY <1>1 DEF Pointers

LEMMA PlacesStay ==
  ASSUME Places, NEW t \in AnyThread, Others(t), killed \subseteq killed',
         Placed(t, local'[t], killed')
  PROVE  Places'
<1>1. ASSUME NEW c \in AnyThread, c # t
      PROVE  Placed(c, local'[c], killed')
  <2>1. Placed(c, local[c], killed) /\ local'[c] = local[c]
    BY <1>1 DEF Places, Others
  <2>. QED
    BY <2>1 DEF Placed
<1>. QED
  BY <1>1 DEF Places

LEMMA EndsStay ==
  ASSUME Ends, NEW t \in AnyThread, Others(t), current' = t,
         current = t, state' = state, ready' = ready, killed \subseteq killed',
         Ending(local'[t]) <=> Ending(local[t]), local'[t].pc # "ready"
  PROVE  Ends'
<1>1. WakesLiving'
  BY DEF WakesLiving
<1>2. ASSUME NEW c \in AnyThread
      PROVE  EndsOnce(c)'
  <2>1. EndsOnce(c) /\ (Ending(local'[c]) <=> Ending(local[c]))
    BY DEF Ends, Others
  <2>2. Spared(c)' => Spared(c)
    BY DEF Spared
  <2>. QED
    BY <2>1, <2>2 DEF EndsOnce
<1>. QED
  BY <1>1, <1>2 DEF Ends

\* What is counted, and which processes have exited, as far as they are not killed.
CountsSame ==
  \A p \in Process \ killed : count'[p] = count[p] /\ (exited'[p] => exited[p] \/ AtExit(p))

\* The counts fit while nobody is added or drops out.
LEMMA CountsStay ==
  ASSUME Counts, NEW t \in AnyThread, Others(t), born' = born, CountsSame,
         killed \subseteq killed', current' = current, current = t,
         local[t].pc # "store", local'[t].pc # "store",
         Ending(local[t]) => /\ Ending(local'[t])
                             /\ local'[t].pc \in Leaving => local[t].pc \in Leaving,
         local'[t].pc = "drop" => local'[t].loaded = count[Owner[t]],
         ~(Ending(local'[t]) /\ local'[t].pc = "exit"),
         ProcessesSound, ThreadKinds, ThreadKinds'
  PROVE  Counts'
<1>1. SUFFICES ASSUME NEW p \in Process \ killed'
               PROVE  CountFits(p)'
  BY DEF Counts
<1>2. CountFits(p)
  BY <1>1 DEF Counts
<1>3. P!Members(p)' = P!Members(p)
  BY DEF P!Members
<1>4. \A c \in AnyThread : /\ local'[c].pc = "store" <=> local[c].pc = "store"
                           /\ local[c].pc = "store" => local'[c] = local[c]
                           /\ Ending(local[c]) => Ending(local'[c])
  BY DEF Others
<1>5. Uncounted' = Uncounted
  BY <1>4 DEF Uncounted
<1>6. Present(p)' \subseteq Present(p)
  <2>1. \A c \in P!Members(p) : c \in AnyThread
    BY DEF P!Members, ThreadKinds
  <2>2. \A c \in AnyThread :
          Ending(local[c]) => /\ Ending(local'[c])
                              /\ c = current' /\ local'[c].pc \in Leaving
                                 => c = current /\ local[c].pc \in Leaving
    BY <1>4
  <2>. QED
    BY <1>3, <1>5, <2>1, <2>2 DEF Present
<1>7. p \in Process /\ count'[p] = count[p]
  BY <1>1 DEF CountsSame
<1>8. Bounds(p)'
  <2>1. Cardinality(Present(p)') <= Cardinality(Present(p))
    BY <1>6, PresentFinite, FS_Subset
  <2>2. Cardinality(Present(p)) <= count[p] /\ count[p] <= Cardinality(P!Members(p))
    BY <1>2 DEF CountFits, Bounds
  <2>3. Cardinality(Present(p)) \in Nat /\ Cardinality(Present(p)') \in Nat /\ count[p] \in Nat
    <3>1. IsFiniteSet(Present(p)')
      BY <1>6, PresentFinite, FS_Subset
    <3>. QED
      BY <1>7, <3>1, PresentFinite, FS_CardinalityType DEF ThreadKinds
  <2>4. Cardinality(Present(p)') <= count[p]
    BY <2>1, <2>2, <2>3
  <2>. QED
    BY <1>3, <1>7, <2>2, <2>4 DEF Bounds
<1>9. LoadedFits(p)'
  BY <1>2, <1>3, <1>4, <1>7 DEF CountFits, LoadedFits
<1>10. DropFits(p)'
  BY <1>7 DEF DropFits
<1>11. AtExit(p)' => AtExit(p)
  <2>1. \A c \in AnyThread : Ending(local'[c]) /\ local'[c].pc = "exit" => local'[c] = local[c]
    BY DEF Others
  <2>. QED
    BY <2>1 DEF AtExit
<1>12. AllEnd(p) => AllEnd(p)'
  <2>1. \A c \in P!Members(p) : c \in AnyThread
    BY DEF P!Members, ThreadKinds
  <2>. QED
    BY <1>3, <1>4, <2>1 DEF AllEnd
<1>13. exited'[p] \/ AtExit(p)' => exited[p] \/ AtExit(p)
  BY <1>1, <1>11 DEF CountsSame
<1>. QED
  BY <1>2, <1>8, <1>9, <1>10, <1>12, <1>13 DEF CountFits

\* The thread that has the CPU.
LEMMA Acting ==
  ASSUME ThreadsInv, ProcessesSound, NEW t \in AnyThread, NEW l, P!At(t, l)
  PROVE  /\ current = t /\ t \in Settled /\ t \in born /\ local[t].pc = l
         /\ local[t] \in P!Local /\ Owner[t] \in Process
<1>1. current = t /\ local[t].pc = l
  BY DEF P!At
<1>2. t \in Settled /\ t \in born
  BY <1>1 DEF ThreadsInv, CreatedOnce, Settled
<1>3. local[t] \in P!Local /\ Owner[t] \in Process
  BY ThreadFacts DEF ThreadsInv, ThreadKinds
<1>. QED
  BY <1>1, <1>2, <1>3

(***************************************************************************)
(* A step that creates nothing and leaves the counts and the flags alone.  *)
(***************************************************************************)
LEMMA QuietWrites ==
  ASSUME ThreadsInv, ProcessesSound, NEW t \in AnyThread, current = t, t \in Settled,
         Others(t), ThreadKinds', ~Making(local[t]), ~Making(local'[t]),
         UNCHANGED <<born, current>>, CountsSame, ready' \subseteq Settled,
         killed \subseteq killed',
         Ending(local[t]) => /\ Ending(local'[t])
                             /\ local'[t].pc \in Leaving => local[t].pc \in Leaving,
         local'[t].pc = "drop" => local'[t].loaded = count[Owner[t]],
         ~(Ending(local'[t]) /\ local'[t].pc = "exit"),
         waiters' \in [Process -> Listed], WaitNext' \in [AnyThread -> Listed],
         PointsWell(t, local'[t], Listed), Placed(t, local'[t], killed'), Ends'
  PROVE  ThreadsInv'
<1>1. CreatedOnce'
  BY CreatedOnceStays DEF ThreadsInv
<1>2. Pointers'
  BY CreationsStay, PointersStay DEF ThreadsInv
<1>3. Places'
  BY PlacesStay DEF ThreadsInv
<1>4. local[t].pc # "store" /\ local'[t].pc # "store"
  BY DEF Making
<1>5. Counts'
  BY <1>4, CountsStay DEF ThreadsInv
<1>. QED
  BY <1>1, <1>2, <1>3, <1>5 DEF ThreadsInv

LEMMA QuietStep ==
  ASSUME ThreadsInv, ProcessesSound, NEW t \in AnyThread, current = t, t \in Settled,
         Others(t), ThreadKinds', ~Making(local[t]), ~Making(local'[t]),
         UNCHANGED <<born, count, exited, current>>, ready' \subseteq Settled,
         killed \subseteq killed',
         Ending(local'[t]) <=> Ending(local[t]),
         local'[t].pc \in Leaving => local[t].pc \in Leaving,
         local'[t].pc = "drop" => local'[t].loaded = count[Owner[t]],
         ~(Ending(local'[t]) /\ local'[t].pc = "exit"),
         waiters' \in [Process -> Listed], WaitNext' \in [AnyThread -> Listed],
         PointsWell(t, local'[t], Listed), Placed(t, local'[t], killed'), Ends'
  PROVE  ThreadsInv'
<1>1. CountsSame
  BY DEF CountsSame
<1>. QED
  BY <1>1, QuietWrites

LEMMA WaitProcessInv ==
  ASSUME ThreadsInv, ProcessesSound, NEW t \in AnyThread, NEW p \in Process,
         P!WaitProcess(t, p)
  PROVE  ThreadsInv'
<1>1. current = t /\ t \in Settled /\ local[t].pc = "out" /\ local[t] \in P!Local
  BY Acting DEF P!WaitProcess
<1> DEFINE r == [local[t] EXCEPT !.pc = "enqueue", !.process = p]
<1>2. /\ r \in P!Local /\ r.pc = "enqueue" /\ r.w = local[t].w /\ r.nxt = local[t].nxt
      /\ r.back = local[t].back
  BY <1>1 DEF P!Local, P!Location
<1>3. local' = [local EXCEPT ![t] = r]
  BY DEF P!WaitProcess
<1> HIDE DEF r
<1>4. local' \in [AnyThread -> P!Local] /\ local'[t] = r /\ Others(t)
  BY <1>2, <1>3, Writes DEF ThreadsInv
<1>5. /\ UNCHANGED <<born, registry, count, exited, current, state, ready, waiters, WaitNext, killed>>
      /\ t \in Waiters
  BY DEF P!WaitProcess, P!shared, P!cpuVars
<1>6. ThreadKinds'
  BY <1>4, <1>5 DEF ThreadsInv, ThreadKinds
<1>7. /\ ~Making(local[t]) /\ ~Making(local'[t]) /\ ~Ending(local[t]) /\ ~Ending(local'[t])
      /\ local'[t].pc \notin Leaving /\ local'[t].pc \notin Walk \cup {"mark"}
  BY <1>1, <1>2, <1>4 DEF Making, Ending, Leaving, Walk
<1>8. PointsWell(t, local'[t], Listed)
  BY <1>2, <1>4, <1>5 DEF ThreadsInv, Pointers, PointsWell
<1>9. Placed(t, local'[t], killed')
  BY <1>2, <1>4, <1>7 DEF ThreadsInv, Places, Placed
<1>10. Ends'
  BY <1>1, <1>2, <1>4, <1>5, <1>7, EndsStay DEF ThreadsInv
<1>11. waiters' \in [Process -> Listed] /\ WaitNext' \in [AnyThread -> Listed]
       /\ ready' \subseteq Settled
  BY <1>5 DEF ThreadsInv, Pointers, CreatedOnce
<1>12. local'[t].pc # "drop" /\ killed \subseteq killed'
  BY <1>2, <1>4, <1>5
<1>. QED
  BY <1>1, <1>4, <1>5, <1>6, <1>7, <1>8, <1>9, <1>10, <1>11, <1>12, QuietStep

\* The steps of TerminateCurrentThread up to its count.
LEMMA TestCountInv ==
  ASSUME ThreadsInv, ProcessesSound, NEW t \in AnyThread, P!TestCount(t)
  PROVE  ThreadsInv'
<1>1. current = t /\ t \in Settled /\ local[t].pc = "test" /\ local[t] \in P!Local
  BY Acting DEF P!TestCount
<1>2. PICK l \in {"load", "ended"} : P!Go(t, l)
  BY DEF P!TestCount
<1>3. l \in P!Location
  BY <1>2 DEF P!Location
<1>4. /\ local' \in [AnyThread -> P!Local] /\ Others(t) /\ local'[t].pc = l
      /\ local'[t].process = local[t].process /\ local'[t].back = local[t].back
      /\ local'[t].w = local[t].w /\ local'[t].nxt = local[t].nxt
  BY <1>2, <1>3, Goes DEF ThreadsInv
<1>5. UNCHANGED <<born, registry, count, exited, current, state, ready, waiters, WaitNext, killed>>
  BY DEF P!TestCount, P!shared, P!cpuVars
<1>6. ThreadKinds'
  BY <1>4, <1>5 DEF ThreadsInv, ThreadKinds
<1>7. /\ ~Making(local[t]) /\ ~Making(local'[t]) /\ Ending(local[t]) /\ Ending(local'[t])
      /\ local[t].pc \in Leaving /\ local'[t].pc \notin Walk \cup {"mark"}
      /\ local'[t].pc # "ready" /\ local'[t].pc # "drop" /\ local'[t].pc # "exit"
  BY <1>1, <1>2, <1>4 DEF Making, Ending, Leaving, Walk
<1>8. PointsWell(t, local'[t], Listed)
  BY <1>2, <1>4 DEF ThreadsInv, Pointers, PointsWell
<1>9. Placed(t, local'[t], killed')
  BY <1>4, <1>7 DEF ThreadsInv, Places, Placed
<1>10. Ends'
  BY <1>1, <1>4, <1>5, <1>7, EndsStay DEF ThreadsInv
<1>11. waiters' \in [Process -> Listed] /\ WaitNext' \in [AnyThread -> Listed]
       /\ ready' \subseteq Settled
  BY <1>5 DEF ThreadsInv, Pointers, CreatedOnce
<1>. QED
  BY <1>1, <1>4, <1>5, <1>6, <1>7, <1>8, <1>9, <1>10, <1>11, QuietStep

LEMMA LoadCountInv ==
  ASSUME ThreadsInv, ProcessesSound, NEW t \in AnyThread, P!LoadCount(t)
  PROVE  ThreadsInv'
<1>1. /\ current = t /\ t \in Settled /\ local[t].pc = "load" /\ local[t] \in P!Local
      /\ Owner[t] \in Process
  BY Acting DEF P!LoadCount
<1> DEFINE r == [local[t] EXCEPT !.pc = "drop", !.loaded = count[Owner[t]]]
<1>2. /\ r \in P!Local /\ r.pc = "drop" /\ r.w = local[t].w /\ r.nxt = local[t].nxt
      /\ r.back = local[t].back /\ r.process = local[t].process
      /\ r.loaded = count[Owner[t]]
  BY <1>1 DEF P!Local, P!Location, ThreadsInv, ThreadKinds
<1>3. local' = [local EXCEPT ![t] = r]
  BY DEF P!LoadCount
<1> HIDE DEF r
<1>4. local' \in [AnyThread -> P!Local] /\ local'[t] = r /\ Others(t)
  BY <1>2, <1>3, Writes DEF ThreadsInv
<1>5. UNCHANGED <<born, registry, count, exited, current, state, ready, waiters, WaitNext, killed>>
  BY DEF P!LoadCount, P!shared, P!cpuVars
<1>6. ThreadKinds'
  BY <1>4, <1>5 DEF ThreadsInv, ThreadKinds
<1>7. /\ ~Making(local[t]) /\ ~Making(local'[t]) /\ Ending(local[t]) /\ Ending(local'[t])
      /\ local[t].pc \in Leaving /\ local'[t].pc \notin Walk \cup {"mark"}
      /\ local'[t].pc # "ready" /\ local'[t].pc # "exit"
  BY <1>1, <1>2, <1>4 DEF Making, Ending, Leaving, Walk
<1>8. PointsWell(t, local'[t], Listed)
  BY <1>2, <1>4 DEF ThreadsInv, Pointers, PointsWell
<1>9. Placed(t, local'[t], killed')
  BY <1>2, <1>4, <1>7 DEF ThreadsInv, Places, Placed
<1>10. Ends'
  BY <1>1, <1>4, <1>5, <1>7, EndsStay DEF ThreadsInv
<1>11. waiters' \in [Process -> Listed] /\ WaitNext' \in [AnyThread -> Listed]
       /\ ready' \subseteq Settled
  BY <1>5 DEF ThreadsInv, Pointers, CreatedOnce
<1>12. local'[t].loaded = count[Owner[t]]
  BY <1>2, <1>4
<1>. QED
  BY <1>1, <1>4, <1>5, <1>6, <1>7, <1>8, <1>9, <1>10, <1>11, <1>12, QuietStep

\* KillProcess begins.
LEMMA KillProcessInv ==
  ASSUME ThreadsInv, ProcessesSound, NEW t \in AnyThread, NEW p \in Process,
         P!KillProcess(t, p)
  PROVE  ThreadsInv'
<1>1. current = t /\ t \in Settled /\ local[t].pc = "out" /\ local[t] \in P!Local
  BY Acting DEF P!KillProcess
<1> DEFINE r == [local[t] EXCEPT !.pc = "mark", !.process = p, !.index = 1, !.back = "out"]
<1>2. /\ r \in P!Local /\ r.pc = "mark" /\ r.w = local[t].w /\ r.nxt = local[t].nxt
      /\ r.back = "out" /\ r.process = p
  BY <1>1 DEF P!Local, P!Location
<1>3. local' = [local EXCEPT ![t] = r]
  BY DEF P!KillProcess
<1> HIDE DEF r
<1>4. local' \in [AnyThread -> P!Local] /\ local'[t] = r /\ Others(t)
  BY <1>2, <1>3, Writes DEF ThreadsInv
<1>5. /\ UNCHANGED <<born, registry, count, exited, current, state, ready, waiters, WaitNext>>
      /\ killed' = killed \cup {p} /\ p \in Targets
  BY DEF P!KillProcess, P!shared, P!cpuVars
<1>6. ThreadKinds'
  BY <1>4, <1>5 DEF ThreadsInv, ThreadKinds
<1>7. /\ ~Making(local[t]) /\ ~Making(local'[t]) /\ ~Ending(local[t]) /\ ~Ending(local'[t])
      /\ local'[t].pc \notin Leaving /\ local'[t].pc \notin Walk
      /\ local'[t].pc # "ready" /\ local'[t].pc # "drop"
  BY <1>1, <1>2, <1>4 DEF Making, Ending, Leaving, Walk
<1>8. PointsWell(t, local'[t], Listed)
  BY <1>2, <1>4, <1>5 DEF ThreadsInv, Pointers, PointsWell
<1>9. Placed(t, local'[t], killed')
  BY <1>2, <1>4, <1>5, <1>7 DEF Placed
<1>10. killed \subseteq killed'
  BY <1>5
<1>11. Ends'
  BY <1>1, <1>4, <1>5, <1>7, <1>10, EndsStay DEF ThreadsInv
<1>12. waiters' \in [Process -> Listed] /\ WaitNext' \in [AnyThread -> Listed]
       /\ ready' \subseteq Settled
  BY <1>5 DEF ThreadsInv, Pointers, CreatedOnce
<1>. QED
  BY <1>1, <1>4, <1>5, <1>6, <1>7, <1>8, <1>9, <1>10, <1>11, <1>12, QuietStep

(***************************************************************************)
(* The walk over the waiters.                                              *)
(***************************************************************************)
\* From one place of the walk to the next.
LEMMA WalkStep ==
  ASSUME ThreadsInv, ProcessesSound, NEW t \in AnyThread, current = t, t \in Settled,
         Others(t), ThreadKinds', local[t].pc \in Walk, local'[t].pc \in Walk \ {"exit"},
         local'[t].back = local[t].back, local'[t].process = local[t].process,
         UNCHANGED <<born, count, exited, current, killed>>, ready' \subseteq Settled,
         waiters' \in [Process -> Listed], WaitNext' \in [AnyThread -> Listed],
         local'[t].w \in Listed, local'[t].nxt \in Listed,
         local'[t].pc \in {"unlink", "unblock", "ready"} => local'[t].w # NULL,
         (Ending(local'[t]) <=> Ending(local[t])) => Ends'
  PROVE  ThreadsInv'
<1>1. Ending(local'[t]) <=> Ending(local[t])
  BY DEF Ending, Walk, Leaving
<1>2. /\ ~Making(local[t]) /\ ~Making(local'[t]) /\ local'[t].pc \notin Leaving
      /\ local'[t].pc # "drop" /\ local'[t].pc # "exit"
      /\ local'[t].pc # "enqueue" /\ local'[t].pc # "mark"
  BY DEF Making, Walk, Leaving
<1>3. PointsWell(t, local'[t], Listed)
  BY <1>2 DEF PointsWell
<1>4. Placed(t, local'[t], killed')
  BY <1>1, <1>2 DEF ThreadsInv, Places, Placed
<1>5. Ends' /\ killed \subseteq killed'
  BY <1>1
<1>. QED
  BY <1>1, <1>2, <1>3, <1>4, <1>5, QuietStep

LEMMA TakeWaitersInv ==
  ASSUME ThreadsInv, ProcessesSound, NEW t \in AnyThread, P!TakeWaiters(t)
  PROVE  ThreadsInv'
<1>1. current = t /\ t \in Settled /\ local[t].pc = "take" /\ local[t] \in P!Local
  BY Acting DEF P!TakeWaiters
<1>2. waiters[local[t].process] \in Listed
  BY <1>1 DEF P!Local, ThreadsInv, Pointers
<1> DEFINE r == [local[t] EXCEPT !.pc = "clear", !.w = waiters[local[t].process]]
<1>3. /\ r \in P!Local /\ r.pc = "clear" /\ r.w \in Listed /\ r.nxt = local[t].nxt
      /\ r.back = local[t].back /\ r.process = local[t].process
  <2>1. waiters[local[t].process] \in AnyThread \cup {NULL}
    BY <1>2, ThreadFacts DEF Listed
  <2>. QED
    BY <1>1, <1>2, <2>1 DEF P!Local, P!Location
<1>4. local' = [local EXCEPT ![t] = r]
  BY DEF P!TakeWaiters
<1> HIDE DEF r
<1>5. local' \in [AnyThread -> P!Local] /\ local'[t] = r /\ Others(t)
  BY <1>3, <1>4, Writes DEF ThreadsInv
<1>6. UNCHANGED <<born, registry, count, exited, current, state, ready, waiters, WaitNext, killed>>
  BY DEF P!TakeWaiters, P!shared, P!cpuVars
<1>7. ThreadKinds'
  BY <1>5, <1>6 DEF ThreadsInv, ThreadKinds
<1>8. local[t].pc \in Walk /\ local'[t].pc \in Walk \ {"exit"} /\ local'[t].pc # "ready"
      /\ local'[t].pc \notin {"unlink", "unblock", "ready"}
  BY <1>1, <1>3, <1>5 DEF Walk
<1>9. (Ending(local'[t]) <=> Ending(local[t])) => Ends'
  BY <1>1, <1>5, <1>6, <1>8, EndsStay DEF ThreadsInv
<1>10. waiters' \in [Process -> Listed] /\ WaitNext' \in [AnyThread -> Listed]
       /\ ready' \subseteq Settled /\ local[t].nxt \in Listed
  BY <1>6 DEF ThreadsInv, Pointers, PointsWell, CreatedOnce
<1>. QED
  BY <1>1, <1>3, <1>5, <1>6, <1>7, <1>8, <1>9, <1>10, WalkStep

LEMMA ClearWaitersInv ==
  ASSUME ThreadsInv, ProcessesSound, NEW t \in AnyThread, P!ClearWaiters(t)
  PROVE  ThreadsInv'
<1>1. current = t /\ t \in Settled /\ local[t].pc = "clear" /\ local[t] \in P!Local
  BY Acting DEF P!ClearWaiters
<1>2. P!Go(t, "wake") /\ "wake" \in P!Location
  BY DEF P!ClearWaiters, P!Location
<1>3. /\ local' \in [AnyThread -> P!Local] /\ Others(t) /\ local'[t].pc = "wake"
      /\ local'[t].process = local[t].process /\ local'[t].back = local[t].back
      /\ local'[t].w = local[t].w /\ local'[t].nxt = local[t].nxt
  BY <1>2, Goes DEF ThreadsInv
<1>4. /\ UNCHANGED <<born, registry, count, exited, current, state, ready, WaitNext, killed>>
      /\ waiters' = [waiters EXCEPT ![local[t].process] = NULL]
  BY DEF P!ClearWaiters, P!cpuVars
<1>5. ThreadKinds'
  BY <1>3, <1>4 DEF ThreadsInv, ThreadKinds
<1>6. local[t].pc \in Walk /\ local'[t].pc \in Walk \ {"exit"} /\ local'[t].pc # "ready"
      /\ local'[t].pc \notin {"unlink", "unblock", "ready"}
  BY <1>1, <1>3 DEF Walk
<1>7. (Ending(local'[t]) <=> Ending(local[t])) => Ends'
  BY <1>1, <1>3, <1>4, <1>6, EndsStay DEF ThreadsInv
<1>8. waiters' \in [Process -> Listed]
  BY <1>4 DEF ThreadsInv, Pointers, Listed
<1>9. WaitNext' \in [AnyThread -> Listed] /\ ready' \subseteq Settled
      /\ local[t].nxt \in Listed /\ local[t].w \in Listed
  BY <1>4 DEF ThreadsInv, Pointers, PointsWell, CreatedOnce
<1>. QED
  BY <1>1, <1>3, <1>4, <1>5, <1>6, <1>7, <1>8, <1>9, WalkStep

LEMMA NextWaiterInv ==
  ASSUME ThreadsInv, ProcessesSound, NEW t \in AnyThread, P!NextWaiter(t)
  PROVE  ThreadsInv'
<1>1. /\ current = t /\ t \in Settled /\ local[t].pc = "wake" /\ local[t] \in P!Local
      /\ local[t].w # NULL
  BY Acting DEF P!NextWaiter
<1>2. WaitNext[local[t].w] \in Listed /\ local[t].w \in Listed
  <2>1. local[t].w \in AnyThread
    BY <1>1 DEF P!Local
  <2>. QED
    BY <2>1 DEF ThreadsInv, Pointers, PointsWell
<1> DEFINE r == [local[t] EXCEPT !.pc = "unlink", !.nxt = WaitNext[local[t].w]]
<1>3. /\ r \in P!Local /\ r.pc = "unlink" /\ r.nxt \in Listed /\ r.w = local[t].w
      /\ r.back = local[t].back /\ r.process = local[t].process
  <2>1. WaitNext[local[t].w] \in AnyThread \cup {NULL}
    BY <1>2, ThreadFacts DEF Listed
  <2>. QED
    BY <1>1, <1>2, <2>1 DEF P!Local, P!Location
<1>4. local' = [local EXCEPT ![t] = r]
  BY DEF P!NextWaiter
<1> HIDE DEF r
<1>5. local' \in [AnyThread -> P!Local] /\ local'[t] = r /\ Others(t)
  BY <1>3, <1>4, Writes DEF ThreadsInv
<1>6. UNCHANGED <<born, registry, count, exited, current, state, ready, waiters, WaitNext, killed>>
  BY DEF P!NextWaiter, P!shared, P!cpuVars
<1>7. ThreadKinds'
  BY <1>5, <1>6 DEF ThreadsInv, ThreadKinds
<1>8. /\ local[t].pc \in Walk /\ local'[t].pc \in Walk \ {"exit"} /\ local'[t].pc # "ready"
      /\ local'[t].w # NULL /\ local'[t].w \in Listed
  BY <1>1, <1>2, <1>3, <1>5 DEF Walk
<1>9. (Ending(local'[t]) <=> Ending(local[t])) => Ends'
  BY <1>1, <1>5, <1>6, <1>8, EndsStay DEF ThreadsInv
<1>10. waiters' \in [Process -> Listed] /\ WaitNext' \in [AnyThread -> Listed]
       /\ ready' \subseteq Settled
  BY <1>6 DEF ThreadsInv, Pointers, CreatedOnce
<1>. QED
  BY <1>1, <1>3, <1>5, <1>6, <1>7, <1>8, <1>9, <1>10, WalkStep

LEMMA UnlinkWaiterInv ==
  ASSUME ThreadsInv, ProcessesSound, NEW t \in AnyThread, P!UnlinkWaiter(t)
  PROVE  ThreadsInv'
<1>1. current = t /\ t \in Settled /\ local[t].pc = "unlink" /\ local[t] \in P!Local
  BY Acting DEF P!UnlinkWaiter
<1>2. P!Go(t, "unblock") /\ "unblock" \in P!Location
  BY DEF P!UnlinkWaiter, P!Location
<1>3. /\ local' \in [AnyThread -> P!Local] /\ Others(t) /\ local'[t].pc = "unblock"
      /\ local'[t].process = local[t].process /\ local'[t].back = local[t].back
      /\ local'[t].w = local[t].w /\ local'[t].nxt = local[t].nxt
  BY <1>2, Goes DEF ThreadsInv
<1>4. /\ UNCHANGED <<born, registry, count, exited, current, state, ready, waiters, killed>>
      /\ WaitNext' = [WaitNext EXCEPT ![local[t].w] = NULL]
  BY DEF P!UnlinkWaiter, P!cpuVars
<1>5. ThreadKinds'
  BY <1>3, <1>4 DEF ThreadsInv, ThreadKinds
<1>6. local[t].pc \in Walk /\ local'[t].pc \in Walk \ {"exit"} /\ local'[t].pc # "ready"
  BY <1>1, <1>3 DEF Walk
<1>7. (Ending(local'[t]) <=> Ending(local[t])) => Ends'
  BY <1>1, <1>3, <1>4, <1>6, EndsStay DEF ThreadsInv
<1>8. WaitNext' \in [AnyThread -> Listed]
  BY <1>4 DEF ThreadsInv, Pointers, Listed
<1>9. waiters' \in [Process -> Listed] /\ ready' \subseteq Settled
      /\ local[t].nxt \in Listed /\ local[t].w \in Listed /\ local[t].w # NULL
  BY <1>1, <1>4 DEF ThreadsInv, Pointers, PointsWell, CreatedOnce
<1>. QED
  BY <1>1, <1>3, <1>4, <1>5, <1>6, <1>7, <1>8, <1>9, WalkStep

LEMMA SkipEndedInv ==
  ASSUME ThreadsInv, ProcessesSound, NEW t \in AnyThread, P!SkipEnded(t)
  PROVE  ThreadsInv'
<1>1. current = t /\ t \in Settled /\ local[t].pc = "unblock" /\ local[t] \in P!Local
  BY Acting DEF P!SkipEnded
<1>2. UNCHANGED <<born, registry, count, exited, current, state, ready, waiters, WaitNext, killed>>
  BY DEF P!SkipEnded, P!shared, P!cpuVars
<1>3. /\ waiters' \in [Process -> Listed] /\ WaitNext' \in [AnyThread -> Listed]
      /\ ready' \subseteq Settled /\ local[t].w \in Listed /\ local[t].nxt \in Listed
      /\ local[t].w # NULL /\ local[t].pc \in Walk
  BY <1>1, <1>2 DEF ThreadsInv, Pointers, PointsWell, CreatedOnce, Walk
<1>4. CASE state[local[t].w] = "TERMINATED"
  <2> DEFINE r == [local[t] EXCEPT !.pc = "wake", !.w = local[t].nxt]
  <2>1. /\ r \in P!Local /\ r.pc = "wake" /\ r.w = local[t].nxt /\ r.nxt = local[t].nxt
        /\ r.back = local[t].back /\ r.process = local[t].process
    BY <1>1 DEF P!Local, P!Location
  <2>2. local' = [local EXCEPT ![t] = r]
    BY <1>4 DEF P!SkipEnded
  <2> HIDE DEF r
  <2>3. local' \in [AnyThread -> P!Local] /\ local'[t] = r /\ Others(t)
    BY <2>1, <2>2, Writes DEF ThreadsInv
  <2>4. ThreadKinds'
    BY <1>2, <2>3 DEF ThreadsInv, ThreadKinds
  <2>5. local'[t].pc \in Walk \ {"exit"} /\ local'[t].pc # "ready"
        /\ local'[t].pc \notin {"unlink", "unblock", "ready"}
    BY <2>1, <2>3 DEF Walk
  <2>6. (Ending(local'[t]) <=> Ending(local[t])) => Ends'
    BY <1>1, <1>2, <2>3, <2>5, EndsStay DEF ThreadsInv
  <2>. QED
    BY <1>1, <1>2, <1>3, <2>1, <2>3, <2>4, <2>5, <2>6, WalkStep
<1>5. CASE state[local[t].w] # "TERMINATED"
  <2>1. P!Go(t, "ready") /\ "ready" \in P!Location
    BY <1>5 DEF P!SkipEnded, P!Location
  <2>2. /\ local' \in [AnyThread -> P!Local] /\ Others(t) /\ local'[t].pc = "ready"
        /\ local'[t].process = local[t].process /\ local'[t].back = local[t].back
        /\ local'[t].w = local[t].w /\ local'[t].nxt = local[t].nxt
    BY <2>1, Goes DEF ThreadsInv
  <2>3. ThreadKinds'
    BY <1>2, <2>2 DEF ThreadsInv, ThreadKinds
  <2>4. local'[t].pc \in Walk \ {"exit"}
    BY <2>2 DEF Walk
  <2>5. (Ending(local'[t]) <=> Ending(local[t])) => Ends'
    <3>1. WakesLiving'
      BY <1>1, <1>2, <1>5, <2>2 DEF WakesLiving
    <3>2. ASSUME Ending(local'[t]) <=> Ending(local[t]), NEW c \in AnyThread
          PROVE  EndsOnce(c)'
      <4>1. EndsOnce(c) /\ (Ending(local'[c]) <=> Ending(local[c]))
        BY <2>2, <3>2 DEF ThreadsInv, Ends, Others
      <4>. QED
        BY <1>2, <4>1 DEF EndsOnce, Spared
    <3>. QED
      BY <3>1, <3>2 DEF Ends
  <2>. QED
    BY <1>1, <1>2, <1>3, <2>2, <2>3, <2>4, <2>5, WalkStep
<1>. QED
  BY <1>4, <1>5

\* What UnblockThread makes READY has not ended itself, nor is it running when it may.
LEMMA WakenIsAlive ==
  ASSUME ThreadsInv, ProcessesSound, NEW t \in AnyThread, current = t,
         local[t].pc = "ready", NEW c \in AnyThread, local[t].w = c, Spared(c),
         c \in Enders
  PROVE  c # t /\ ~Ending(local[c])
<1>1. c \in Waiters
  BY ThreadFacts DEF ThreadsInv, Pointers, PointsWell, Listed
<1>2. Targets \subseteq {Owner[c]}
  BY <1>1 DEF ProcessesSound, NoLateWake
<1>3. killed = {}
  BY <1>2 DEF Spared, ThreadsInv, ThreadKinds
<1>4. state[c] # "TERMINATED"
  BY <1>3 DEF ThreadsInv, Ends, WakesLiving
<1>5. ~Ending(local[c])
  BY <1>4 DEF ThreadsInv, Ends, EndsOnce
<1>6. Ending(local[t])
  BY <1>3 DEF ThreadsInv, Places, Placed, Walk
<1>. QED
  BY <1>5, <1>6

LEMMA UnblockWaiterInv ==
  ASSUME ThreadsInv, ProcessesSound, NEW t \in AnyThread, P!UnblockWaiter(t)
  PROVE  ThreadsInv'
<1>1. current = t /\ t \in Settled /\ local[t].pc = "ready" /\ local[t] \in P!Local
  BY Acting DEF P!UnblockWaiter
<1>2. /\ UNCHANGED <<born, registry, count, exited, current, waiters, WaitNext, killed>>
      /\ state' = [state EXCEPT ![local[t].w] = "READY"]
      /\ ready' = ready \cup {local[t].w}
  BY DEF P!UnblockWaiter, P!shared
<1>3. /\ local[t].w \in Listed /\ local[t].nxt \in Listed /\ local[t].w # NULL
      /\ ready \subseteq Settled /\ local[t].pc \in Walk
      /\ waiters' \in [Process -> Listed] /\ WaitNext' \in [AnyThread -> Listed]
  BY <1>1, <1>2 DEF ThreadsInv, Pointers, PointsWell, CreatedOnce, Walk
<1>4. local[t].w \in Settled /\ local[t].w \in AnyThread
  BY <1>3, ThreadFacts DEF Listed
<1> DEFINE r == [local[t] EXCEPT !.pc = "wake", !.w = local[t].nxt]
<1>5. /\ r \in P!Local /\ r.pc = "wake" /\ r.w = local[t].nxt /\ r.nxt = local[t].nxt
      /\ r.back = local[t].back /\ r.process = local[t].process
  BY <1>1 DEF P!Local, P!Location
<1>6. local' = [local EXCEPT ![t] = r]
  BY DEF P!UnblockWaiter
<1> HIDE DEF r
<1>7. local' \in [AnyThread -> P!Local] /\ local'[t] = r /\ Others(t)
  BY <1>5, <1>6, Writes DEF ThreadsInv
<1>8. state' \in [AnyThread -> P!CpuState]
  BY <1>2 DEF ThreadsInv, ThreadKinds, P!CpuState
<1>9. ThreadKinds'
  BY <1>2, <1>7, <1>8 DEF ThreadsInv, ThreadKinds
<1>10. local'[t].pc \in Walk \ {"exit"} /\ local'[t].pc # "ready"
       /\ local'[t].pc \notin {"unlink", "unblock", "ready"}
  BY <1>5, <1>7 DEF Walk
<1>11. ready' \subseteq Settled
  BY <1>2, <1>3, <1>4
<1>12. ASSUME Ending(local'[t]) <=> Ending(local[t])
       PROVE  Ends'
  <2>1. WakesLiving'
    BY <1>1, <1>2, <1>10 DEF WakesLiving
  <2>2. ASSUME NEW c \in AnyThread
        PROVE  EndsOnce(c)'
    <3>1. EndsOnce(c) /\ (Ending(local'[c]) <=> Ending(local[c])) /\ (Spared(c)' <=> Spared(c))
      BY <1>2, <1>7, <1>12 DEF ThreadsInv, Ends, Others, Spared
    <3>2. CASE c # local[t].w
      <4>1. state'[c] = state[c] /\ (c \in ready' <=> c \in ready) /\ current' = current
        BY <1>2, <3>2 DEF ThreadsInv, ThreadKinds
      <4>. QED
        BY <3>1, <4>1 DEF EndsOnce
    <3>3. CASE c = local[t].w
      <4>1. state'[c] = "READY"
        BY <1>2, <3>3 DEF ThreadsInv, ThreadKinds
      <4>2. Ending(local[c]) => c \in Enders
        BY DEF ThreadsInv, Places, Placed
      <4>3. Spared(c) /\ c \in Enders => c # t /\ ~Ending(local[c])
        BY <1>1, <3>3, WakenIsAlive
      <4>. QED
        BY <1>1, <1>2, <3>1, <4>1, <4>2, <4>3 DEF EndsOnce
    <3>. QED
      BY <3>2, <3>3
  <2>. QED
    BY <2>1, <2>2 DEF Ends
<1>. QED
  BY <1>1, <1>2, <1>3, <1>5, <1>7, <1>9, <1>10, <1>11, <1>12, WalkStep

\* The end of the walk: back to the caller.
LEMMA WakeDoneInv ==
  ASSUME ThreadsInv, ProcessesSound, NEW t \in AnyThread, P!WakeDone(t)
  PROVE  ThreadsInv'
<1>1. current = t /\ t \in Settled /\ local[t].pc = "wake" /\ local[t] \in P!Local
  BY Acting DEF P!WakeDone
<1>2. local[t].back \in {"out", "ended"}
  BY DEF ThreadsInv, Places, Placed
<1>3. P!Go(t, local[t].back) /\ local[t].back \in P!Location
  BY <1>2 DEF P!WakeDone, P!Location
<1>4. /\ local' \in [AnyThread -> P!Local] /\ Others(t) /\ local'[t].pc = local[t].back
      /\ local'[t].process = local[t].process /\ local'[t].back = local[t].back
      /\ local'[t].w = local[t].w /\ local'[t].nxt = local[t].nxt
  BY <1>3, Goes DEF ThreadsInv
<1>5. UNCHANGED <<born, registry, count, exited, current, state, ready, waiters, WaitNext, killed>>
  BY DEF P!WakeDone, P!shared, P!cpuVars
<1>6. ThreadKinds'
  BY <1>4, <1>5 DEF ThreadsInv, ThreadKinds
<1>7. /\ ~Making(local[t]) /\ ~Making(local'[t])
      /\ local'[t].pc \notin Leaving /\ local'[t].pc \notin Walk \cup {"mark"}
      /\ local'[t].pc # "ready" /\ local'[t].pc # "drop" /\ local'[t].pc # "exit"
      /\ local'[t].pc \notin {"unlink", "unblock", "ready", "enqueue"}
  BY <1>1, <1>2, <1>4 DEF Making, Leaving, Walk
<1>8. Ending(local'[t]) <=> Ending(local[t])
  BY <1>1, <1>2, <1>4 DEF Ending, Leaving, Walk
<1>9. PointsWell(t, local'[t], Listed)
  BY <1>4, <1>7 DEF ThreadsInv, Pointers, PointsWell
<1>10. Placed(t, local'[t], killed')
  BY <1>4, <1>7, <1>8 DEF ThreadsInv, Places, Placed
<1>11. Ends' /\ killed \subseteq killed'
  BY <1>1, <1>4, <1>5, <1>7, <1>8, EndsStay DEF ThreadsInv
<1>12. waiters' \in [Process -> Listed] /\ WaitNext' \in [AnyThread -> Listed]
       /\ ready' \subseteq Settled
  BY <1>5 DEF ThreadsInv, Pointers, CreatedOnce
<1>. QED
  BY <1>1, <1>4, <1>5, <1>6, <1>7, <1>8, <1>9, <1>10, <1>11, <1>12, QuietStep

\* A waiter links itself, and blocks.
LEMMA EnqueueInv ==
  ASSUME ThreadsInv, ProcessesSound, NEW t \in AnyThread, P!Enqueue(t)
  PROVE  ThreadsInv'
<1>1. current = t /\ t \in Settled /\ local[t].pc = "enqueue" /\ local[t] \in P!Local
  BY Acting DEF P!Enqueue
<1>2. t \in Listed
  BY <1>1 DEF ThreadsInv, Pointers, PointsWell, Listed
<1>3. P!Go(t, "out") /\ "out" \in P!Location
  BY DEF P!Enqueue, P!Location
<1>4. /\ local' \in [AnyThread -> P!Local] /\ Others(t) /\ local'[t].pc = "out"
      /\ local'[t].process = local[t].process /\ local'[t].back = local[t].back
      /\ local'[t].w = local[t].w /\ local'[t].nxt = local[t].nxt
  BY <1>3, Goes DEF ThreadsInv
<1>5. /\ UNCHANGED <<born, registry, count, exited, current, ready, killed>>
      /\ state' = [state EXCEPT ![t] = "BLOCKED"]
      /\ WaitNext' = [WaitNext EXCEPT ![t] = waiters[local[t].process]]
      /\ waiters' = [waiters EXCEPT ![local[t].process] = t]
  BY <1>1 DEF P!Enqueue, P!Block, P!Link
<1>6. ThreadKinds'
  <2>1. state' \in [AnyThread -> P!CpuState]
    BY <1>5 DEF ThreadsInv, ThreadKinds, P!CpuState
  <2>. QED
    BY <1>4, <1>5, <2>1 DEF ThreadsInv, ThreadKinds
<1>7. /\ ~Making(local[t]) /\ ~Making(local'[t]) /\ ~Ending(local[t]) /\ ~Ending(local'[t])
      /\ local'[t].pc \notin Leaving /\ local'[t].pc \notin Walk \cup {"mark"}
      /\ local'[t].pc # "ready" /\ local'[t].pc # "drop"
      /\ local'[t].pc \notin {"unlink", "unblock", "ready", "enqueue"}
  BY <1>1, <1>4 DEF Making, Ending, Leaving, Walk
<1>8. PointsWell(t, local'[t], Listed)
  BY <1>4, <1>7 DEF ThreadsInv, Pointers, PointsWell
<1>9. Placed(t, local'[t], killed')
  BY <1>4, <1>7 DEF ThreadsInv, Places, Placed
<1>10. Ends'
  <2>1. WakesLiving'
    BY <1>1, <1>5, <1>7 DEF WakesLiving
  <2>2. ASSUME NEW c \in AnyThread
        PROVE  EndsOnce(c)'
    <3>1. EndsOnce(c) /\ (Ending(local'[c]) <=> Ending(local[c])) /\ (Spared(c)' <=> Spared(c))
      BY <1>4, <1>5, <1>7 DEF ThreadsInv, Ends, Others, Spared
    <3>2. CASE c = t
      <4>1. state'[c] = "BLOCKED"
        BY <1>5, <3>2 DEF ThreadsInv, ThreadKinds
      <4>. QED
        BY <1>5, <1>7, <3>1, <3>2, <4>1 DEF EndsOnce
    <3>3. CASE c # t
      <4>1. state'[c] = state[c]
        BY <1>5, <3>3 DEF ThreadsInv, ThreadKinds
      <4>. QED
        BY <1>5, <3>1, <4>1 DEF EndsOnce
    <3>. QED
      BY <3>2, <3>3
  <2>. QED
    BY <2>1, <2>2 DEF Ends
<1>11. waiters' \in [Process -> Listed]
  BY <1>2, <1>5 DEF ThreadsInv, Pointers
<1>12. WaitNext' \in [AnyThread -> Listed]
  <2>1. waiters[local[t].process] \in Listed
    BY <1>1 DEF P!Local, ThreadsInv, Pointers
  <2>. QED
    BY <1>5, <2>1 DEF ThreadsInv, Pointers
<1>13. ready' \subseteq Settled /\ killed \subseteq killed'
  BY <1>5 DEF ThreadsInv, CreatedOnce
<1>. QED
  BY <1>1, <1>4, <1>5, <1>6, <1>7, <1>8, <1>9, <1>10, <1>11, <1>12, <1>13, QuietStep

\* A thread ends itself.
LEMMA TerminateInv ==
  ASSUME ThreadsInv, ProcessesSound, NEW t \in AnyThread, P!Terminate(t)
  PROVE  ThreadsInv'
<1>1. /\ current = t /\ t \in Settled /\ local[t].pc = "out" /\ local[t] \in P!Local
      /\ Owner[t] \in Process
  BY Acting DEF P!Terminate
<1> DEFINE r == [local[t] EXCEPT !.pc = "test", !.process = Owner[t], !.back = "ended"]
<1>2. /\ r \in P!Local /\ r.pc = "test" /\ r.w = local[t].w /\ r.nxt = local[t].nxt
      /\ r.back = "ended" /\ r.process = Owner[t]
  BY <1>1 DEF P!Local, P!Location
<1>3. local' = [local EXCEPT ![t] = r]
  BY DEF P!Terminate
<1> HIDE DEF r
<1>4. local' \in [AnyThread -> P!Local] /\ local'[t] = r /\ Others(t)
  BY <1>2, <1>3, Writes DEF ThreadsInv
<1>5. /\ UNCHANGED <<born, registry, count, exited, current, ready, waiters, WaitNext, killed>>
      /\ state' = [state EXCEPT ![t] = "TERMINATED"] /\ t \in Enders
  BY DEF P!Terminate, P!shared
<1>6. ThreadKinds'
  <2>1. state' \in [AnyThread -> P!CpuState]
    BY <1>5 DEF ThreadsInv, ThreadKinds, P!CpuState
  <2>. QED
    BY <1>4, <1>5, <2>1 DEF ThreadsInv, ThreadKinds
<1>7. /\ ~Making(local[t]) /\ ~Making(local'[t]) /\ ~Ending(local[t]) /\ Ending(local'[t])
      /\ local'[t].pc \notin Walk \cup {"mark"}
      /\ local'[t].pc # "ready" /\ local'[t].pc # "drop" /\ local'[t].pc # "exit"
      /\ local'[t].pc \notin {"unlink", "unblock", "ready", "enqueue"}
  BY <1>1, <1>2, <1>4 DEF Making, Ending, Leaving, Walk
<1>8. PointsWell(t, local'[t], Listed)
  BY <1>2, <1>4, <1>7 DEF ThreadsInv, Pointers, PointsWell
<1>9. Placed(t, local'[t], killed')
  BY <1>2, <1>4, <1>5, <1>7 DEF Placed
<1>10. Ends'
  <2>1. WakesLiving'
    BY <1>1, <1>5, <1>7 DEF WakesLiving
  <2>2. ASSUME NEW c \in AnyThread
        PROVE  EndsOnce(c)'
    <3>1. EndsOnce(c) /\ (Spared(c)' <=> Spared(c))
      BY <1>5 DEF ThreadsInv, Ends, Spared
    <3>2. CASE c = t
      <4>1. state'[c] = "TERMINATED"
        BY <1>5, <3>2 DEF ThreadsInv, ThreadKinds
      <4>2. Spared(c) => c \notin ready
        BY <1>1, <1>5, <3>1, <3>2 DEF EndsOnce
      <4>. QED
        BY <1>5, <1>7, <3>1, <3>2, <4>1, <4>2 DEF EndsOnce
    <3>3. CASE c # t
      <4>1. state'[c] = state[c] /\ local'[c] = local[c]
        BY <1>4, <1>5, <3>3 DEF ThreadsInv, ThreadKinds, Others
      <4>. QED
        BY <1>5, <3>1, <4>1 DEF EndsOnce
    <3>. QED
      BY <3>2, <3>3
  <2>. QED
    BY <2>1, <2>2 DEF Ends
<1>11. waiters' \in [Process -> Listed] /\ WaitNext' \in [AnyThread -> Listed]
       /\ ready' \subseteq Settled /\ killed \subseteq killed' /\ CountsSame
  BY <1>5 DEF ThreadsInv, Pointers, CreatedOnce, CountsSame
<1>. QED
  BY <1>1, <1>4, <1>5, <1>6, <1>7, <1>8, <1>9, <1>10, <1>11, QuietWrites

\* The process has exited: by a thread of it, or killed.
LEMMA ExitInv ==
  ASSUME ThreadsInv, ProcessesSound, NEW t \in AnyThread, P!Exit(t)
  PROVE  ThreadsInv'
<1>1. /\ current = t /\ t \in Settled /\ local[t].pc = "exit" /\ local[t] \in P!Local
      /\ local[t].process \in Process
  BY Acting DEF P!Exit, P!Local
<1>2. P!Go(t, "take") /\ "take" \in P!Location
  BY DEF P!Exit, P!Location
<1>3. /\ local' \in [AnyThread -> P!Local] /\ Others(t) /\ local'[t].pc = "take"
      /\ local'[t].process = local[t].process /\ local'[t].back = local[t].back
      /\ local'[t].w = local[t].w /\ local'[t].nxt = local[t].nxt
  BY <1>2, Goes DEF ThreadsInv
<1>4. /\ UNCHANGED <<born, registry, count, current, state, ready, waiters, WaitNext, killed>>
      /\ exited' = [exited EXCEPT ![local[t].process] = TRUE]
  BY DEF P!Exit, P!SetExited, P!cpuVars
<1>5. ThreadKinds'
  <2>1. exited' \in [Process -> BOOLEAN]
    BY <1>4 DEF ThreadsInv, ThreadKinds
  <2>. QED
    BY <1>3, <1>4, <2>1 DEF ThreadsInv, ThreadKinds
<1>6. /\ ~Making(local[t]) /\ ~Making(local'[t]) /\ local'[t].pc \notin Leaving
      /\ local[t].pc \in Walk /\ local'[t].pc \in Walk
      /\ local'[t].pc # "ready" /\ local'[t].pc # "drop" /\ local'[t].pc # "exit"
      /\ local'[t].pc \notin {"unlink", "unblock", "ready", "enqueue"}
  BY <1>1, <1>3 DEF Making, Leaving, Walk
<1>7. Ending(local'[t]) <=> Ending(local[t])
  BY <1>1, <1>3 DEF Ending, Leaving, Walk
<1>8. PointsWell(t, local'[t], Listed)
  BY <1>3, <1>6 DEF ThreadsInv, Pointers, PointsWell
<1>9. Placed(t, local'[t], killed')
  BY <1>3, <1>4, <1>6, <1>7 DEF ThreadsInv, Places, Placed
<1>10. Ends' /\ killed \subseteq killed'
  BY <1>1, <1>3, <1>4, <1>6, <1>7, EndsStay DEF ThreadsInv
<1>11. waiters' \in [Process -> Listed] /\ WaitNext' \in [AnyThread -> Listed]
       /\ ready' \subseteq Settled
  BY <1>4 DEF ThreadsInv, Pointers, CreatedOnce
<1>12. CountsSame
  <2>1. ASSUME NEW p \in Process \ killed, exited'[p], ~exited[p]
        PROVE  AtExit(p)
    <3>1. p = local[t].process
      BY <1>4, <2>1 DEF ThreadsInv, ThreadKinds
    <3>2. Placed(t, local[t], killed)
      BY DEF ThreadsInv, Places
    <3>3. Ending(local[t]) /\ Owner[t] = p
      BY <1>6, <2>1, <3>1, <3>2 DEF Placed
    <3>. QED
      BY <1>1, <3>3 DEF AtExit
  <2>. QED
    BY <1>4, <2>1 DEF CountsSame
<1>. QED
  BY <1>1, <1>3, <1>4, <1>5, <1>6, <1>7, <1>8, <1>9, <1>10, <1>11, <1>12, QuietWrites

(***************************************************************************)
(* KillProcess marks threads of a process that it has killed, and no       *)
(* others, and sets the count of that process, and of no other.            *)
(***************************************************************************)
LEMMA MarkThreadInv ==
  ASSUME ThreadsInv, ProcessesSound, NEW t \in AnyThread, P!MarkThread(t)
  PROVE  ThreadsInv'
<1>1. current = t /\ t \in Settled /\ local[t].pc = "mark" /\ local[t] \in P!Local
  BY Acting DEF P!MarkThread
<1> DEFINE r == [local[t] EXCEPT !.index = local[t].index + 1]
<1>2. /\ r \in P!Local /\ r.pc = "mark" /\ r.w = local[t].w /\ r.nxt = local[t].nxt
      /\ r.back = local[t].back /\ r.process = local[t].process
  BY <1>1 DEF P!Local
<1>3. local' = [local EXCEPT ![t] = r]
  BY DEF P!MarkThread
<1> HIDE DEF r
<1>4. local' \in [AnyThread -> P!Local] /\ local'[t] = r /\ Others(t)
  BY <1>2, <1>3, Writes DEF ThreadsInv
<1>5. UNCHANGED <<born, registry, count, exited, current, ready, waiters, WaitNext, killed>>
  BY DEF P!MarkThread, P!shared
<1>6. /\ ~Making(local[t]) /\ ~Making(local'[t]) /\ ~Ending(local[t]) /\ ~Ending(local'[t])
      /\ local'[t].pc \notin Leaving /\ local'[t].pc \notin Walk /\ local'[t].pc = "mark"
      /\ local'[t].pc # "ready" /\ local'[t].pc # "drop"
      /\ local'[t].pc \notin {"unlink", "unblock", "ready", "enqueue"}
  BY <1>1, <1>2, <1>4 DEF Making, Ending, Leaving, Walk
<1>7. local[t].process \in killed
  BY <1>1, <1>6 DEF ThreadsInv, Places, Placed
<1>8. /\ state' \in [AnyThread -> P!CpuState]
      /\ \A c \in AnyThread : Spared(c) => state'[c] = state[c]
  <2>1. CASE Owner[registry[local[t].index]] = local[t].process
    <3>1. state' = [state EXCEPT ![registry[local[t].index]] = "TERMINATED"]
      BY <2>1 DEF P!MarkThread
    <3>2. \A c \in AnyThread : Spared(c) => c # registry[local[t].index]
      BY <1>7, <2>1 DEF Spared
    <3>. QED
      BY <3>1, <3>2 DEF ThreadsInv, ThreadKinds, P!CpuState
  <2>2. CASE Owner[registry[local[t].index]] # local[t].process
    <3>1. state' = state
      BY <2>2 DEF P!MarkThread
    <3>. QED
      BY <3>1 DEF ThreadsInv, ThreadKinds
  <2>. QED
    BY <2>1, <2>2
<1>9. ThreadKinds'
  BY <1>4, <1>5, <1>8 DEF ThreadsInv, ThreadKinds
<1>10. PointsWell(t, local'[t], Listed)
  BY <1>2, <1>4, <1>6 DEF ThreadsInv, Pointers, PointsWell
<1>11. Placed(t, local'[t], killed')
  <2>1. Placed(t, local[t], killed)
    BY DEF ThreadsInv, Places
  <2>2. local'[t].back = "out" /\ local'[t].process \in killed'
    BY <1>1, <1>2, <1>4, <1>5, <1>7, <2>1 DEF Placed
  <2>. QED
    BY <1>6, <2>2 DEF Placed
<1>12. Ends'
  <2>1. WakesLiving'
    BY <1>1, <1>5, <1>6 DEF WakesLiving
  <2>2. ASSUME NEW c \in AnyThread
        PROVE  EndsOnce(c)'
    <3>1. EndsOnce(c) /\ (Ending(local'[c]) <=> Ending(local[c])) /\ (Spared(c)' <=> Spared(c))
      BY <1>4, <1>5, <1>6 DEF ThreadsInv, Ends, Others, Spared
    <3>. QED
      BY <1>5, <1>8, <3>1 DEF EndsOnce
  <2>. QED
    BY <2>1, <2>2 DEF Ends
<1>13. waiters' \in [Process -> Listed] /\ WaitNext' \in [AnyThread -> Listed]
       /\ ready' \subseteq Settled /\ killed \subseteq killed'
  BY <1>5 DEF ThreadsInv, Pointers, CreatedOnce
<1>. QED
  BY <1>1, <1>4, <1>5, <1>6, <1>9, <1>10, <1>11, <1>12, <1>13, QuietStep

LEMMA ZeroCountInv ==
  ASSUME ThreadsInv, ProcessesSound, NEW t \in AnyThread, P!ZeroCount(t)
  PROVE  ThreadsInv'
<1>1. current = t /\ t \in Settled /\ local[t].pc = "mark" /\ local[t] \in P!Local
  BY Acting DEF P!ZeroCount
<1>2. P!Go(t, "exit") /\ "exit" \in P!Location
  BY DEF P!ZeroCount, P!Location
<1>3. /\ local' \in [AnyThread -> P!Local] /\ Others(t) /\ local'[t].pc = "exit"
      /\ local'[t].process = local[t].process /\ local'[t].back = local[t].back
      /\ local'[t].w = local[t].w /\ local'[t].nxt = local[t].nxt
  BY <1>2, Goes DEF ThreadsInv
<1>4. /\ UNCHANGED <<born, registry, exited, current, state, ready, waiters, WaitNext, killed>>
      /\ count' = [count EXCEPT ![local[t].process] = 0]
  BY DEF P!ZeroCount, P!cpuVars
<1>5. ThreadKinds'
  <2>1. count' \in [Process -> Nat]
    BY <1>4 DEF ThreadsInv, ThreadKinds
  <2>. QED
    BY <1>3, <1>4, <2>1 DEF ThreadsInv, ThreadKinds
<1>6. ~Ending(local[t])
  BY <1>1 DEF Ending, Leaving, Walk
<1>7. Placed(t, local[t], killed)
  BY DEF ThreadsInv, Places
<1>8. local[t].process \in killed
  BY <1>1, <1>6, <1>7 DEF Placed
<1>9. local[t].back = "out"
  BY <1>1, <1>7 DEF Placed
<1>10. /\ ~Making(local[t]) /\ ~Making(local'[t]) /\ ~Ending(local'[t])
       /\ local'[t].pc \notin Leaving /\ local'[t].pc # "mark"
       /\ local'[t].pc # "ready" /\ local'[t].pc # "drop"
       /\ local'[t].pc \notin {"unlink", "unblock", "ready", "enqueue"}
  BY <1>1, <1>3, <1>9 DEF Making, Ending, Leaving, Walk
<1>11. PointsWell(t, local'[t], Listed)
  BY <1>3, <1>10 DEF ThreadsInv, Pointers, PointsWell
<1>12. Placed(t, local'[t], killed')
  BY <1>3, <1>4, <1>8, <1>9, <1>10 DEF Placed
<1>13. Ends' /\ killed \subseteq killed'
  BY <1>1, <1>3, <1>4, <1>6, <1>10, EndsStay DEF ThreadsInv
<1>14. waiters' \in [Process -> Listed] /\ WaitNext' \in [AnyThread -> Listed]
       /\ ready' \subseteq Settled
  BY <1>4 DEF ThreadsInv, Pointers, CreatedOnce
<1>15. CountsSame
  BY <1>4, <1>8 DEF CountsSame, ThreadsInv, ThreadKinds
<1>. QED
  BY <1>1, <1>3, <1>4, <1>5, <1>6, <1>10, <1>11, <1>12, <1>13, <1>14, <1>15, QuietWrites

(***************************************************************************)
(* --thread_count.  While a thread is between its load and its store no    *)
(* other runs, or it never stores: the count is exact enough for a 1 to    *)
(* mean that nobody is left.                                               *)
(***************************************************************************)
LEMMA SettledCounts ==
  ASSUME ThreadsInv, NEW c \in Settled
  PROVE  c \in born /\ c \notin Uncounted /\ c \in P!Members(Owner[c])
BY DEF Settled, Newcomers, Uncounted, Making, P!Members

LEMMA LeaverPresent ==
  ASSUME ThreadsInv, NEW t \in AnyThread, current = t, t \in Settled, local[t].pc \in Leaving
  PROVE  t \in Present(Owner[t])
BY SettledCounts DEF Present

LEMMA NobodyLeft ==
  ASSUME ThreadsInv, ProcessesSound, NEW t \in AnyThread, current = t, t \in Settled,
         local[t].pc \in Leaving, Owner[t] \in Process \ killed, count[Owner[t]] = 1
  PROVE  AllEnd(Owner[t])
<1> DEFINE p == Owner[t]
<1>1. t \in Present(p) /\ t \in P!Members(p) /\ Ending(local[t])
  BY LeaverPresent, SettledCounts DEF Ending
<1>2. Cardinality(Present(p)) <= 1
  BY DEF ThreadsInv, Counts, CountFits, Bounds
<1>3. IsFiniteSet(Present(p)) /\ Cardinality(Present(p)) \in Nat
  BY PresentFinite DEF ThreadsInv
<1>4. \A c \in Present(p) : c = t
  <2>1. IsFiniteSet(Present(p) \ {t}) /\ Cardinality(Present(p) \ {t}) = Cardinality(Present(p)) - 1
    BY <1>1, <1>3, FS_RemoveElement
  <2>2. Cardinality(Present(p) \ {t}) = 0
    <3>1. Cardinality(Present(p) \ {t}) \in Nat
      BY <2>1, FS_CardinalityType
    <3>. QED
      BY <1>2, <1>3, <2>1, <3>1
  <2>3. Present(p) \ {t} = {}
    BY <2>1, <2>2, FS_EmptySet
  <2>. QED
    BY <2>3
<1>5. ASSUME NEW c \in AnyThread, local[c].pc = "store", Owner[local[c].thread] = p
      PROVE  FALSE
  <2>1. Making(local[c]) /\ ~Ending(local[c]) /\ c # t
    BY <1>1, <1>5 DEF Making, Ending, Leaving, Walk
  <2>2. Creation(c)
    BY <2>1 DEF ThreadsInv, CreatedOnce
  <2>3. c \in Settled
    BY <1>5 DEF ThreadsInv, CreatedOnce
  <2>4. local[c].thread \notin Settled
    BY <2>1 DEF Settled, Newcomers
  <2>5. CASE Owner[c] = p
    <3>1. c \in Present(p)
      BY <2>1, <2>3, <2>5, SettledCounts DEF Present
    <3>. QED
      BY <1>4, <2>1, <3>1
  <2>6. CASE Owner[c] # p
    <3>1. P!Members(p) = {local[c].thread}
      BY <1>5, <2>2, <2>6 DEF Creation
    <3>. QED
      BY <1>1, <2>4, <3>1
  <2>. QED
    BY <2>5, <2>6
<1>6. \A c \in P!Members(p) : c \notin Uncounted
  BY <1>5 DEF P!Members, Uncounted
<1>7. \A c \in P!Members(p) : Ending(local[c])
  BY <1>1, <1>4, <1>6 DEF Present
<1>. QED
  BY <1>1, <1>7 DEF AllEnd

LEMMA OneLess ==
  ASSUME NEW n \in Nat, NEW M \in Nat \ {0}
  PROVE  (n - 1) % M \in Nat /\ (n > 0 /\ n < M => (n - 1) % M = n - 1)
OBVIOUS

LEMMA DropThreadCounts ==
  ASSUME ThreadsInv, ProcessesSound, NEW t \in AnyThread, current = t, t \in Settled,
         local[t].pc = "drop", Owner[t] \in Process, Others(t), ThreadKinds',
         UNCHANGED <<born, exited, current, killed>>,
         count' = [count EXCEPT ![Owner[t]] = (local[t].loaded - 1) % CountModulus],
         local'[t].pc = IF P!IsLast(local[t].loaded) THEN "exit" ELSE "ended",
         Ending(local[t]), Ending(local'[t])
  PROVE  Counts'
<1>1. SUFFICES ASSUME NEW p \in Process \ killed
               PROVE  CountFits(p)'
  BY DEF Counts
<1>2. CountFits(p)
  BY <1>1 DEF ThreadsInv, Counts
<1>3. P!Members(p)' = P!Members(p)
  BY DEF P!Members
<1>4. \A c \in AnyThread : /\ local'[c].pc = "store" <=> local[c].pc = "store"
                           /\ local[c].pc = "store" => local'[c] = local[c]
                           /\ Ending(local'[c]) <=> Ending(local[c])
  BY DEF Others
<1>5. Uncounted' = Uncounted
  BY <1>4 DEF Uncounted
<1>6. local'[t].pc \notin Leaving /\ local'[t].pc # "drop"
  BY DEF Leaving
<1>7. Present(p)' \subseteq Present(p) \ {t}
  <2>1. \A c \in P!Members(p) : c \in AnyThread
    BY DEF P!Members, ThreadsInv, ThreadKinds
  <2>2. \A c \in AnyThread : Ending(local'[c]) => ~(c = current' /\ local'[c].pc \in Leaving)
    BY <1>6
  <2>3. \A c \in Present(p)' : c \in P!Members(p) /\ c \notin Uncounted /\ ~Ending(local'[c])
    BY <1>3, <1>5, <2>1, <2>2 DEF Present
  <2>. QED
    BY <1>4, <2>1, <2>3 DEF Present
<1>8. AllEnd(p) => AllEnd(p)'
  <2>1. \A c \in P!Members(p) : c \in AnyThread
    BY DEF P!Members, ThreadsInv, ThreadKinds
  <2>. QED
    BY <1>3, <1>4, <2>1 DEF AllEnd
<1>9. IsFiniteSet(Present(p)) /\ Cardinality(Present(p)) \in Nat /\ count[p] \in Nat
  BY PresentFinite DEF ThreadsInv, ThreadKinds
<1>10. /\ Cardinality(Present(p)) <= count[p] /\ count[p] <= Cardinality(P!Members(p))
       /\ Cardinality(P!Members(p)) \in Nat /\ Cardinality(P!Members(p)) < CountModulus
       /\ CountModulus \in Nat \ {0}
  BY <1>2, MembersFinite DEF CountFits, Bounds, ThreadsInv
<1>11. DropFits(p)'
  BY <1>6 DEF DropFits
<1>12. CASE p # Owner[t]
  <2>1. count'[p] = count[p]
    BY <1>12 DEF ThreadsInv, ThreadKinds
  <2>2. IsFiniteSet(Present(p)') /\ Cardinality(Present(p)') <= Cardinality(Present(p))
    <3>1. Present(p)' \subseteq Present(p)
      BY <1>7
    <3>. QED
      BY <1>9, <3>1, FS_Subset
  <2>3. Cardinality(Present(p)') \in Nat
    BY <2>2, FS_CardinalityType
  <2>4. Cardinality(Present(p)') <= count[p]
    BY <1>9, <1>10, <2>2, <2>3
  <2>5. Bounds(p)'
    BY <1>3, <1>10, <2>1, <2>4 DEF Bounds
  <2>6. LoadedFits(p)'
    BY <1>2, <1>3, <1>4, <2>1 DEF CountFits, LoadedFits
  <2>7. AtExit(p)' => AtExit(p)
    BY <1>12 DEF AtExit, Others
  <2>. QED
    BY <1>2, <1>8, <1>11, <2>5, <2>6, <2>7 DEF CountFits
<1>13. CASE p = Owner[t]
  <2>1. t \in Present(p)
    BY <1>13, LeaverPresent DEF Leaving
  <2>2. /\ IsFiniteSet(Present(p) \ {t})
        /\ Cardinality(Present(p) \ {t}) = Cardinality(Present(p)) - 1
    BY <1>9, <2>1, FS_RemoveElement
  <2>3. Cardinality(Present(p) \ {t}) \in Nat
    BY <2>2, FS_CardinalityType
  <2>4. count[p] > 0 /\ count[p] < CountModulus
    BY <1>9, <1>10, <2>2, <2>3
  <2>5. local[t].loaded = count[p]
    BY <1>2, <1>13 DEF CountFits, DropFits
  <2>6. count'[p] = count[p] - 1
    <3>1. count'[p] = (count[p] - 1) % CountModulus
      BY <1>13, <2>5 DEF ThreadsInv, ThreadKinds
    <3>. QED
      BY <1>9, <1>10, <2>4, <3>1, OneLess
  <2>7. IsFiniteSet(Present(p)') /\ Cardinality(Present(p)') <= Cardinality(Present(p) \ {t})
    BY <1>7, <2>2, FS_Subset
  <2>8. Cardinality(Present(p)') \in Nat
    BY <2>7, FS_CardinalityType
  <2>9. /\ Cardinality(Present(p)') <= count[p] - 1
        /\ count[p] - 1 <= Cardinality(P!Members(p))
    BY <1>9, <1>10, <2>2, <2>3, <2>7, <2>8
  <2>10. Bounds(p)'
    BY <1>3, <2>6, <2>9 DEF Bounds
  <2>11. LoadedFits(p)'
    <3>1. ASSUME NEW c \in AnyThread, local'[c].pc = "store", Owner[local'[c].thread] = p
          PROVE  /\ count[p] - 1 <= local'[c].loaded
                 /\ local'[c].loaded < Cardinality(P!Members(p))
      <4>1. local'[c] = local[c] /\ local[c].pc = "store"
        BY <1>4, <3>1
      <4>2. /\ count[p] <= local[c].loaded /\ local[c].loaded < Cardinality(P!Members(p))
            /\ local[c].loaded \in Nat
        BY <1>2, <3>1, <4>1 DEF CountFits, LoadedFits, ThreadsInv, ThreadKinds, P!Local
      <4>. QED
        BY <1>9, <4>1, <4>2
    <3>. QED
      BY <1>3, <2>6, <3>1 DEF LoadedFits
  <2>12. AtExit(p)' => AtExit(p) \/ AllEnd(p)
    <3>1. CASE count[p] = 1
      BY <1>1, <1>13, <3>1, NobodyLeft DEF Leaving
    <3>2. CASE count[p] # 1
      <4>1. local'[t].pc = "ended"
        BY <2>5, <3>2 DEF P!IsLast
      <4>. QED
        BY <4>1 DEF AtExit, Others
    <3>. QED
      BY <3>1, <3>2
  <2>. QED
    BY <1>2, <1>8, <1>11, <2>10, <2>11, <2>12 DEF CountFits
<1>. QED
  BY <1>12, <1>13

LEMMA DropThreadInv ==
  ASSUME ThreadsInv, ProcessesSound, NEW t \in AnyThread, P!DropThread(t)
  PROVE  ThreadsInv'
<1>1. /\ current = t /\ t \in Settled /\ local[t].pc = "drop" /\ local[t] \in P!Local
      /\ Owner[t] \in Process
  BY Acting DEF P!DropThread
<1>2. PICK l \in {"exit", "ended"} : /\ P!Go(t, l)
                                     /\ l = IF P!IsLast(local[t].loaded) THEN "exit" ELSE "ended"
  BY DEF P!DropThread
<1>3. l \in P!Location
  BY <1>2 DEF P!Location
<1>4. /\ local' \in [AnyThread -> P!Local] /\ Others(t) /\ local'[t].pc = l
      /\ local'[t].process = local[t].process /\ local'[t].back = local[t].back
      /\ local'[t].w = local[t].w /\ local'[t].nxt = local[t].nxt
  BY <1>2, <1>3, Goes DEF ThreadsInv
<1>5. /\ UNCHANGED <<born, registry, exited, current, state, ready, waiters, WaitNext, killed>>
      /\ count' = [count EXCEPT ![Owner[t]] = (local[t].loaded - 1) % CountModulus]
  BY DEF P!DropThread, P!cpuVars
<1>6. ThreadKinds'
  <2>1. (local[t].loaded - 1) % CountModulus \in Nat
    BY <1>1, OneLess, MembersFinite DEF P!Local, ThreadsInv
  <2>2. count' \in [Process -> Nat]
    BY <1>5, <2>1 DEF ThreadsInv, ThreadKinds
  <2>. QED
    BY <1>4, <1>5, <2>2 DEF ThreadsInv, ThreadKinds
<1>7. /\ ~Making(local[t]) /\ ~Making(local'[t]) /\ Ending(local[t])
      /\ local[t].pc \in Leaving /\ local'[t].pc \notin Leaving \cup {"mark"}
      /\ local'[t].pc # "ready"
      /\ local'[t].pc \notin {"unlink", "unblock", "ready", "enqueue"}
  BY <1>1, <1>2, <1>4 DEF Making, Ending, Leaving, Walk
<1>8. Placed(t, local[t], killed)
  BY DEF ThreadsInv, Places
<1>9. local'[t].back = "ended" /\ local'[t].process = Owner[t] /\ t \in Enders
  BY <1>4, <1>7, <1>8 DEF Placed
<1>10. Ending(local'[t])
  BY <1>2, <1>4, <1>9 DEF Ending, Walk
<1>11. PointsWell(t, local'[t], Listed)
  BY <1>4, <1>7 DEF ThreadsInv, Pointers, PointsWell
<1>12. Placed(t, local'[t], killed')
  BY <1>7, <1>9, <1>10 DEF Placed
<1>13. Ends' /\ killed \subseteq killed'
  BY <1>1, <1>4, <1>5, <1>7, <1>10, EndsStay DEF ThreadsInv
<1>14. CreatedOnce'
  <2>1. current' \in Settled /\ ready' \subseteq Settled
    BY <1>1, <1>5 DEF ThreadsInv, CreatedOnce
  <2>. QED
    BY <1>1, <1>4, <1>5, <1>7, <2>1, CreatedOnceStays DEF ThreadsInv
<1>15. Pointers'
  <2>1. Listed' = Listed
    BY <1>4, <1>5, <1>7, CreationsStay DEF ThreadsInv
  <2>2. waiters' \in [Process -> Listed] /\ WaitNext' \in [AnyThread -> Listed]
    BY <1>5 DEF ThreadsInv, Pointers
  <2>. QED
    BY <1>4, <1>11, <2>1, <2>2, PointersStay DEF ThreadsInv
<1>16. Places'
  BY <1>4, <1>12, <1>13, PlacesStay DEF ThreadsInv
<1>17. Counts'
  BY <1>1, <1>2, <1>4, <1>5, <1>6, <1>7, <1>10, DropThreadCounts
<1>. QED
  BY <1>6, <1>13, <1>14, <1>15, <1>16, <1>17 DEF ThreadsInv

(***************************************************************************)
(* The switch.  Whoever has ended and is not killed is in no queue: it is  *)
(* not the one that runs next, and does not come back.                     *)
(***************************************************************************)
LEMMA SwitchEnds ==
  ASSUME ThreadsInv, NEW t \in AnyThread, t \in ready, current \in AnyThread,
         UNCHANGED <<local, killed>>, current' = t,
         ready' = (ready \ {t}) \cup (IF state[current] = "RUNNING" THEN {current} ELSE {}),
         state'[t] = "RUNNING",
         \A c \in AnyThread \ {t} : state'[c] = "TERMINATED" <=> state[c] = "TERMINATED"
  PROVE  Ends'
<1>1. \A c \in AnyThread : Spared(c)' <=> Spared(c)
  BY DEF Spared
<1>2. \A c \in AnyThread : EndsOnce(c)
  BY DEF ThreadsInv, Ends
<1>3. Spared(t) => ~Ending(local[t])
  BY <1>2 DEF EndsOnce
<1>4. ASSUME NEW c \in AnyThread, Spared(c)
      PROVE  EndsOnce(c)'
  <2>1. state'[c] = "TERMINATED" <=> Ending(local[c])
    <3>1. CASE c = t
      BY <1>3, <1>4, <3>1
    <3>2. CASE c # t
      BY <1>2, <1>4, <3>2 DEF EndsOnce
    <3>. QED
      BY <3>1, <3>2
  <2>2. Ending(local[c]) => c \notin ready'
    BY <1>2, <1>4 DEF EndsOnce
  <2>3. c \in Enders /\ c = t => c \notin ready'
    BY <1>2, <1>4 DEF EndsOnce
  <2>. QED
    BY <2>1, <2>2, <2>3 DEF EndsOnce
<1>5. \A c \in AnyThread : EndsOnce(c)'
  <2>1. \A c \in AnyThread : ~Spared(c) => EndsOnce(c)'
    BY <1>1 DEF EndsOnce
  <2>. QED
    BY <1>4, <2>1
<1>6. WakesLiving'
  <2>1. SUFFICES ASSUME local[t].pc = "ready", killed = {}
                 PROVE  FALSE
    BY DEF WakesLiving
  <2>2. Spared(t) /\ local[t].pc \in Walk
    BY <2>1 DEF Spared, Walk
  <2>3. Placed(t, local[t], killed)
    BY DEF ThreadsInv, Places
  <2>4. Ending(local[t])
    BY <2>1, <2>2, <2>3 DEF Placed
  <2>. QED
    BY <1>3, <2>2, <2>4
<1>. QED
  BY <1>5, <1>6 DEF Ends

LEMMA SwitchCounts ==
  ASSUME ThreadsInv, ProcessesSound, ThreadKinds', NEW t \in AnyThread, t \in ready,
         current' = t, UNCHANGED <<local, born, count, exited, killed>>
  PROVE  Counts'
<1>1. SUFFICES ASSUME NEW p \in Process \ killed
               PROVE  CountFits(p)'
  BY DEF Counts
<1>2. CountFits(p) /\ p \in Process
  BY <1>1 DEF ThreadsInv, Counts
<1>3. Owner[t] = p => ~Ending(local[t])
  BY <1>1 DEF ThreadsInv, Ends, EndsOnce, Spared
<1>4. P!Members(p)' = P!Members(p) /\ Uncounted' = Uncounted
  BY DEF P!Members, Uncounted
<1>5. Present(p)' \subseteq Present(p)
  <2>1. \A c \in P!Members(p) : Owner[c] = p
    BY DEF P!Members
  <2>2. \A c \in Present(p)' : c \in P!Members(p) /\ c \notin Uncounted /\ ~Ending(local[c])
    BY <1>3, <1>4, <2>1 DEF Present
  <2>. QED
    BY <2>2 DEF Present
<1>6. Bounds(p)'
  <2>1. Cardinality(Present(p)') <= Cardinality(Present(p)) /\ Cardinality(Present(p)') \in Nat
    BY <1>5, PresentFinite, FS_Subset, FS_CardinalityType DEF ThreadsInv
  <2>2. Cardinality(Present(p)) <= count[p] /\ count[p] <= Cardinality(P!Members(p))
    BY <1>2 DEF CountFits, Bounds
  <2>3. Cardinality(Present(p)) \in Nat /\ count[p] \in Nat
    BY <1>2, PresentFinite DEF ThreadsInv, ThreadKinds
  <2>4. Cardinality(Present(p)') <= count[p]
    BY <2>1, <2>2, <2>3
  <2>. QED
    BY <1>4, <2>2, <2>4 DEF Bounds
<1>7. LoadedFits(p)'
  BY <1>2, <1>4 DEF CountFits, LoadedFits
<1>8. DropFits(p)'
  BY <1>3 DEF DropFits, Ending, Leaving
<1>9. AtExit(p)' => AtExit(p)
  BY DEF AtExit
<1>10. AllEnd(p) => AllEnd(p)'
  BY <1>4 DEF AllEnd
<1>. QED
  BY <1>2, <1>6, <1>7, <1>8, <1>9, <1>10 DEF CountFits

LEMMA SwitchInv ==
  ASSUME ThreadsInv, ProcessesSound, NEW t \in AnyThread, P!Switch(t)
  PROVE  ThreadsInv'
<1>1. /\ t \in ready /\ current' = t
      /\ ready' = (ready \ {t}) \cup (IF state[current] = "RUNNING" THEN {current} ELSE {})
      /\ UNCHANGED <<born, registry, count, exited, waiters, WaitNext, local, killed>>
  BY DEF P!Switch, P!SwitchTo, P!shared
<1>2. current \in AnyThread /\ current \in Settled /\ ready \subseteq Settled
  BY DEF ThreadsInv, CreatedOnce, ThreadKinds, Settled
<1>3. /\ state' \in [AnyThread -> P!CpuState] /\ state'[t] = "RUNNING"
      /\ \A c \in AnyThread \ {t} : state'[c] = "TERMINATED" <=> state[c] = "TERMINATED"
  <2>1. state' = [state EXCEPT ![current] = IF @ = "RUNNING" THEN "READY" ELSE @,
                               ![t] = "RUNNING"]
    BY DEF P!Switch, P!SwitchTo
  <2>2. state \in [AnyThread -> P!CpuState]
    BY DEF ThreadsInv, ThreadKinds
  <2>. QED
    BY <1>2, <2>1, <2>2 DEF P!CpuState
<1>4. ThreadKinds'
  BY <1>1, <1>3 DEF ThreadsInv, ThreadKinds
<1>5. CreatedOnce'
  <2>1. t \in Settled /\ current' \in Settled /\ ready' \subseteq Settled
    BY <1>1, <1>2
  <2>. QED
    BY <1>1, <2>1, CreatedOnceStays DEF Others, ThreadsInv
<1>6. Pointers'
  <2>1. Others(t)
    BY <1>1 DEF Others
  <2>2. Listed' = Listed
    BY <1>1, <2>1, CreationsStay DEF ThreadsInv
  <2>. QED
    BY <1>1, <2>1, <2>2, PointersStay DEF ThreadsInv, Pointers
<1>7. Places'
  BY <1>1 DEF ThreadsInv, Places
<1>8. Ends'
  BY <1>1, <1>2, <1>3, SwitchEnds
<1>9. Counts'
  BY <1>1, <1>4, SwitchCounts
<1>. QED
  BY <1>4, <1>5, <1>6, <1>7, <1>8, <1>9 DEF ThreadsInv

(***************************************************************************)
(* The creation of a thread, from its entry in the process to its place in *)
(* the ready queue.                                                        *)
(***************************************************************************)
\* A thread that creates threads is one of its process's, and no other
\* creation is under way there.
LEMMA OneCreation ==
  ASSUME ThreadsInv, ProcessesSound, NEW t \in Creators, t \in Settled,
         NEW d \in AnyThread, Making(local[d]), Owner[local[d].thread] = Owner[t]
  PROVE  d = t
<1>1. Creation(d) /\ local[d].thread \notin Settled
  BY DEF ThreadsInv, CreatedOnce, Settled, Newcomers
<1>2. t \in P!Members(Owner[t])
  BY SettledCounts
<1>3. Owner[d] = Owner[t]
  BY <1>1, <1>2 DEF Creation
<1>. QED
  BY <1>1, <1>3 DEF Creation, ProcessesSound, OneCreatorEach

LEMMA CreateUserThreadCreates ==
  ASSUME ThreadsInv, ProcessesSound, NEW t \in AnyThread, NEW u \in AnyThread,
         current = t, t \in Settled, t \in Creators, u \notin born,
         Owner[u] = Owner[t] \/ P!Members(Owner[u]) = {},
         Others(t), local[t].pc = "out", local'[t].pc = "store", local'[t].thread = u,
         born' = born \cup {u}, UNCHANGED <<current, ready>>
  PROVE  Settled' = Settled /\ CreatedOnce'
<1>1. \A c \in AnyThread : Making(local'[c]) <=> c = t \/ Making(local[c])
  BY DEF Others, Making
<1>2. Newcomers' = Newcomers \cup {u}
  <2>1. Newcomers' \subseteq Newcomers \cup {u}
    BY <1>1 DEF Newcomers, Others
  <2>2. ~Making(local[t])
    BY DEF Making
  <2>3. Newcomers \cup {u} \subseteq Newcomers'
    BY <1>1, <2>2 DEF Newcomers, Others
  <2>. QED
    BY <2>1, <2>3
<1>3. Settled' = Settled
  BY <1>2 DEF Settled
<1>4. P!Members(Owner[u])' = P!Members(Owner[u]) \cup {u}
  BY DEF P!Members
<1>5. \A c \in AnyThread : Making(local[c]) => Creation(c) /\ local[c].thread \notin Settled
  BY DEF ThreadsInv, CreatedOnce, Settled, Newcomers
<1>6. ASSUME NEW d \in AnyThread, d # t, Making(local[d])
      PROVE  Owner[local[d].thread] # Owner[u]
  <2>1. SUFFICES ASSUME Owner[local[d].thread] = Owner[u]
                 PROVE  FALSE
    OBVIOUS
  <2>2. local[d].thread \in P!Members(Owner[u])
    BY <1>5, <1>6, <2>1 DEF Creation, P!Members
  <2>3. Owner[local[d].thread] = Owner[t]
    BY <2>1, <2>2
  <2>. QED
    BY <1>6, <2>3, OneCreation
<1>7. ASSUME NEW c \in AnyThread, Making(local'[c])
      PROVE  Creation(c)'
  <2>1. CASE c = t
    BY <1>4, <2>1 DEF Creation
  <2>2. CASE c # t
    <3>1. Making(local[c]) /\ local'[c].thread = local[c].thread
      BY <1>1, <1>7, <2>2 DEF Others
    <3>2. Creation(c) /\ Owner[local[c].thread] # Owner[u]
      BY <1>5, <1>6, <2>2, <3>1
    <3>3. P!Members(Owner[local[c].thread])' = P!Members(Owner[local[c].thread])
      BY <3>1, <3>2 DEF P!Members
    <3>. QED
      BY <3>1, <3>2, <3>3 DEF Creation
  <2>. QED
    BY <2>1, <2>2
<1>8. ASSUME NEW c \in AnyThread, NEW d \in AnyThread, Making(local'[c]), Making(local'[d]),
             Owner[local'[c].thread] = Owner[local'[d].thread]
      PROVE  c = d
  <2>1. \A a \in AnyThread \ {t} : Making(local'[a]) =>
          /\ Making(local[a]) /\ local'[a].thread = local[a].thread
          /\ Owner[local'[a].thread] # Owner[u]
    BY <1>1, <1>6 DEF Others
  <2>2. CASE c = t \/ d = t
    BY <1>8, <2>1, <2>2
  <2>3. CASE c # t /\ d # t
    BY <1>8, <2>1, <2>3 DEF ThreadsInv, CreatedOnce
  <2>. QED
    BY <2>2, <2>3
<1>9. \A c \in AnyThread \ Settled : local'[c].pc = "out"
  BY DEF ThreadsInv, CreatedOnce, Others
<1>10. current' \in Settled /\ ready' \subseteq Settled
  BY DEF ThreadsInv, CreatedOnce
<1>. QED
  BY <1>3, <1>7, <1>8, <1>9, <1>10 DEF CreatedOnce

LEMMA CreateUserThreadCounts ==
  ASSUME ThreadsInv, ProcessesSound, ThreadKinds', NEW t \in AnyThread, NEW u \in AnyThread,
         current = t, t \in Settled, u \notin born,
         Owner[u] = Owner[t] \/ P!Members(Owner[u]) = {},
         Others(t), local[t].pc = "out", local'[t].pc = "store", local'[t].thread = u,
         local'[t].loaded = count[Owner[u]],
         born' = born \cup {u}, UNCHANGED <<current, count, exited, killed>>
  PROVE  Counts'
<1>1. SUFFICES ASSUME NEW p \in Process \ killed
               PROVE  CountFits(p)'
  BY DEF Counts
<1>2. CountFits(p) /\ p \in Process
  BY <1>1 DEF ThreadsInv, Counts
<1>3. \A c \in AnyThread : Ending(local'[c]) <=> Ending(local[c])
  BY DEF Others, Ending, Leaving, Walk
<1>4. /\ P!Members(p) \subseteq P!Members(p)' /\ P!Members(p)' \subseteq P!Members(p) \cup {u}
      /\ P!Members(p) \subseteq AnyThread /\ u \notin P!Members(p)
      /\ Owner[u] = p => P!Members(p)' = P!Members(p) \cup {u}
      /\ Owner[u] # p => P!Members(p)' = P!Members(p)
  BY DEF P!Members, ThreadsInv, ThreadKinds
<1>5. Uncounted \cup {u} \subseteq Uncounted'
  BY DEF Uncounted, Others
<1>6. Present(p)' \subseteq Present(p)
  <2>1. \A c \in Present(p)' : /\ c \in P!Members(p) /\ c \notin Uncounted
                               /\ Ending(local[c]) => c = t /\ local'[c].pc \in Leaving
    BY <1>3, <1>4, <1>5 DEF Present
  <2>2. ~Ending(local[t])
    BY DEF Ending, Leaving, Walk
  <2>. QED
    BY <2>1, <2>2 DEF Present
<1>7. /\ IsFiniteSet(P!Members(p)) /\ Cardinality(P!Members(p)) \in Nat
      /\ IsFiniteSet(P!Members(p)') /\ Cardinality(P!Members(p)') \in Nat
      /\ Cardinality(P!Members(p)) <= Cardinality(P!Members(p)')
      /\ Owner[u] = p => Cardinality(P!Members(p)') = Cardinality(P!Members(p)) + 1
  <2>1. IsFiniteSet(P!Members(p)) /\ Cardinality(P!Members(p)) \in Nat
    BY MembersFinite DEF ThreadsInv
  <2>2. /\ IsFiniteSet(P!Members(p) \cup {u})
        /\ Cardinality(P!Members(p) \cup {u}) = Cardinality(P!Members(p)) + 1
    BY <1>4, <2>1, FS_AddElement
  <2>3. CASE Owner[u] = p
    <3>1. P!Members(p)' = P!Members(p) \cup {u}
      BY <1>4, <2>3
    <3>2. /\ IsFiniteSet(P!Members(p)')
          /\ Cardinality(P!Members(p)') = Cardinality(P!Members(p)) + 1
      BY <2>2, <3>1, Zenon
    <3>. QED
      BY <2>1, <2>3, <3>2
  <2>4. CASE Owner[u] # p
    BY <1>4, <2>1, <2>4
  <2>. QED
    BY <2>3, <2>4
<1>8. Bounds(p)'
  <2>1. Cardinality(Present(p)') <= Cardinality(Present(p)) /\ Cardinality(Present(p)') \in Nat
    BY <1>6, PresentFinite, FS_Subset, FS_CardinalityType DEF ThreadsInv
  <2>2. Cardinality(Present(p)) <= count[p] /\ count[p] <= Cardinality(P!Members(p))
    BY <1>2 DEF CountFits, Bounds
  <2>3. Cardinality(Present(p)) \in Nat /\ count[p] \in Nat
    BY <1>2, PresentFinite DEF ThreadsInv, ThreadKinds
  <2>4. Cardinality(Present(p)') <= count[p] /\ count[p] <= Cardinality(P!Members(p)')
    BY <1>7, <2>1, <2>2, <2>3
  <2>. QED
    BY <2>4 DEF Bounds
<1>9. LoadedFits(p)'
  <2>1. ASSUME NEW c \in AnyThread, local'[c].pc = "store", Owner[local'[c].thread] = p
        PROVE  /\ count[p] <= local'[c].loaded
               /\ local'[c].loaded < Cardinality(P!Members(p)')
    <3>1. CASE c = t
      <4>1. Owner[u] = p /\ local'[c].loaded = count[p]
        BY <2>1, <3>1
      <4>2. count[p] <= Cardinality(P!Members(p)) /\ count[p] \in Nat
        BY <1>2 DEF CountFits, Bounds, ThreadsInv, ThreadKinds
      <4>. QED
        BY <1>7, <4>1, <4>2
    <3>2. CASE c # t
      <4>1. local'[c] = local[c]
        BY <3>2 DEF Others
      <4>2. /\ count[p] <= local[c].loaded /\ local[c].loaded < Cardinality(P!Members(p))
            /\ local[c].loaded \in Nat
        BY <1>2, <2>1, <4>1 DEF CountFits, LoadedFits, ThreadsInv, ThreadKinds, P!Local
      <4>. QED
        BY <1>7, <4>1, <4>2
    <3>. QED
      BY <3>1, <3>2
  <2>. QED
    BY <2>1 DEF LoadedFits
<1>10. DropFits(p)'
  BY DEF DropFits
<1>11. AtExit(p)' => AtExit(p)
  <2>1. \A c \in AnyThread : Ending(local'[c]) /\ local'[c].pc = "exit" => local'[c] = local[c]
    BY DEF Others
  <2>. QED
    BY <2>1 DEF AtExit
<1>12. AllEnd(p) => AllEnd(p)'
  <2>1. CASE Owner[u] # p
    BY <1>3, <1>4, <2>1 DEF AllEnd
  <2>2. CASE Owner[u] = p
    <3>1. t \in P!Members(Owner[t]) /\ ~Ending(local[t])
      BY SettledCounts DEF Ending, Leaving, Walk
    <3>. QED
      BY <2>2, <3>1 DEF AllEnd
  <2>. QED
    BY <2>1, <2>2
<1>. QED
  BY <1>2, <1>8, <1>9, <1>10, <1>11, <1>12 DEF CountFits

LEMMA CreateUserThreadInv ==
  ASSUME ThreadsInv, ProcessesSound, NEW t \in AnyThread, NEW u \in AnyThread,
         P!CreateUserThread(t, u)
  PROVE  ThreadsInv'
<1>1. /\ current = t /\ t \in Settled /\ local[t].pc = "out" /\ local[t] \in P!Local
  BY Acting DEF P!CreateUserThread
<1>2. count[Owner[u]] \in Nat
  BY ThreadFacts DEF ThreadsInv, ThreadKinds
<1> DEFINE r == [local[t] EXCEPT !.pc = "store", !.thread = u, !.loaded = count[Owner[u]]]
<1>3. /\ r \in P!Local /\ r.pc = "store" /\ r.w = local[t].w /\ r.nxt = local[t].nxt
      /\ r.back = local[t].back /\ r.thread = u /\ r.loaded = count[Owner[u]]
  BY <1>1, <1>2 DEF P!Local, P!Location
<1>4. local' = [local EXCEPT ![t] = r]
  BY DEF P!CreateUserThread
<1> HIDE DEF r
<1>5. local' \in [AnyThread -> P!Local] /\ local'[t] = r /\ Others(t)
  BY <1>3, <1>4, Writes DEF ThreadsInv
<1>6. /\ UNCHANGED <<registry, count, exited, current, state, ready, waiters, WaitNext, killed>>
      /\ born' = born \cup {u} /\ t \in Creators /\ u \notin born
      /\ Owner[u] = Owner[t] \/ P!Members(Owner[u]) = {}
  BY DEF P!CreateUserThread, P!cpuVars
<1>7. ThreadKinds'
  BY <1>5, <1>6 DEF ThreadsInv, ThreadKinds
<1>8. /\ ~Ending(local[t]) /\ ~Ending(local'[t]) /\ local'[t].pc # "ready"
      /\ local'[t].pc \notin Leaving /\ local'[t].pc \notin Walk \cup {"mark"}
  BY <1>1, <1>3, <1>5 DEF Ending, Leaving, Walk
<1>9. Settled' = Settled /\ CreatedOnce'
  BY <1>1, <1>3, <1>5, <1>6, CreateUserThreadCreates
<1>10. Pointers'
  <2>1. Listed' = Listed
    BY <1>9 DEF Listed
  <2>2. PointsWell(t, local'[t], Listed)
    BY <1>3, <1>5 DEF ThreadsInv, Pointers, PointsWell
  <2>3. waiters' \in [Process -> Listed] /\ WaitNext' \in [AnyThread -> Listed]
    BY <1>6 DEF ThreadsInv, Pointers
  <2>. QED
    BY <1>5, <2>1, <2>2, <2>3, PointersStay DEF ThreadsInv
<1>11. Places'
  <2>1. Placed(t, local'[t], killed') /\ killed \subseteq killed'
    BY <1>3, <1>5, <1>6, <1>8 DEF ThreadsInv, Places, Placed
  <2>. QED
    BY <1>5, <2>1, PlacesStay DEF ThreadsInv
<1>12. Ends'
  BY <1>1, <1>5, <1>6, <1>8, EndsStay DEF ThreadsInv
<1>13. Counts'
  BY <1>1, <1>3, <1>5, <1>6, <1>7, CreateUserThreadCounts
<1>. QED
  BY <1>7, <1>9, <1>10, <1>11, <1>12, <1>13 DEF ThreadsInv

\* thread_count++ has been stored.
LEMMA OneMore ==
  ASSUME NEW n \in Nat, NEW M \in Nat \ {0}
  PROVE  (n + 1) % M \in Nat /\ (n + 1 < M => (n + 1) % M = n + 1)
OBVIOUS

LEMMA CountThreadCounts ==
  ASSUME ThreadsInv, ProcessesSound, ThreadKinds', NEW t \in AnyThread, current = t,
         local[t].pc = "store", local'[t].pc = "register", Others(t),
         UNCHANGED <<current, born, exited, killed>>,
         count' = [count EXCEPT
                     ![Owner[local[t].thread]] = (local[t].loaded + 1) % CountModulus]
  PROVE  Counts'
<1> DEFINE u == local[t].thread
<1>1. SUFFICES ASSUME NEW p \in Process \ killed
               PROVE  CountFits(p)'
  BY DEF Counts
<1>2. CountFits(p) /\ p \in Process
  BY <1>1 DEF ThreadsInv, Counts
<1>3. P!Members(p)' = P!Members(p) /\ P!Members(p) \subseteq AnyThread
  BY DEF P!Members, ThreadsInv, ThreadKinds
<1>4. \A c \in AnyThread : /\ Ending(local'[c]) <=> Ending(local[c])
                           /\ local'[c].pc = "store" <=> c # t /\ local[c].pc = "store"
                           /\ local'[c].pc = "exit" <=> local[c].pc = "exit"
                           /\ c # t => local'[c] = local[c]
  BY DEF Others, Ending, Leaving, Walk
<1>5. Uncounted \subseteq Uncounted' \cup {u}
  BY <1>4 DEF Uncounted
<1>6. ~Ending(local[t]) /\ ~Ending(local'[t]) /\ local'[t].pc # "drop"
  BY DEF Ending, Leaving, Walk
<1>7. Present(p)' \subseteq Present(p) \cup {u}
  <2>1. \A c \in Present(p)' : /\ c \in P!Members(p) /\ c \in AnyThread /\ c \notin Uncounted'
                               /\ Ending(local'[c]) => c = t /\ local'[c].pc \in Leaving
    BY <1>3 DEF Present
  <2>2. \A c \in Present(p)' : c # u => c \notin Uncounted /\ ~Ending(local[c])
    BY <1>4, <1>5, <1>6, <2>1
  <2>. QED
    BY <2>1, <2>2 DEF Present
<1>8. /\ IsFiniteSet(Present(p)) /\ Cardinality(Present(p)) \in Nat /\ count[p] \in Nat
      /\ Cardinality(P!Members(p)) \in Nat /\ Cardinality(P!Members(p)) < CountModulus
      /\ CountModulus \in Nat \ {0}
  BY <1>2, PresentFinite, MembersFinite DEF ThreadsInv, ThreadKinds
<1>9. Cardinality(Present(p)) <= count[p] /\ count[p] <= Cardinality(P!Members(p))
  BY <1>2 DEF CountFits, Bounds
<1>10. DropFits(p)'
  BY <1>6 DEF DropFits
<1>11. AtExit(p)' => AtExit(p)
  BY <1>4 DEF AtExit
<1>12. AllEnd(p) => AllEnd(p)'
  BY <1>3, <1>4 DEF AllEnd
<1>13. CASE Owner[u] # p
  <2>1. count'[p] = count[p]
    BY <1>2, <1>13 DEF ThreadsInv, ThreadKinds
  <2>2. Present(p)' \subseteq Present(p)
    <3>1. u \notin P!Members(p) /\ Present(p)' \subseteq P!Members(p)
      BY <1>3, <1>13 DEF P!Members, Present
    <3>. QED
      BY <1>7, <3>1
  <2>3. Cardinality(Present(p)') <= Cardinality(Present(p)) /\ Cardinality(Present(p)') \in Nat
    BY <1>8, <2>2, FS_Subset, FS_CardinalityType
  <2>4. Cardinality(Present(p)') <= count[p]
    BY <1>8, <1>9, <2>3
  <2>5. Bounds(p)'
    BY <1>3, <1>9, <2>1, <2>4 DEF Bounds
  <2>6. LoadedFits(p)'
    BY <1>2, <1>3, <1>4, <2>1 DEF CountFits, LoadedFits
  <2>. QED
    BY <1>2, <1>10, <1>11, <1>12, <2>5, <2>6 DEF CountFits
<1>14. CASE Owner[u] = p
  <2>1. /\ count[p] <= local[t].loaded /\ local[t].loaded < Cardinality(P!Members(p))
        /\ local[t].loaded \in Nat
    BY <1>2, <1>14 DEF CountFits, LoadedFits, ThreadsInv, ThreadKinds, P!Local
  <2>2. count'[p] = local[t].loaded + 1
    <3>1. count'[p] = (local[t].loaded + 1) % CountModulus
      BY <1>2, <1>14 DEF ThreadsInv, ThreadKinds
    <3>2. local[t].loaded + 1 < CountModulus
      BY <1>8, <2>1
    <3>. QED
      BY <1>8, <2>1, <3>1, <3>2, OneMore
  <2>3. IsFiniteSet(Present(p) \cup {u})
        /\ Cardinality(Present(p) \cup {u}) <= Cardinality(Present(p)) + 1
        /\ Cardinality(Present(p) \cup {u}) \in Nat
    <3>1. /\ IsFiniteSet(Present(p) \cup {u})
          /\ Cardinality(Present(p) \cup {u})
               = IF u \in Present(p) THEN Cardinality(Present(p)) ELSE Cardinality(Present(p)) + 1
      BY <1>8, FS_AddElement
    <3>2. \/ Cardinality(Present(p) \cup {u}) = Cardinality(Present(p))
          \/ Cardinality(Present(p) \cup {u}) = Cardinality(Present(p)) + 1
      BY <3>1, Zenon
    <3>. QED
      BY <1>8, <3>1, <3>2
  <2>4. /\ Cardinality(Present(p)') <= Cardinality(Present(p) \cup {u})
        /\ Cardinality(Present(p)') \in Nat
    BY <1>7, <2>3, FS_Subset, FS_CardinalityType
  <2>5. /\ Cardinality(Present(p)') <= local[t].loaded + 1
        /\ local[t].loaded + 1 <= Cardinality(P!Members(p))
    BY <1>8, <1>9, <2>1, <2>3, <2>4
  <2>6. Bounds(p)'
    BY <1>3, <2>2, <2>5 DEF Bounds
  <2>7. LoadedFits(p)'
    <3>1. ASSUME NEW c \in AnyThread, local'[c].pc = "store", Owner[local'[c].thread] = p
          PROVE  FALSE
      <4>1. /\ c # t /\ local[c].pc = "store" /\ Owner[local[c].thread] = p
        BY <1>4, <3>1
      <4>. QED
        BY <1>14, <4>1 DEF ThreadsInv, CreatedOnce, Making
    <3>. QED
      BY <3>1 DEF LoadedFits
  <2>. QED
    BY <1>2, <1>10, <1>11, <1>12, <2>6, <2>7 DEF CountFits
<1>. QED
  BY <1>13, <1>14

LEMMA CountThreadInv ==
  ASSUME ThreadsInv, ProcessesSound, NEW t \in AnyThread, P!CountThread(t)
  PROVE  ThreadsInv'
<1>1. current = t /\ t \in Settled /\ local[t].pc = "store" /\ local[t] \in P!Local
  BY Acting DEF P!CountThread
<1>2. P!Go(t, "register") /\ "register" \in P!Location
  BY DEF P!CountThread, P!Location
<1>3. /\ local' \in [AnyThread -> P!Local] /\ Others(t) /\ local'[t].pc = "register"
      /\ local'[t].thread = local[t].thread /\ local'[t].back = local[t].back
      /\ local'[t].w = local[t].w /\ local'[t].nxt = local[t].nxt
  BY <1>2, Goes DEF ThreadsInv
<1>4. /\ UNCHANGED <<born, registry, exited, current, state, ready, waiters, WaitNext, killed>>
      /\ count' = [count EXCEPT
                     ![Owner[local[t].thread]] = (local[t].loaded + 1) % CountModulus]
  BY DEF P!CountThread, P!cpuVars
<1>5. ThreadKinds'
  <2>1. (local[t].loaded + 1) % CountModulus \in Nat
    BY <1>1, OneMore, MembersFinite DEF P!Local, ThreadsInv
  <2>2. count' \in [Process -> Nat]
    BY <1>4, <2>1 DEF ThreadsInv, ThreadKinds
  <2>. QED
    BY <1>3, <1>4, <2>2 DEF ThreadsInv, ThreadKinds
<1>6. /\ Making(local[t]) /\ Making(local'[t]) /\ ~Ending(local[t]) /\ ~Ending(local'[t])
      /\ local'[t].pc \notin Leaving /\ local'[t].pc \notin Walk \cup {"mark"}
      /\ local'[t].pc # "ready"
  BY <1>1, <1>3 DEF Making, Ending, Leaving, Walk
<1>7. CreatedOnce'
  <2>1. current' \in Settled /\ ready' \subseteq Settled
    BY <1>1, <1>4 DEF ThreadsInv, CreatedOnce
  <2>. QED
    BY <1>1, <1>3, <1>4, <1>6, <2>1, CreatedOnceStays DEF ThreadsInv
<1>8. Pointers'
  <2>1. Listed' = Listed
    BY <1>3, <1>4, <1>6, CreationsStay DEF ThreadsInv
  <2>2. PointsWell(t, local'[t], Listed)
    BY <1>3 DEF ThreadsInv, Pointers, PointsWell
  <2>3. waiters' \in [Process -> Listed] /\ WaitNext' \in [AnyThread -> Listed]
    BY <1>4 DEF ThreadsInv, Pointers
  <2>. QED
    BY <1>3, <2>1, <2>2, <2>3, PointersStay DEF ThreadsInv
<1>9. Places'
  <2>1. Placed(t, local'[t], killed') /\ killed \subseteq killed'
    BY <1>3, <1>4, <1>6 DEF ThreadsInv, Places, Placed
  <2>. QED
    BY <1>3, <2>1, PlacesStay DEF ThreadsInv
<1>10. Ends'
  BY <1>1, <1>3, <1>4, <1>6, EndsStay DEF ThreadsInv
<1>11. Counts'
  BY <1>1, <1>3, <1>4, <1>5, CountThreadCounts
<1>. QED
  BY <1>5, <1>7, <1>8, <1>9, <1>10, <1>11 DEF ThreadsInv

LEMMA RegisterThreadInv ==
  ASSUME ThreadsInv, ProcessesSound, NEW t \in AnyThread, P!RegisterThread(t)
  PROVE  ThreadsInv'
<1>1. current = t /\ t \in Settled /\ local[t].pc = "register" /\ local[t] \in P!Local
  BY Acting DEF P!RegisterThread
<1>2. P!Go(t, "add") /\ "add" \in P!Location
  BY DEF P!RegisterThread, P!Location
<1>3. /\ local' \in [AnyThread -> P!Local] /\ Others(t) /\ local'[t].pc = "add"
      /\ local'[t].thread = local[t].thread /\ local'[t].back = local[t].back
      /\ local'[t].w = local[t].w /\ local'[t].nxt = local[t].nxt
  BY <1>2, Goes DEF ThreadsInv
<1>4. /\ UNCHANGED <<born, count, exited, current, state, ready, waiters, WaitNext, killed>>
      /\ registry' = registry \/ registry' = Append(registry, local[t].thread)
  BY DEF P!RegisterThread, P!cpuVars
<1>5. ThreadKinds'
  <2>1. local[t].thread \in AnyThread
    BY <1>1 DEF P!Local
  <2>2. registry' \in Seq(AnyThread)
    <3>1. registry \in Seq(AnyThread)
      BY DEF ThreadsInv, ThreadKinds
    <3>2. Append(registry, local[t].thread) \in Seq(AnyThread)
      BY <2>1, <3>1
    <3>. QED
      BY <1>4, <3>1, <3>2
  <2>. QED
    BY <1>3, <1>4, <2>2 DEF ThreadsInv, ThreadKinds
<1>6. /\ Making(local[t]) /\ Making(local'[t]) /\ ~Ending(local[t]) /\ ~Ending(local'[t])
      /\ local'[t].pc \notin Leaving /\ local'[t].pc \notin Walk \cup {"mark"}
      /\ local'[t].pc # "ready" /\ local'[t].pc # "drop" /\ local'[t].pc # "store"
      /\ local[t].pc # "store"
  BY <1>1, <1>3 DEF Making, Ending, Leaving, Walk
<1>7. CreatedOnce'
  <2>1. current' \in Settled /\ ready' \subseteq Settled
    BY <1>1, <1>4 DEF ThreadsInv, CreatedOnce
  <2>. QED
    BY <1>1, <1>3, <1>4, <1>6, <2>1, CreatedOnceStays DEF ThreadsInv
<1>8. Pointers'
  <2>1. Listed' = Listed
    BY <1>3, <1>4, <1>6, CreationsStay DEF ThreadsInv
  <2>2. PointsWell(t, local'[t], Listed)
    BY <1>3 DEF ThreadsInv, Pointers, PointsWell
  <2>3. waiters' \in [Process -> Listed] /\ WaitNext' \in [AnyThread -> Listed]
    BY <1>4 DEF ThreadsInv, Pointers
  <2>. QED
    BY <1>3, <2>1, <2>2, <2>3, PointersStay DEF ThreadsInv
<1>9. Places'
  <2>1. Placed(t, local'[t], killed') /\ killed \subseteq killed'
    BY <1>3, <1>4, <1>6 DEF ThreadsInv, Places, Placed
  <2>. QED
    BY <1>3, <2>1, PlacesStay DEF ThreadsInv
<1>10. Ends'
  BY <1>1, <1>3, <1>4, <1>6, EndsStay DEF ThreadsInv
<1>11. CountsSame /\ killed \subseteq killed'
  BY <1>4 DEF CountsSame
<1>12. Counts'
  BY <1>1, <1>3, <1>4, <1>5, <1>6, <1>11, CountsStay DEF ThreadsInv
<1>. QED
  BY <1>5, <1>7, <1>8, <1>9, <1>10, <1>12 DEF ThreadsInv

LEMMA AddThreadCreates ==
  ASSUME ThreadsInv, NEW t \in AnyThread, current = t, t \in Settled,
         Making(local[t]), local'[t].pc = "out", Others(t), UNCHANGED <<current, born>>,
         ready' = ready \cup {local[t].thread}
  PROVE  /\ CreatedOnce' /\ Settled \subseteq Settled'
         /\ local[t].thread # t /\ local[local[t].thread].pc = "out"
<1> DEFINE u == local[t].thread
<1>1. \A c \in AnyThread : /\ Making(local'[c]) => Making(local[c]) /\ c # t
                           /\ c # t => local'[c] = local[c]
  BY DEF Others, Making
<1>2. Newcomers' \subseteq Newcomers
  BY <1>1 DEF Newcomers
<1>3. u \notin Newcomers'
  BY <1>1 DEF Newcomers, ThreadsInv, CreatedOnce
<1>4. u \in born /\ u \in AnyThread /\ u \notin Settled
  BY DEF ThreadsInv, ThreadKinds, CreatedOnce, Creation, Settled, Newcomers
<1>5. Settled \subseteq Settled' /\ u \in Settled'
  BY <1>2, <1>3, <1>4 DEF Settled
<1>6. \A p : P!Members(p)' = P!Members(p)
  BY DEF P!Members
<1>7. ASSUME NEW c \in AnyThread, Making(local'[c])
      PROVE  Creation(c)'
  <2>1. Creation(c) /\ local'[c].thread = local[c].thread
    BY <1>1, <1>7 DEF ThreadsInv, CreatedOnce
  <2>. QED
    BY <1>6, <2>1 DEF Creation
<1>8. ASSUME NEW c \in AnyThread, NEW d \in AnyThread, Making(local'[c]), Making(local'[d]),
             Owner[local'[c].thread] = Owner[local'[d].thread]
      PROVE  c = d
  BY <1>1, <1>8 DEF ThreadsInv, CreatedOnce
<1>9. \A c \in AnyThread \ Settled' : local'[c].pc = "out"
  BY <1>1, <1>5 DEF ThreadsInv, CreatedOnce
<1>10. current' \in Settled' /\ ready' \subseteq Settled'
  BY <1>5 DEF ThreadsInv, CreatedOnce
<1>11. u # t /\ local[u].pc = "out"
  BY <1>4 DEF ThreadsInv, CreatedOnce
<1>. QED
  BY <1>5, <1>7, <1>8, <1>9, <1>10, <1>11 DEF CreatedOnce

LEMMA AddThreadInv ==
  ASSUME ThreadsInv, ProcessesSound, NEW t \in AnyThread, P!AddThread(t)
  PROVE  ThreadsInv'
<1> DEFINE u == local[t].thread
<1>1. current = t /\ t \in Settled /\ local[t].pc = "add" /\ local[t] \in P!Local
  BY Acting DEF P!AddThread
<1>2. P!Go(t, "out") /\ "out" \in P!Location
  BY DEF P!AddThread, P!Location
<1>3. /\ local' \in [AnyThread -> P!Local] /\ Others(t) /\ local'[t].pc = "out"
      /\ local'[t].w = local[t].w /\ local'[t].nxt = local[t].nxt
      /\ local'[t].back = local[t].back
  BY <1>2, Goes DEF ThreadsInv
<1>4. /\ UNCHANGED <<born, registry, count, exited, current, waiters, WaitNext, killed>>
      /\ state' = [state EXCEPT ![u] = "READY"] /\ ready' = ready \cup {u}
  BY DEF P!AddThread, P!shared
<1>5. u \in AnyThread
  BY <1>1 DEF P!Local
<1>6. ThreadKinds'
  <2>1. state' \in [AnyThread -> P!CpuState]
    BY <1>4 DEF ThreadsInv, ThreadKinds, P!CpuState
  <2>. QED
    BY <1>3, <1>4, <2>1 DEF ThreadsInv, ThreadKinds
<1>7. /\ Making(local[t]) /\ ~Ending(local[t]) /\ ~Ending(local'[t])
      /\ local'[t].pc \notin Leaving /\ local'[t].pc \notin Walk \cup {"mark"}
      /\ local'[t].pc # "ready" /\ local'[t].pc # "drop" /\ local'[t].pc # "store"
      /\ local[t].pc # "store"
  BY <1>1, <1>3 DEF Making, Ending, Leaving, Walk
<1>8. CreatedOnce' /\ Settled \subseteq Settled' /\ u # t /\ local[u].pc = "out"
  BY <1>1, <1>3, <1>4, <1>7, AddThreadCreates
<1>9. Pointers'
  <2>1. Listed \subseteq Listed'
    BY <1>8 DEF Listed
  <2>2. \A c \in AnyThread \ {t} : PointsWell(c, local'[c], Listed)
    BY <1>3 DEF ThreadsInv, Pointers, Others
  <2>3. PointsWell(t, local'[t], Listed)
    BY <1>3 DEF ThreadsInv, Pointers, PointsWell
  <2>4. \A c \in AnyThread : PointsWell(c, local'[c], Listed')
    BY <2>1, <2>2, <2>3 DEF PointsWell
  <2>5. waiters' \in [Process -> Listed'] /\ WaitNext' \in [AnyThread -> Listed']
    BY <1>4, <2>1 DEF ThreadsInv, Pointers
  <2>. QED
    BY <2>4, <2>5 DEF Pointers
<1>10. Places'
  <2>1. Placed(t, local'[t], killed') /\ killed \subseteq killed'
    BY <1>3, <1>4, <1>7 DEF ThreadsInv, Places, Placed
  <2>. QED
    BY <1>3, <2>1, PlacesStay DEF ThreadsInv
<1>11. Ends'
  <2>1. WakesLiving'
    BY <1>1, <1>4, <1>7 DEF WakesLiving
  <2>2. \A c \in AnyThread : /\ Ending(local'[c]) <=> Ending(local[c])
                             /\ c # u => state'[c] = state[c] /\ (c \in ready' <=> c \in ready)
    BY <1>3, <1>4, <1>7 DEF Others, ThreadsInv, ThreadKinds
  <2>3. state'[u] = "READY" /\ ~Ending(local[u]) /\ u # current'
    BY <1>1, <1>4, <1>5, <1>8 DEF Ending, Leaving, Walk, ThreadsInv, ThreadKinds
  <2>4. ASSUME NEW c \in AnyThread
        PROVE  EndsOnce(c)'
    <3>1. Spared(c)' <=> Spared(c)
      BY <1>4 DEF Spared
    <3>2. EndsOnce(c)
      BY DEF ThreadsInv, Ends
    <3>3. CASE c = u
      BY <2>2, <2>3, <3>3 DEF EndsOnce
    <3>4. CASE c # u
      BY <1>4, <2>2, <3>1, <3>2, <3>4 DEF EndsOnce
    <3>. QED
      BY <3>3, <3>4
  <2>. QED
    BY <2>1, <2>4 DEF Ends
<1>12. CountsSame /\ killed \subseteq killed'
  BY <1>4 DEF CountsSame
<1>13. Counts'
  BY <1>1, <1>3, <1>4, <1>6, <1>7, <1>12, CountsStay DEF ThreadsInv
<1>. QED
  BY <1>6, <1>8, <1>9, <1>10, <1>11, <1>13 DEF ThreadsInv

(***************************************************************************)
(* The invariant, and what follows from it.                                *)
(***************************************************************************)
LEMMA InitThreads ==
  ASSUME ProcessesSound, P!Init
  PROVE  ThreadsInv
<1>1. /\ current = Main /\ ready = Started \ {Main} /\ born = Started
      /\ state = [t \in AnyThread |-> IF t = Main THEN "RUNNING" ELSE "READY"]
      /\ registry \in P!SetToSeqs(Started \ {Main})
      /\ count = [p \in Process |-> P!Cardinality(P!Members(p))]
      /\ exited = [p \in Process |-> FALSE]
      /\ waiters = [p \in Process |-> NULL]
      /\ WaitNext = [t \in AnyThread |-> NULL]
      /\ killed = {}
  BY DEF P!Init
<1>2. /\ Main \in Started /\ Started \subseteq AnyThread /\ Main \notin Enders
      /\ Owner \in [AnyThread -> Process] /\ IsFiniteSet(AnyThread)
  BY DEF ProcessesSound, P!ProcessesAssumption
<1>3. /\ local \in [AnyThread -> P!Local]
      /\ \A t \in AnyThread : /\ local[t].pc = "out" /\ local[t].back = "out"
                              /\ local[t].w = NULL /\ local[t].nxt = NULL
  <2> DEFINE At0(t) == [pc |-> "out", thread |-> t, process |-> Owner[t], loaded |-> 0,
                        index |-> 1, w |-> NULL, nxt |-> NULL, back |-> "out"]
  <2>1. \A t \in AnyThread : At0(t) \in P!Local
    BY <1>2 DEF P!Local, P!Location
  <2>2. \A t \in AnyThread : /\ At0(t).pc = "out" /\ At0(t).back = "out"
                             /\ At0(t).w = NULL /\ At0(t).nxt = NULL
    OBVIOUS
  <2>3. local = [t \in AnyThread |-> At0(t)]
    BY DEF P!Init
  <2> HIDE DEF At0
  <2>. QED
    BY <2>1, <2>2, <2>3
<1>4. \A t \in AnyThread : ~Making(local[t]) /\ ~Ending(local[t]) /\ local[t].pc \notin Walk
  BY <1>3 DEF Making, Ending, Leaving, Walk
<1>5. \A p : /\ IsFiniteSet(P!Members(p)) /\ Cardinality(P!Members(p)) \in Nat
             /\ P!Cardinality(P!Members(p)) = Cardinality(P!Members(p))
  <2>1. ASSUME NEW p
        PROVE  /\ IsFiniteSet(P!Members(p)) /\ Cardinality(P!Members(p)) \in Nat
               /\ P!Cardinality(P!Members(p)) = Cardinality(P!Members(p))
    <3>1. P!Members(p) \subseteq AnyThread
      BY <1>1, <1>2 DEF P!Members
    <3>. QED
      BY <1>2, <3>1, FS_Subset, FS_CardinalityType, SameSize
  <2>. QED
    BY <2>1
<1>6. ThreadKinds
  <2>1. registry \in Seq(AnyThread)
    <3>1. registry \in [1 .. P!Cardinality(Started \ {Main}) -> Started \ {Main}]
      BY <1>1 DEF P!SetToSeqs
    <3>2. P!Cardinality(Started \ {Main}) \in Nat
      BY <1>2, FS_Subset, FS_CardinalityType, SameSize
    <3>. QED
      <4> DEFINE n == P!Cardinality(Started \ {Main})
      <4>1. registry \in [1 .. n -> AnyThread]
        BY <1>2, <3>1
      <4>2. n \in Nat
        BY <3>2
      <4> HIDE DEF n
      <4>. QED
        BY <4>1, <4>2, SeqDef
  <2>2. state \in [AnyThread -> P!CpuState]
    BY <1>1 DEF P!CpuState
  <2>3. count \in [Process -> Nat] /\ exited \in [Process -> BOOLEAN]
    BY <1>1, <1>5
  <2>. QED
    BY <1>1, <1>2, <1>3, <2>1, <2>2, <2>3 DEF ThreadKinds
<1>7. Settled = Started
  BY <1>1, <1>4 DEF Settled, Newcomers
<1>8. CreatedOnce
  BY <1>1, <1>2, <1>3, <1>4, <1>7 DEF CreatedOnce
<1>9. Pointers
  BY <1>1, <1>3 DEF Pointers, PointsWell, Listed
<1>10. Places
  <2>1. \A t \in AnyThread : local[t].pc \notin Leaving /\ local[t].pc # "mark"
    BY <1>3 DEF Leaving
  <2>. QED
    BY <1>3, <1>4, <2>1 DEF Places, Placed
<1>11. Ends
  <2>1. \A t \in AnyThread : state[t] # "TERMINATED"
    BY <1>1
  <2>. QED
    BY <1>1, <1>2, <1>3, <1>4, <2>1 DEF Ends, EndsOnce, WakesLiving
<1>12. Counts
  <2>1. SUFFICES ASSUME NEW p \in Process
                 PROVE  CountFits(p)
    BY <1>1 DEF Counts
  <2>2. Bounds(p)
    <3>1. Present(p) \subseteq P!Members(p)
      BY DEF Present
    <3>2. Cardinality(Present(p)) <= Cardinality(P!Members(p))
      BY <1>5, <3>1, FS_Subset
    <3>3. count[p] = Cardinality(P!Members(p))
      BY <1>1, <1>5
    <3>. QED
      BY <1>5, <3>2, <3>3 DEF Bounds
  <2>3. LoadedFits(p) /\ DropFits(p) /\ ~AtExit(p) /\ ~exited[p]
    BY <1>1, <1>2, <1>3, <1>4 DEF LoadedFits, DropFits, AtExit
  <2>. QED
    BY <2>2, <2>3 DEF CountFits
<1>. QED
  BY <1>6, <1>8, <1>9, <1>10, <1>11, <1>12 DEF ThreadsInv

LEMMA NextThreads ==
  ASSUME ThreadsInv, ProcessesSound, P!Next
  PROVE  ThreadsInv'
<1>1. PICK t \in AnyThread :
        \/ P!Switch(t)
        \/ \E u \in AnyThread : P!CreateUserThread(t, u)
        \/ P!CountThread(t) \/ P!RegisterThread(t) \/ P!AddThread(t)
        \/ \E p \in Process : P!WaitProcess(t, p) \/ P!KillProcess(t, p)
        \/ P!Enqueue(t)
        \/ P!Terminate(t) \/ P!TestCount(t) \/ P!LoadCount(t) \/ P!DropThread(t)
        \/ P!MarkThread(t) \/ P!ZeroCount(t)
        \/ P!Exit(t) \/ P!TakeWaiters(t) \/ P!ClearWaiters(t)
        \/ P!NextWaiter(t) \/ P!UnlinkWaiter(t) \/ P!SkipEnded(t) \/ P!UnblockWaiter(t)
        \/ P!WakeDone(t)
  BY Zenon DEF P!Next
<1>2. CASE P!Switch(t)
  BY <1>2, SwitchInv
<1>3. CASE \E u \in AnyThread : P!CreateUserThread(t, u)
  BY <1>3, CreateUserThreadInv
<1>4. CASE P!CountThread(t) \/ P!RegisterThread(t) \/ P!AddThread(t)
  BY <1>4, CountThreadInv, RegisterThreadInv, AddThreadInv
<1>5. CASE \E p \in Process : P!WaitProcess(t, p) \/ P!KillProcess(t, p)
  BY <1>5, WaitProcessInv, KillProcessInv
<1>6. CASE P!Enqueue(t)
  BY <1>6, EnqueueInv
<1>7. CASE P!Terminate(t) \/ P!TestCount(t) \/ P!LoadCount(t) \/ P!DropThread(t)
  BY <1>7, TerminateInv, TestCountInv, LoadCountInv, DropThreadInv
<1>8. CASE P!MarkThread(t) \/ P!ZeroCount(t)
  BY <1>8, MarkThreadInv, ZeroCountInv
<1>9. CASE P!Exit(t) \/ P!TakeWaiters(t) \/ P!ClearWaiters(t)
  BY <1>9, ExitInv, TakeWaitersInv, ClearWaitersInv
<1>10. CASE P!NextWaiter(t) \/ P!UnlinkWaiter(t) \/ P!SkipEnded(t)
  BY <1>10, NextWaiterInv, UnlinkWaiterInv, SkipEndedInv
<1>11. CASE P!UnblockWaiter(t) \/ P!WakeDone(t)
  BY <1>11, UnblockWaiterInv, WakeDoneInv
<1>. QED
  BY <1>1, <1>2, <1>3, <1>4, <1>5, <1>6, <1>7, <1>8, <1>9, <1>10, <1>11

\* No step at all.
LEMMA SameThreads ==
  ASSUME ThreadsInv, UNCHANGED P!vars
  PROVE  ThreadsInv'
<1>1. UNCHANGED <<current, state, ready, born, registry, count, exited, waiters, WaitNext,
                  local, killed>>
  BY DEF P!vars, P!cpuVars, P!shared
<1>2. ThreadKinds'
  BY <1>1 DEF ThreadsInv, ThreadKinds
<1>3. Settled' = Settled /\ Listed' = Listed /\ \A p : P!Members(p)' = P!Members(p)
  BY <1>1 DEF Settled, Newcomers, Listed, P!Members
<1>4. CreatedOnce' /\ Pointers' /\ Places' /\ Ends'
  <2>1. CreatedOnce'
    BY <1>1, <1>3 DEF ThreadsInv, CreatedOnce, Creation
  <2>2. Pointers' /\ Places'
    BY <1>1, <1>3 DEF ThreadsInv, Pointers, Places
  <2>3. Ends'
    BY <1>1 DEF ThreadsInv, Ends, WakesLiving, EndsOnce, Spared
  <2>. QED
    BY <2>1, <2>2, <2>3
<1>5. Counts'
  <2>1. SUFFICES ASSUME NEW p \in Process \ killed
                 PROVE  CountFits(p)'
    BY <1>1 DEF Counts
  <2>2. P!Members(p)' = P!Members(p) /\ Present(p)' = Present(p)
    BY <1>1 DEF P!Members, Present, Uncounted
  <2>3. CountFits(p)
    BY DEF ThreadsInv, Counts
  <2>4. Bounds(p)' /\ LoadedFits(p)' /\ DropFits(p)'
    BY <1>1, <2>2, <2>3 DEF CountFits, Bounds, LoadedFits, DropFits
  <2>5. (exited'[p] \/ AtExit(p)') => AllEnd(p)'
    BY <1>1, <2>2, <2>3 DEF CountFits, AtExit, AllEnd
  <2>. QED
    BY <2>4, <2>5 DEF CountFits
<1>. QED
  BY <1>2, <1>4, <1>5 DEF ThreadsInv

LEMMA ThreadsEnded ==
  ASSUME ThreadsInv, ProcessesSound
  PROVE  ExitedMeansEnded
<1>1. SUFFICES ASSUME NEW p \in Process \ killed, exited[p], NEW t \in P!Members(p)
               PROVE  state[t] = "TERMINATED"
  BY DEF ExitedMeansEnded, P!ExitedMeansEnded
<1>2. t \in AnyThread /\ Owner[t] = p
  BY DEF P!Members, ThreadsInv, ThreadKinds
<1>3. Ending(local[t])
  BY <1>1 DEF ThreadsInv, Counts, CountFits, AllEnd
<1>4. EndsOnce(t) /\ Spared(t)
  BY <1>2 DEF ThreadsInv, Ends, Spared
<1>. QED
  BY <1>3, <1>4 DEF EndsOnce

\* A process that nobody has killed has exited only when its threads have
\* ended: TerminateCurrentThread reads, decrements and stores thread_count with
\* interrupts on, and still nobody announces the end of a process in which a
\* thread is left.
THEOREM ThreadsEndFirst ==
  ASSUME ProcessesSound
  PROVE  P!Spec => []ExitedMeansEnded
<1>1. P!Init => ThreadsInv
  BY InitThreads
<1>2. ThreadsInv /\ [P!Next]_(P!vars) => ThreadsInv'
  BY NextThreads, SameThreads
<1>3. ThreadsInv => ExitedMeansEnded
  BY ThreadsEnded
<1>. QED
  BY <1>1, <1>2, <1>3, PTL DEF P!Spec

-----------------------------------------------------------------------------
(***************************************************************************)
(* The waits.  A wait returns only when the process has exited, provided   *)
(* that what is waited for is not what is killed, or is one process only:  *)
(* two that walk over the waiters of a process at once may wake a thread   *)
(* from its next wait.                                                     *)
(***************************************************************************)
Apart == Targets \cap Waitable = {}

OneAwaited == \A p, q \in Waitable : p = q

WaitKinds ==
  /\ waitsFor \in [AnyThread -> SUBSET Waitable]
  /\ \A t \in AnyThread : \A p, q \in waitsFor[t] : p = q
  /\ \A t \in AnyThread \ born : waitsFor[t] = {}
  /\ waitsFor[current] # {} => state[current] = "BLOCKED"
  /\ \A p \in Process : waiters[p] # NULL => p \in Waitable

\* What the place and the locals r of a thread say of the processes.
Informed(r) ==
  /\ Making(r) => waitsFor[r.thread] = {}
  /\ r.pc = "enqueue" => r.process \in Waitable
  /\ r.pc \in Walk \ {"exit"} => exited[r.process]
  /\ r.pc \in Walk \ {"exit", "take"} /\ r.w # NULL => r.process \in Waitable

Informing == \A t \in AnyThread : Informed(local[t])

\* The threads in the lists of waiters, or unlinked and about to be woken.
Linked == {m \in AnyThread : waitsFor[m] # {} /\ m \notin ready}

On(p) == {m \in Linked : p \in waitsFor[m]}

NoneTo(m) == \A n \in Linked : WaitNext[n] # m

\* What a pointer x into the list of p leads to, if nothing else leads there.
Leads(p, x) == x # NULL => x \in On(p) /\ NoneTo(x)

Lists ==
  /\ current \notin ready
  /\ \A p \in Process : Leads(p, waiters[p])
  /\ \A p \in Process : \A m \in On(p) : WaitNext[m] # NULL => WaitNext[m] \in On(p)
  /\ \A m, n \in Linked : WaitNext[m] = WaitNext[n] /\ WaitNext[m] # NULL => m = n

\* The locals of the thread that walks over the list.
Walker(r) ==
  r.process \in Waitable =>
    /\ r.pc \in Walk \ {"exit", "take"} => Leads(r.process, r.w)
    /\ r.pc \in {"wake", "unlink", "unblock", "ready"} => waiters[r.process] = NULL
    /\ r.pc = "unlink" => r.nxt = WaitNext[r.w]
    /\ r.pc \in {"unblock", "ready"} => Leads(r.process, r.nxt) /\ (r.nxt # NULL => r.nxt # r.w)

WaitsInv ==
  /\ WaitKinds /\ Informing /\ WaitMeansExited
  /\ Apart => Lists /\ Walker(local[current])

-----------------------------------------------------------------------------
\* The thread that acts waits for nothing.
LEMMA ActingWaits ==
  ASSUME WaitsInv, NEW t \in AnyThread, NEW l, P!At(t, l)
  PROVE  current = t /\ waitsFor[t] = {}
BY DEF WaitsInv, WaitKinds, P!At

\* No thread that waits for a process becomes READY or RUNNING.
NoneReturns ==
  \A c \in AnyThread :
    state'[c] \in {"READY", "RUNNING"} /\ waitsFor[c] # {} => state'[c] = state[c]

FlagsStay == \A p \in Process : exited[p] => exited'[p]

LEMMA InformingStays ==
  ASSUME ThreadKinds, Informing, NEW t \in AnyThread, Others(t), FlagsStay,
         \A c \in AnyThread \ {t} : Making(local[c]) => waitsFor'[local[c].thread] = {},
         Informed(local[t])'
  PROVE  Informing'
<1>1. ASSUME NEW c \in AnyThread, c # t
      PROVE  Informed(local[c])'
  <2>1. Informed(local[c]) /\ local'[c] = local[c] /\ local[c].process \in Process
    BY <1>1 DEF Informing, Others, ThreadKinds, P!Local
  <2>. QED
    BY <1>1, <2>1 DEF Informed, FlagsStay
<1>. QED
  BY <1>1 DEF Informing

LEMMA ReturnsStay ==
  ASSUME WaitKinds, WaitMeansExited, NoneReturns, FlagsStay, waitsFor' = waitsFor,
         Waitable \subseteq Process
  PROVE  WaitMeansExited'
<1>1. ASSUME NEW c \in AnyThread, NEW p \in waitsFor[c], state'[c] \in {"READY", "RUNNING"}
      PROVE  exited'[p]
  <2>1. state[c] \in {"READY", "RUNNING"} /\ p \in Process
    BY <1>1 DEF NoneReturns, WaitKinds
  <2>. QED
    BY <2>1 DEF WaitMeansExited, P!WaitMeansExited, FlagsStay
<1>. QED
  BY <1>1 DEF WaitMeansExited, P!WaitMeansExited

LEMMA ListsSame ==
  ASSUME Lists, UNCHANGED <<ready, waitsFor, waiters, WaitNext, current>>
  PROVE  /\ Lists' /\ Linked' = Linked /\ \A p : On(p)' = On(p)
         /\ \A m : NoneTo(m)' <=> NoneTo(m)
<1>1. Linked' = Linked
  BY DEF Linked
<1>2. \A p : On(p)' = On(p)
  BY <1>1 DEF On
<1>3. \A m : NoneTo(m)' <=> NoneTo(m)
  BY <1>1 DEF NoneTo
<1>4. \A p, x : Leads(p, x)' <=> Leads(p, x)
  BY <1>2, <1>3 DEF Leads
<1>5. Lists'
  BY <1>1, <1>2, <1>4 DEF Lists
<1>. QED
  BY <1>1, <1>2, <1>3, <1>5

(***************************************************************************)
(* A step that leaves the lists, and who waits for what, as they are.      *)
(***************************************************************************)
LEMMA WaitsStay ==
  ASSUME ThreadsInv, WaitsInv, ProcessesSound, NEW t \in AnyThread, current = t, Others(t),
         waitsFor[t] = {}, UNCHANGED <<current, ready, waitsFor, waiters, WaitNext>>,
         born \subseteq born', NoneReturns, FlagsStay,
         Informed(local[t])', Apart => Walker(local[t])'
  PROVE  WaitsInv'
<1>1. WaitKinds'
  BY DEF WaitsInv, WaitKinds
<1>2. Informing'
  <2>1. \A c \in AnyThread : Making(local[c]) => waitsFor'[local[c].thread] = {}
    BY DEF WaitsInv, Informing, Informed
  <2>. QED
    BY <2>1, InformingStays DEF ThreadsInv, WaitsInv
<1>3. WaitMeansExited'
  <2>1. Waitable \subseteq Process
    BY DEF ProcessesSound, P!ProcessesAssumption
  <2>. QED
    BY <2>1, ReturnsStay DEF WaitsInv
<1>4. Apart => Lists'
  BY ListsSame DEF WaitsInv
<1>. QED
  BY <1>1, <1>2, <1>3, <1>4 DEF WaitsInv

\* One that is not part of the walk over a list.
LEMMA WalksNot ==
  ASSUME ThreadsInv, WaitsInv, ProcessesSound, NEW t \in AnyThread, current = t, Others(t),
         waitsFor[t] = {}, UNCHANGED <<current, ready, waitsFor, waiters, WaitNext>>,
         born \subseteq born', NoneReturns, FlagsStay,
         local'[t].pc \notin Walk \ {"exit", "take"},
         local'[t].pc = "take" => exited'[local'[t].process],
         local'[t].pc = "enqueue" => local'[t].process \in Waitable,
         Making(local'[t]) => waitsFor[local'[t].thread] = {}
  PROVE  WaitsInv'
<1>1. Informed(local[t])'
  BY DEF Informed, Walk
<1>2. Walker(local[t])'
  BY DEF Walker, Walk
<1>. QED
  BY <1>1, <1>2, WaitsStay

\* The steps that only go on, with the locals but for the place as they are.
LEMMA GoingWaits ==
  ASSUME ThreadsInv, WaitsInv, ProcessesSound, NEW t \in AnyThread,
         \/ P!TestCount(t) \/ P!DropThread(t) \/ P!ZeroCount(t) \/ P!WakeDone(t)
         \/ P!CountThread(t) \/ P!RegisterThread(t)
  PROVE  WaitsInv'
<1>1. PICK l \in {"test", "drop", "mark", "wake", "store", "register"} : P!At(t, l)
  BY DEF P!TestCount, P!DropThread, P!ZeroCount, P!WakeDone, P!CountThread, P!RegisterThread
<1>2. /\ current = t /\ waitsFor[t] = {} /\ local[t].pc = l
  BY <1>1, Acting, ActingWaits
<1>3. UNCHANGED <<current, ready, waitsFor, waiters, WaitNext, born, state, exited>>
  BY DEF P!TestCount, P!DropThread, P!ZeroCount, P!WakeDone, P!CountThread, P!RegisterThread,
         P!shared, P!cpuVars
<1>4. PICK m \in {"load", "ended", "exit", "out", "register", "add"} :
        P!Go(t, m) /\ (m \in {"register", "add"} => l \in {"store", "register"})
  <2>1. local[t].back \in {"out", "ended"}
    BY DEF ThreadsInv, Places, Placed
  <2>2. CASE P!TestCount(t) \/ P!DropThread(t) \/ P!ZeroCount(t) \/ P!WakeDone(t)
    BY <2>1, <2>2 DEF P!TestCount, P!DropThread, P!ZeroCount, P!WakeDone
  <2>3. CASE P!CountThread(t) \/ P!RegisterThread(t)
    BY <1>2, <2>3 DEF P!CountThread, P!RegisterThread, P!At
  <2>. QED
    BY <2>2, <2>3
<1>5. /\ Others(t) /\ local'[t].pc = m /\ local'[t].thread = local[t].thread
  <2>1. m \in P!Location
    BY <1>4 DEF P!Location
  <2>. QED
    BY <1>4, <2>1, Goes DEF ThreadsInv
<1>6. local'[t].pc \notin Walk \ {"exit", "take"} /\ local'[t].pc # "take"
      /\ local'[t].pc # "enqueue"
  BY <1>4, <1>5 DEF Walk
<1>7. Making(local'[t]) => waitsFor[local'[t].thread] = {}
  BY <1>2, <1>4, <1>5 DEF Making, WaitsInv, Informing, Informed
<1>8. NoneReturns /\ FlagsStay
  BY <1>3 DEF NoneReturns, FlagsStay
<1>. QED
  BY <1>2, <1>3, <1>5, <1>6, <1>7, <1>8, WalksNot

\* The steps that begin something, or count.
LEMMA BeginningWaits ==
  ASSUME ThreadsInv, WaitsInv, ProcessesSound, NEW t \in AnyThread,
         \/ \E p \in Process : P!WaitProcess(t, p) \/ P!KillProcess(t, p)
         \/ P!Terminate(t) \/ P!LoadCount(t) \/ P!MarkThread(t)
  PROVE  WaitsInv'
<1>1. PICK l \in {"out", "load", "mark"} : P!At(t, l)
  BY DEF P!WaitProcess, P!KillProcess, P!Terminate, P!LoadCount, P!MarkThread
<1>2. current = t /\ waitsFor[t] = {} /\ local[t] \in P!Local /\ local[t].pc = l
  BY <1>1, Acting, ActingWaits
<1>3. UNCHANGED <<current, ready, waitsFor, waiters, WaitNext, born, exited>>
  BY DEF P!WaitProcess, P!KillProcess, P!Terminate, P!LoadCount, P!MarkThread,
         P!shared, P!cpuVars
<1>4. \/ state' = state \/ \E c \in AnyThread : state' = [state EXCEPT ![c] = "TERMINATED"]
  <2>1. CASE P!MarkThread(t)
    <3>1. local[t].index \in 1 .. Len(registry) \/ local[t].index = 0
      BY <1>2, <2>1 DEF P!MarkThread, P!Local, ThreadsInv, ThreadKinds
    <3>. QED
      BY <2>1, <3>1 DEF P!MarkThread, ThreadsInv, ThreadKinds
  <2>2. CASE P!Terminate(t)
    BY <2>2 DEF P!Terminate
  <2>3. CASE P!LoadCount(t) \/ \E p \in Process : P!WaitProcess(t, p) \/ P!KillProcess(t, p)
    BY <2>3 DEF P!WaitProcess, P!KillProcess, P!LoadCount, P!cpuVars
  <2>. QED
    BY <2>1, <2>2, <2>3
<1>5. NoneReturns /\ FlagsStay
  BY <1>3, <1>4 DEF NoneReturns, FlagsStay, ThreadsInv, ThreadKinds
<1>6. /\ Others(t)
      /\ local'[t].pc \in {"enqueue", "mark", "test", "drop"}
      /\ local'[t].pc = "enqueue" => local'[t].process \in Waitable
  <2>1. CASE \E p \in Process : P!WaitProcess(t, p)
    <3>1. PICK p \in Process : P!WaitProcess(t, p)
      BY <2>1
    <3>. QED
      BY <1>2, <3>1 DEF P!WaitProcess, Others, ThreadsInv, ThreadKinds, P!Local
  <2>2. CASE \E p \in Process : P!KillProcess(t, p)
    <3>1. PICK p \in Process : P!KillProcess(t, p)
      BY <2>2
    <3>. QED
      BY <1>2, <3>1 DEF P!KillProcess, Others, ThreadsInv, ThreadKinds, P!Local
  <2>3. CASE P!Terminate(t)
    BY <1>2, <2>3 DEF P!Terminate, Others, ThreadsInv, ThreadKinds, P!Local
  <2>4. CASE P!LoadCount(t)
    BY <1>2, <2>4 DEF P!LoadCount, Others, ThreadsInv, ThreadKinds, P!Local
  <2>5. CASE P!MarkThread(t)
    BY <1>2, <2>5 DEF P!MarkThread, P!At, Others, ThreadsInv, ThreadKinds, P!Local
  <2>. QED
    BY <2>1, <2>2, <2>3, <2>4, <2>5
<1>7. /\ local'[t].pc \notin Walk \ {"exit", "take"} /\ local'[t].pc # "take"
      /\ ~Making(local'[t])
  BY <1>6 DEF Walk, Making
<1>. QED
  BY <1>2, <1>3, <1>5, <1>6, <1>7, WalksNot

LEMMA CreateUserThreadWaits ==
  ASSUME ThreadsInv, WaitsInv, ProcessesSound, NEW t \in AnyThread, NEW u \in AnyThread,
         P!CreateUserThread(t, u)
  PROVE  WaitsInv'
<1>1. current = t /\ waitsFor[t] = {} /\ local[t] \in P!Local
  BY Acting, ActingWaits DEF P!CreateUserThread
<1>2. /\ UNCHANGED <<current, ready, waitsFor, waiters, WaitNext, state, exited>>
      /\ born \subseteq born' /\ u \notin born
  BY DEF P!CreateUserThread, P!cpuVars
<1>3. Others(t) /\ local'[t].pc = "store" /\ local'[t].thread = u
  BY <1>1 DEF P!CreateUserThread, Others, ThreadsInv, ThreadKinds, P!Local
<1>4. NoneReturns /\ FlagsStay /\ waitsFor[u] = {}
  BY <1>2 DEF NoneReturns, FlagsStay, WaitsInv, WaitKinds
<1>5. local'[t].pc \notin Walk \ {"exit", "take"} /\ local'[t].pc # "take"
      /\ local'[t].pc # "enqueue"
  BY <1>3 DEF Walk
<1>. QED
  BY <1>1, <1>2, <1>3, <1>4, <1>5, WalksNot

LEMMA ExitWaits ==
  ASSUME ThreadsInv, WaitsInv, ProcessesSound, NEW t \in AnyThread, P!Exit(t)
  PROVE  WaitsInv'
<1>1. current = t /\ waitsFor[t] = {} /\ local[t] \in P!Local
  BY Acting, ActingWaits DEF P!Exit
<1>2. /\ UNCHANGED <<current, ready, waitsFor, waiters, WaitNext, state, born>>
      /\ exited' = [exited EXCEPT ![local[t].process] = TRUE]
  BY DEF P!Exit, P!SetExited, P!cpuVars
<1>3. Others(t) /\ local'[t].pc = "take" /\ local'[t].process = local[t].process
  <2>1. P!Go(t, "take") /\ "take" \in P!Location
    BY DEF P!Exit, P!Location
  <2>. QED
    BY <2>1, Goes DEF ThreadsInv
<1>4. exited'[local'[t].process] /\ FlagsStay /\ NoneReturns
  BY <1>1, <1>2, <1>3 DEF FlagsStay, NoneReturns, ThreadsInv, ThreadKinds, P!Local
<1>5. local'[t].pc \notin Walk \ {"exit", "take"} /\ ~Making(local'[t])
      /\ local'[t].pc # "enqueue"
  BY <1>3 DEF Walk, Making
<1>. QED
  BY <1>1, <1>2, <1>3, <1>4, <1>5, WalksNot

(***************************************************************************)
(* The walk over the waiters.                                              *)
(***************************************************************************)
LEMMA TakeWaitersWaits ==
  ASSUME ThreadsInv, WaitsInv, ProcessesSound, NEW t \in AnyThread, P!TakeWaiters(t)
  PROVE  WaitsInv'
<1>1. /\ current = t /\ waitsFor[t] = {} /\ local[t] \in P!Local /\ local[t].pc = "take"
      /\ local[t].process \in Process
  BY Acting, ActingWaits DEF P!TakeWaiters, P!Local
<1>2. UNCHANGED <<current, ready, waitsFor, waiters, WaitNext, state, born, exited>>
  BY DEF P!TakeWaiters, P!shared, P!cpuVars
<1>3. /\ Others(t) /\ local'[t].pc = "clear" /\ local'[t].process = local[t].process
      /\ local'[t].w = waiters[local[t].process]
  BY <1>1 DEF P!TakeWaiters, Others, ThreadsInv, ThreadKinds, P!Local
<1>4. NoneReturns /\ FlagsStay
  BY <1>2 DEF FlagsStay, NoneReturns
<1>5. Informed(local[t])'
  <2>1. exited[local[t].process]
    BY <1>1 DEF WaitsInv, Informing, Informed, Walk
  <2>2. local'[t].w # NULL => local[t].process \in Waitable
    BY <1>1, <1>3 DEF WaitsInv, WaitKinds
  <2>. QED
    BY <1>2, <1>3, <2>1, <2>2 DEF Informed, Making
<1>6. ASSUME Apart
      PROVE  Walker(local[t])'
  <2>1. Lists
    BY <1>6 DEF WaitsInv
  <2>2. Leads(local[t].process, local'[t].w)
    BY <1>1, <1>3, <2>1 DEF Lists
  <2>3. Leads(local[t].process, local[t].w)'
    BY <1>2, <1>3, <2>1, <2>2, ListsSame DEF Leads
  <2>. QED
    BY <1>3, <2>3 DEF Walker
<1>. QED
  BY <1>1, <1>2, <1>3, <1>4, <1>5, <1>6, WaitsStay

LEMMA NextWaiterWaits ==
  ASSUME ThreadsInv, WaitsInv, ProcessesSound, NEW t \in AnyThread, P!NextWaiter(t)
  PROVE  WaitsInv'
<1>1. /\ current = t /\ waitsFor[t] = {} /\ local[t] \in P!Local /\ local[t].pc = "wake"
      /\ local[t].w # NULL
  BY Acting, ActingWaits DEF P!NextWaiter
<1>2. UNCHANGED <<current, ready, waitsFor, waiters, WaitNext, state, born, exited>>
  BY DEF P!NextWaiter, P!shared, P!cpuVars
<1>3. /\ Others(t) /\ local'[t].pc = "unlink" /\ local'[t].process = local[t].process
      /\ local'[t].w = local[t].w /\ local'[t].nxt = WaitNext[local[t].w]
  BY <1>1 DEF P!NextWaiter, Others, ThreadsInv, ThreadKinds, P!Local
<1>4. NoneReturns /\ FlagsStay
  BY <1>2 DEF FlagsStay, NoneReturns
<1>5. Informed(local[t])'
  BY <1>1, <1>2, <1>3 DEF WaitsInv, Informing, Informed, Making, Walk
<1>6. ASSUME Apart, local[t].process \in Waitable
      PROVE  Walker(local[t])'
  <2>1. Lists /\ Leads(local[t].process, local[t].w) /\ waiters[local[t].process] = NULL
    BY <1>1, <1>6 DEF WaitsInv, Walker, Walk
  <2>2. Leads(local[t].process, local[t].w)'
    BY <1>2, <1>3, <2>1, ListsSame DEF Leads
  <2>. QED
    BY <1>2, <1>3, <2>1, <2>2 DEF Walker
<1>7. Apart => Walker(local[t])'
  BY <1>3, <1>6 DEF Walker
<1>. QED
  BY <1>1, <1>2, <1>3, <1>4, <1>5, <1>7, WaitsStay

LEMMA SkipEndedWaits ==
  ASSUME ThreadsInv, WaitsInv, ProcessesSound, NEW t \in AnyThread, P!SkipEnded(t)
  PROVE  WaitsInv'
<1>1. /\ current = t /\ waitsFor[t] = {} /\ local[t] \in P!Local /\ local[t].pc = "unblock"
      /\ local[t].w # NULL
  BY Acting, ActingWaits DEF P!SkipEnded, ThreadsInv, Pointers, PointsWell
<1>2. UNCHANGED <<current, ready, waitsFor, waiters, WaitNext, state, born, exited>>
  BY DEF P!SkipEnded, P!shared, P!cpuVars
<1>3. /\ Others(t) /\ local'[t].process = local[t].process /\ local'[t].nxt = local[t].nxt
      /\ \/ local'[t].pc = "wake" /\ local'[t].w = local[t].nxt
         \/ local'[t].pc = "ready" /\ local'[t].w = local[t].w
  <2>1. CASE state[local[t].w] = "TERMINATED"
    BY <1>1, <2>1 DEF P!SkipEnded, Others, ThreadsInv, ThreadKinds, P!Local
  <2>2. CASE state[local[t].w] # "TERMINATED"
    BY <1>1, <2>2 DEF P!SkipEnded, P!Go, Others, ThreadsInv, ThreadKinds, P!Local
  <2>. QED
    BY <2>1, <2>2
<1>4. NoneReturns /\ FlagsStay
  BY <1>2 DEF FlagsStay, NoneReturns
<1>5. Informed(local[t])'
  BY <1>1, <1>2, <1>3 DEF WaitsInv, Informing, Informed, Making, Walk
<1>6. ASSUME Apart, local[t].process \in Waitable
      PROVE  Walker(local[t])'
  <2>1. /\ Lists /\ Leads(local[t].process, local[t].w) /\ waiters[local[t].process] = NULL
        /\ Leads(local[t].process, local[t].nxt)
        /\ local[t].nxt # NULL => local[t].nxt # local[t].w
    BY <1>1, <1>6 DEF WaitsInv, Walker, Walk
  <2>2. /\ Leads(local[t].process, local[t].w)' /\ Leads(local[t].process, local[t].nxt)'
    BY <1>2, <1>3, <2>1, ListsSame DEF Leads
  <2>. QED
    BY <1>2, <1>3, <2>1, <2>2 DEF Walker
<1>7. Apart => Walker(local[t])'
  BY <1>3, <1>6 DEF Walker
<1>. QED
  BY <1>1, <1>2, <1>3, <1>4, <1>5, <1>7, WaitsStay

LEMMA ClearWaitersWaits ==
  ASSUME ThreadsInv, WaitsInv, ProcessesSound, NEW t \in AnyThread, P!ClearWaiters(t)
  PROVE  WaitsInv'
<1>1. /\ current = t /\ waitsFor[t] = {} /\ local[t] \in P!Local /\ local[t].pc = "clear"
      /\ local[t].process \in Process
  BY Acting, ActingWaits DEF P!ClearWaiters, P!Local
<1>2. /\ UNCHANGED <<current, ready, waitsFor, WaitNext, state, born, exited>>
      /\ waiters' = [waiters EXCEPT ![local[t].process] = NULL]
  BY DEF P!ClearWaiters, P!cpuVars
<1>3. /\ Others(t) /\ local'[t].pc = "wake" /\ local'[t].process = local[t].process
      /\ local'[t].w = local[t].w
  <2>1. P!Go(t, "wake") /\ "wake" \in P!Location
    BY DEF P!ClearWaiters, P!Location
  <2>. QED
    BY <2>1, Goes DEF ThreadsInv
<1>4. waiters'[local[t].process] = NULL
      /\ \A p \in Process : waiters'[p] = waiters[p] \/ waiters'[p] = NULL
  BY <1>1, <1>2 DEF ThreadsInv, Pointers
<1>5. WaitKinds'
  BY <1>2, <1>4 DEF WaitsInv, WaitKinds
<1>6. Informing' /\ WaitMeansExited'
  <2>1. Informed(local[t])'
    BY <1>1, <1>2, <1>3 DEF WaitsInv, Informing, Informed, Making, Walk
  <2>2. \A c \in AnyThread : Making(local[c]) => waitsFor'[local[c].thread] = {}
    BY <1>2 DEF WaitsInv, Informing, Informed
  <2>3. FlagsStay
    BY <1>2 DEF FlagsStay
  <2>4. WaitMeansExited'
    BY <1>2 DEF WaitsInv, WaitMeansExited, P!WaitMeansExited
  <2>. QED
    BY <1>3, <2>1, <2>2, <2>3, <2>4, InformingStays DEF ThreadsInv, WaitsInv
<1>7. ASSUME Apart
      PROVE  Lists' /\ Walker(local[current])'
  <2>1. Lists /\ Walker(local[t])
    BY <1>1, <1>7 DEF WaitsInv
  <2>2. Linked' = Linked /\ \A p : On(p)' = On(p)
    BY <1>2 DEF Linked, On
  <2>3. \A p, x : Leads(p, x) <=> (x # NULL => x \in On(p)' /\ \A n \in Linked' : WaitNext'[n] # x)
    BY <1>2, <2>2 DEF Leads, NoneTo
  <2>4. \A p \in Process : Leads(p, waiters[p])'
    BY <1>4, <2>1, <2>3 DEF Lists, Leads, NoneTo
  <2>5. Lists'
    BY <1>2, <2>1, <2>2, <2>4 DEF Lists
  <2>6. Walker(local[t])'
    <3>1. local[t].process \in Waitable => Leads(local[t].process, local[t].w)
      BY <1>1, <2>1 DEF Walker, Walk
    <3>2. local[t].process \in Waitable => Leads(local[t].process, local[t].w)'
      BY <1>3, <2>3, <3>1 DEF Leads, NoneTo
    <3>. QED
      BY <1>3, <1>4, <3>2 DEF Walker
  <2>. QED
    BY <1>1, <1>2, <2>5, <2>6
<1>. QED
  BY <1>5, <1>6, <1>7 DEF WaitsInv

LEMMA UnlinkWaiterWaits ==
  ASSUME ThreadsInv, WaitsInv, ProcessesSound, NEW t \in AnyThread, P!UnlinkWaiter(t)
  PROVE  WaitsInv'
<1>1. /\ current = t /\ waitsFor[t] = {} /\ local[t] \in P!Local /\ local[t].pc = "unlink"
      /\ local[t].w # NULL /\ local[t].process \in Process /\ local[t].w \in AnyThread
  <2>1. local[t].w # NULL /\ local[t].pc = "unlink"
    BY Acting DEF P!UnlinkWaiter, ThreadsInv, Pointers, PointsWell
  <2>. QED
    BY <2>1, Acting, ActingWaits DEF P!UnlinkWaiter, P!Local
<1>2. /\ UNCHANGED <<current, ready, waitsFor, waiters, state, born, exited>>
      /\ WaitNext' = [WaitNext EXCEPT ![local[t].w] = NULL]
  BY DEF P!UnlinkWaiter, P!cpuVars
<1>3. /\ Others(t) /\ local'[t].pc = "unblock" /\ local'[t].process = local[t].process
      /\ local'[t].w = local[t].w /\ local'[t].nxt = local[t].nxt
  <2>1. P!Go(t, "unblock") /\ "unblock" \in P!Location
    BY DEF P!UnlinkWaiter, P!Location
  <2>. QED
    BY <2>1, Goes DEF ThreadsInv
<1>4. /\ WaitNext'[local[t].w] = NULL
      /\ \A m \in AnyThread : m # local[t].w => WaitNext'[m] = WaitNext[m]
  BY <1>1, <1>2 DEF ThreadsInv, Pointers
<1>5. WaitKinds'
  BY <1>2 DEF WaitsInv, WaitKinds
<1>6. Informing' /\ WaitMeansExited'
  <2>1. Informed(local[t])'
    BY <1>1, <1>2, <1>3 DEF WaitsInv, Informing, Informed, Making, Walk
  <2>2. \A c \in AnyThread : Making(local[c]) => waitsFor'[local[c].thread] = {}
    BY <1>2 DEF WaitsInv, Informing, Informed
  <2>3. FlagsStay
    BY <1>2 DEF FlagsStay
  <2>4. WaitMeansExited'
    BY <1>2 DEF WaitsInv, WaitMeansExited, P!WaitMeansExited
  <2>. QED
    BY <1>3, <2>1, <2>2, <2>3, <2>4, InformingStays DEF ThreadsInv, WaitsInv
<1>7. ASSUME Apart
      PROVE  Lists' /\ Walker(local[current])'
  <2>1. Lists /\ Walker(local[t])
    BY <1>1, <1>7 DEF WaitsInv
  <2>2. Linked' = Linked /\ (\A p : On(p)' = On(p)) /\ Linked \subseteq AnyThread
    BY <1>2 DEF Linked, On
  <2>3. \A x : x # NULL /\ NoneTo(x) => \A n \in Linked' : WaitNext'[n] # x
    BY <1>4, <2>2 DEF NoneTo
  <2>4. \A p \in Process : Leads(p, waiters[p])'
    BY <1>2, <2>1, <2>2, <2>3 DEF Lists, Leads, NoneTo
  <2>5. Lists'
    <3>1. \A p : On(p) \subseteq Linked
      BY DEF On
    <3>2. \A m \in Linked : WaitNext'[m] = NULL \/ WaitNext'[m] = WaitNext[m]
      BY <1>4, <2>2
    <3>3. \A p \in Process : \A m \in On(p) : WaitNext'[m] # NULL => WaitNext'[m] \in On(p)
      BY <2>1, <3>1, <3>2 DEF Lists
    <3>4. \A m, n \in Linked : WaitNext'[m] = WaitNext'[n] /\ WaitNext'[m] # NULL => m = n
      BY <2>1, <3>2 DEF Lists
    <3>. QED
      BY <1>2, <2>1, <2>2, <2>4, <3>3, <3>4 DEF Lists
  <2>6. ASSUME local[t].process \in Waitable
        PROVE  Walker(local[t])'
    <3> DEFINE w == local[t].w  n == local[t].nxt
    <3>1. /\ w \in On(local[t].process) /\ NoneTo(w) /\ n = WaitNext[w]
          /\ waiters[local[t].process] = NULL
      BY <1>1, <2>1, <2>6 DEF Walker, Leads, Walk
    <3>2. w \in Linked
      BY <3>1 DEF On
    <3>3. n # NULL => n \in On(local[t].process) /\ n # w
      BY <1>1, <2>1, <3>1, <3>2 DEF Lists, NoneTo
    <3>4. n # NULL => \A m \in Linked' : WaitNext'[m] # n
      BY <1>4, <2>1, <2>2, <3>1, <3>2 DEF Lists
    <3>5. Leads(local[t].process, local[t].w)'
      BY <1>1, <1>3, <2>2, <2>3, <3>1 DEF Leads, NoneTo
    <3>6. Leads(local[t].process, local[t].nxt)'
      BY <1>3, <2>2, <3>3, <3>4 DEF Leads, NoneTo
    <3>. QED
      BY <1>2, <1>3, <3>1, <3>3, <3>5, <3>6 DEF Walker
  <2>7. Walker(local[t])'
    BY <1>3, <2>6 DEF Walker
  <2>. QED
    BY <1>1, <1>2, <2>5, <2>7
<1>. QED
  BY <1>5, <1>6, <1>7 DEF WaitsInv

\* Who is woken waits for the process that has exited, and for no other.
LEMMA WokenAwaits ==
  ASSUME WaitsInv, ProcessesSound, Apart \/ OneAwaited, NEW t \in AnyThread, current = t,
         local[t].pc = "ready", local[t].w # NULL, local[t].w \in AnyThread,
         local[t].process \in Process
  PROVE  /\ local[t].process \in Waitable /\ exited[local[t].process]
         /\ waitsFor[local[t].w] \subseteq {local[t].process}
<1>1. local[t].process \in Waitable /\ exited[local[t].process]
  BY DEF WaitsInv, Informing, Informed, Walk
<1>2. CASE OneAwaited
  BY <1>1, <1>2 DEF OneAwaited, WaitsInv, WaitKinds
<1>3. CASE Apart
  <2>1. local[t].w \in On(local[t].process)
    BY <1>1, <1>3 DEF WaitsInv, Walker, Walk, Leads
  <2>. QED
    BY <1>1, <2>1 DEF On, WaitsInv, WaitKinds
<1>. QED
  BY <1>1, <1>2, <1>3

LEMMA UnblockWaiterWaits ==
  ASSUME ThreadsInv, WaitsInv, ProcessesSound, Apart \/ OneAwaited,
         NEW t \in AnyThread, P!UnblockWaiter(t)
  PROVE  WaitsInv'
<1> DEFINE w == local[t].w  n == local[t].nxt
<1>1. /\ current = t /\ waitsFor[t] = {} /\ local[t] \in P!Local /\ local[t].pc = "ready"
      /\ w # NULL /\ w \in AnyThread /\ local[t].process \in Process
  <2>1. local[t].w # NULL /\ local[t].pc = "ready"
    BY Acting DEF P!UnblockWaiter, ThreadsInv, Pointers, PointsWell
  <2>. QED
    BY <2>1, Acting, ActingWaits DEF P!UnblockWaiter, P!Local
<1>2. /\ UNCHANGED <<current, waitsFor, waiters, WaitNext, born, exited>>
      /\ state' = [state EXCEPT ![w] = "READY"] /\ ready' = ready \cup {w}
  BY DEF P!UnblockWaiter, P!shared
<1>3. /\ Others(t) /\ local'[t].pc = "wake" /\ local'[t].process = local[t].process
      /\ local'[t].w = n
  BY <1>1 DEF P!UnblockWaiter, Others, ThreadsInv, ThreadKinds, P!Local
<1>4. /\ local[t].process \in Waitable /\ exited[local[t].process]
      /\ waitsFor[w] \subseteq {local[t].process}
  BY <1>1, WokenAwaits
<1>5. WaitKinds'
  BY <1>1, <1>2 DEF WaitsInv, WaitKinds
<1>6. Informing' /\ WaitMeansExited'
  <2>1. Informed(local[t])'
    BY <1>2, <1>3, <1>4 DEF Informed, Making, Walk
  <2>2. \A c \in AnyThread : Making(local[c]) => waitsFor'[local[c].thread] = {}
    BY <1>2 DEF WaitsInv, Informing, Informed
  <2>3. FlagsStay
    BY <1>2 DEF FlagsStay
  <2>4. WaitMeansExited'
    BY <1>2, <1>4 DEF WaitsInv, WaitMeansExited, P!WaitMeansExited, ThreadsInv, ThreadKinds
  <2>. QED
    BY <1>3, <2>1, <2>2, <2>3, <2>4, InformingStays DEF ThreadsInv, WaitsInv
<1>7. ASSUME Apart
      PROVE  Lists' /\ Walker(local[current])'
  <2>1. /\ Lists /\ w \in On(local[t].process) /\ NoneTo(w)
        /\ Leads(local[t].process, n) /\ (n # NULL => n # w)
        /\ waiters[local[t].process] = NULL
    BY <1>1, <1>4, <1>7 DEF WaitsInv, Walker, Walk, Leads
  <2>2. Linked' = Linked \ {w} /\ \A p : On(p)' = On(p) \ {w}
    BY <1>2 DEF Linked, On
  <2>3. \A p, x : x # w /\ Leads(p, x)
                  => (x # NULL => x \in On(p)' /\ \A m \in Linked' : WaitNext'[m] # x)
    BY <1>2, <2>2 DEF Leads, NoneTo
  <2>4. \A p \in Process : waiters[p] # w
    BY <1>1, <1>4, <2>1 DEF Lists, Leads, On
  <2>5. \A p \in Process : Leads(p, waiters[p])'
    BY <1>2, <2>1, <2>3, <2>4 DEF Lists, Leads, NoneTo
  <2>6. Lists'
    <3>1. current \notin ready'
      BY <1>1, <1>2, <2>1 DEF Lists, On
    <3>2. \A p \in Process : \A m \in On(p)' : WaitNext'[m] # NULL => WaitNext'[m] \in On(p)'
      BY <1>2, <2>1, <2>2 DEF Lists, NoneTo, On
    <3>3. \A m, k \in Linked' : WaitNext'[m] = WaitNext'[k] /\ WaitNext'[m] # NULL => m = k
      BY <1>2, <2>1, <2>2 DEF Lists
    <3>. QED
      BY <1>2, <2>5, <3>1, <3>2, <3>3 DEF Lists
  <2>7. Leads(local[t].process, local[t].w)'
    BY <1>3, <2>1, <2>3 DEF Leads, NoneTo
  <2>8. Walker(local[t])'
    BY <1>2, <1>3, <2>1, <2>7 DEF Walker
  <2>. QED
    BY <1>1, <1>2, <2>6, <2>8
<1>. QED
  BY <1>5, <1>6, <1>7 DEF WaitsInv

(***************************************************************************)
(* A thread blocks, is added, is switched to.                              *)
(***************************************************************************)
LEMMA EnqueueLists ==
  ASSUME ThreadsInv, WaitKinds, Lists, ProcessesSound, NEW t \in AnyThread, t = current, waitsFor[t] = {},
         NEW p \in Process, UNCHANGED <<current, ready>>,
         waitsFor' = [waitsFor EXCEPT ![t] = {p}],
         waiters' = [waiters EXCEPT ![p] = t],
         WaitNext' = [WaitNext EXCEPT ![t] = waiters[p]]
  PROVE  Lists'
<1> DEFINE h == waiters[p]
<1>1. /\ waitsFor'[t] = {p} /\ \A c \in AnyThread : c # t => waitsFor'[c] = waitsFor[c]
      /\ WaitNext'[t] = h /\ \A c \in AnyThread : c # t => WaitNext'[c] = WaitNext[c]
      /\ waiters'[p] = t /\ \A q \in Process : q # p => waiters'[q] = waiters[q]
  BY DEF WaitKinds, ThreadsInv, Pointers
<1>2. t \notin Linked /\ t \notin ready /\ Linked \subseteq AnyThread
  BY DEF Linked, Lists
<1>3. Linked' = Linked \cup {t}
  BY <1>1, <1>2 DEF Linked
<1>4. /\ On(p)' = On(p) \cup {t} /\ \A q \in Process : q # p => On(q)' = On(q)
      /\ \A q : On(q) \subseteq Linked
  BY <1>1, <1>2, <1>3 DEF On
<1>5. h # NULL => h \in On(p) /\ NoneTo(h)
  BY DEF Lists, Leads
<1>6. \A n \in Linked : WaitNext[n] # t
  <2>1. ASSUME NEW n \in Linked, WaitNext[n] = t
        PROVE  FALSE
    <3>1. t # NULL /\ Waitable \subseteq Process
      BY ThreadFacts DEF ProcessesSound, P!ProcessesAssumption
    <3>2. PICK q \in Process : n \in On(q)
      BY <3>1 DEF Linked, On, WaitKinds
    <3>. QED
      BY <1>2, <1>4, <2>1, <3>1, <3>2 DEF Lists
  <2>. QED
    BY <2>1
<1>7. \A q \in Process : Leads(q, waiters[q])'
  <2>1. Leads(p, waiters[p])'
    BY <1>1, <1>2, <1>3, <1>4, <1>5, <1>6 DEF Leads, NoneTo
  <2>2. ASSUME NEW q \in Process, q # p, waiters[q] # NULL
        PROVE  waiters[q] \in On(q)' /\ NoneTo(waiters[q])'
    <3>1. waiters[q] \in On(q) /\ NoneTo(waiters[q])
      BY <2>2 DEF Lists, Leads
    <3>2. waiters[q] # h
      BY <1>2, <1>5, <2>2, <3>1 DEF On, Linked, WaitKinds
    <3>. QED
      BY <1>1, <1>2, <1>3, <1>4, <2>2, <3>1, <3>2 DEF NoneTo
  <2>. QED
    BY <1>1, <2>1, <2>2 DEF Leads
<1>8. \A q \in Process : \A m \in On(q)' : WaitNext'[m] # NULL => WaitNext'[m] \in On(q)'
  <2>1. ASSUME NEW q \in Process, NEW m \in On(q)', WaitNext'[m] # NULL
        PROVE  WaitNext'[m] \in On(q)'
    <3>1. On(q) \subseteq On(q)'
      BY <1>4
    <3>2. CASE m = t
      <4>1. q = p
        BY <1>2, <1>4, <3>2
      <4>. QED
        BY <1>1, <1>5, <2>1, <3>1, <3>2, <4>1
    <3>3. CASE m # t
      <4>1. m \in On(q) /\ m \in AnyThread
        BY <1>2, <1>4, <3>3
      <4>. QED
        BY <1>1, <2>1, <3>1, <3>3, <4>1 DEF Lists
    <3>. QED
      BY <3>2, <3>3
  <2>. QED
    BY <2>1
<1>9. \A m, n \in Linked' : WaitNext'[m] = WaitNext'[n] /\ WaitNext'[m] # NULL => m = n
  <2>1. \A m \in Linked : h # NULL => WaitNext'[m] # h
    BY <1>1, <1>2, <1>5 DEF NoneTo
  <2>2. \A m \in Linked : WaitNext'[m] = WaitNext[m]
    BY <1>1, <1>2
  <2>3. \A m, n \in Linked : WaitNext'[m] = WaitNext'[n] /\ WaitNext'[m] # NULL => m = n
    BY <2>2 DEF Lists
  <2>. QED
    BY <1>1, <1>3, <2>1, <2>3
<1>. QED
  BY <1>2, <1>7, <1>8, <1>9 DEF Lists

LEMMA EnqueueWaits ==
  ASSUME ThreadsInv, WaitsInv, ProcessesSound, NEW t \in AnyThread, P!Enqueue(t)
  PROVE  WaitsInv'
<1> DEFINE p == local[t].process
<1>1. /\ current = t /\ waitsFor[t] = {} /\ local[t] \in P!Local /\ local[t].pc = "enqueue"
      /\ p \in Process /\ t \in Settled /\ t \in born
  BY Acting, ActingWaits DEF P!Enqueue, P!Local
<1>2. p \in Waitable
  BY <1>1 DEF WaitsInv, Informing, Informed
<1>3. /\ UNCHANGED <<current, ready, born, exited>>
      /\ state' = [state EXCEPT ![t] = "BLOCKED"]
      /\ waitsFor' = [waitsFor EXCEPT ![t] = {p}]
      /\ waiters' = [waiters EXCEPT ![p] = t]
      /\ WaitNext' = [WaitNext EXCEPT ![t] = waiters[p]]
  BY <1>1 DEF P!Enqueue, P!Block, P!Link
<1>4. Others(t) /\ local'[t].pc = "out"
  BY <1>1 DEF P!Enqueue, P!Go, Others, ThreadsInv, ThreadKinds, P!Local
<1>5. /\ state'[t] = "BLOCKED" /\ \A c \in AnyThread : c # t => state'[c] = state[c]
      /\ waitsFor'[t] = {p} /\ \A c \in AnyThread : c # t => waitsFor'[c] = waitsFor[c]
  BY <1>3 DEF ThreadsInv, ThreadKinds, WaitsInv, WaitKinds
<1>6. WaitKinds'
  <2>1. waitsFor' \in [AnyThread -> SUBSET Waitable]
    BY <1>2, <1>3 DEF WaitsInv, WaitKinds
  <2>2. \A c \in AnyThread : \A a, b \in waitsFor'[c] : a = b
    BY <1>5 DEF WaitsInv, WaitKinds
  <2>3. \A c \in AnyThread \ born : waitsFor'[c] = {}
    BY <1>1, <1>5 DEF WaitsInv, WaitKinds
  <2>4. \A q \in Process : waiters'[q] # NULL => q \in Waitable
    BY <1>2, <1>3 DEF WaitsInv, WaitKinds, ThreadsInv, Pointers
  <2>. QED
    BY <1>1, <1>3, <1>5, <2>1, <2>2, <2>3, <2>4 DEF WaitKinds
<1>7. Informing'
  <2>1. Informed(local[t])'
    BY <1>4 DEF Informed, Making, Walk
  <2>2. \A c \in AnyThread : Making(local[c]) => waitsFor'[local[c].thread] = {}
    <3>1. ASSUME NEW c \in AnyThread, Making(local[c])
          PROVE  waitsFor'[local[c].thread] = {}
      <4>1. local[c].thread \in Newcomers /\ waitsFor[local[c].thread] = {}
        BY <3>1 DEF Newcomers, WaitsInv, Informing, Informed
      <4>2. local[c].thread \in AnyThread /\ local[c].thread # t
        BY <1>1, <4>1 DEF Settled, ThreadsInv, ThreadKinds, P!Local
      <4>. QED
        BY <1>5, <4>1, <4>2
    <3>. QED
      BY <3>1
  <2>3. FlagsStay
    BY <1>3 DEF FlagsStay
  <2>. QED
    BY <1>4, <2>1, <2>2, <2>3, InformingStays DEF ThreadsInv, WaitsInv
<1>8. WaitMeansExited'
  BY <1>3, <1>5 DEF WaitsInv, WaitMeansExited, P!WaitMeansExited
<1>9. Apart => Lists'
  BY <1>1, <1>3, EnqueueLists DEF WaitsInv
<1>10. Walker(local[current])'
  BY <1>1, <1>3, <1>4 DEF Walker, Walk
<1>. QED
  BY <1>6, <1>7, <1>8, <1>9, <1>10 DEF WaitsInv

\* The lists when the thread that is added to the ready queue, or taken from it,
\* waits for nothing.
LEMMA ListsAlike ==
  ASSUME Lists, UNCHANGED <<waiters, WaitNext>>, Linked' = Linked, \A p : On(p)' = On(p),
         current' \notin ready'
  PROVE  Lists'
<1>1. \A p, x : Leads(p, x) <=> (x # NULL => x \in On(p)' /\ \A n \in Linked' : WaitNext'[n] # x)
  BY DEF Leads, NoneTo
<1>2. \A p \in Process : Leads(p, waiters[p])'
  BY <1>1 DEF Lists, Leads, NoneTo
<1>. QED
  BY <1>2 DEF Lists

LEMMA AddThreadWaits ==
  ASSUME ThreadsInv, WaitsInv, ProcessesSound, NEW t \in AnyThread, P!AddThread(t)
  PROVE  WaitsInv'
<1> DEFINE u == local[t].thread
<1>1. /\ current = t /\ waitsFor[t] = {} /\ local[t] \in P!Local /\ local[t].pc = "add"
      /\ u \in AnyThread /\ t \in Settled
  BY Acting, ActingWaits DEF P!AddThread, P!Local
<1>2. /\ UNCHANGED <<current, waitsFor, waiters, WaitNext, born, exited>>
      /\ state' = [state EXCEPT ![u] = "READY"] /\ ready' = ready \cup {u}
  BY DEF P!AddThread, P!shared
<1>3. Others(t) /\ local'[t].pc = "out"
  BY <1>1 DEF P!AddThread, P!Go, Others, ThreadsInv, ThreadKinds, P!Local
<1>4. waitsFor[u] = {} /\ u # t
  BY <1>1 DEF WaitsInv, Informing, Informed, Making, Settled, Newcomers
<1>5. WaitKinds'
  BY <1>1, <1>2 DEF WaitsInv, WaitKinds
<1>6. Informing' /\ WaitMeansExited'
  <2>1. Informed(local[t])'
    BY <1>3 DEF Informed, Making, Walk
  <2>2. \A c \in AnyThread : Making(local[c]) => waitsFor'[local[c].thread] = {}
    BY <1>2 DEF WaitsInv, Informing, Informed
  <2>3. FlagsStay
    BY <1>2 DEF FlagsStay
  <2>4. WaitMeansExited'
    BY <1>2, <1>4 DEF WaitsInv, WaitMeansExited, P!WaitMeansExited, ThreadsInv, ThreadKinds
  <2>. QED
    BY <1>3, <2>1, <2>2, <2>3, <2>4, InformingStays DEF ThreadsInv, WaitsInv
<1>7. ASSUME Apart
      PROVE  Lists'
  <2>1. Linked' = Linked /\ \A p : On(p)' = On(p)
    BY <1>2, <1>4 DEF Linked, On
  <2>2. Lists /\ current' \notin ready'
    BY <1>1, <1>2, <1>4, <1>7 DEF WaitsInv, Lists
  <2>. QED
    BY <1>2, <2>1, <2>2, ListsAlike
<1>8. Walker(local[current])'
  BY <1>1, <1>2, <1>3 DEF Walker, Walk
<1>. QED
  BY <1>5, <1>6, <1>7, <1>8 DEF WaitsInv

LEMMA SwitchWaits ==
  ASSUME ThreadsInv, WaitsInv, ProcessesSound, NEW t \in AnyThread, P!Switch(t)
  PROVE  WaitsInv'
<1>1. /\ t \in ready /\ current' = t
      /\ ready' = (ready \ {t}) \cup (IF state[current] = "RUNNING" THEN {current} ELSE {})
      /\ waitsFor' = [waitsFor EXCEPT ![t] = {}]
      /\ UNCHANGED <<born, exited, waiters, WaitNext, local, killed>>
  BY DEF P!Switch, P!SwitchTo, P!shared
<1>2. current \in AnyThread /\ t \in born
  BY <1>1 DEF ThreadsInv, CreatedOnce, ThreadKinds, Settled
<1>3. /\ waitsFor'[t] = {} /\ \A c \in AnyThread : c # t => waitsFor'[c] = waitsFor[c]
      /\ \A c \in AnyThread : waitsFor'[c] \subseteq waitsFor[c]
      /\ state[current] = "RUNNING" => waitsFor[current] = {}
  BY <1>1 DEF WaitsInv, WaitKinds
<1>4. \A c \in AnyThread \ {t} : state'[c] \in {"READY", "RUNNING"} =>
        state[c] \in {"READY", "RUNNING"}
  <2>1. state' = [state EXCEPT ![current] = IF @ = "RUNNING" THEN "READY" ELSE @,
                               ![t] = "RUNNING"]
    BY DEF P!Switch, P!SwitchTo
  <2>. QED
    BY <1>2, <2>1 DEF ThreadsInv, ThreadKinds
<1>5. WaitKinds'
  <2>1. waitsFor' \in [AnyThread -> SUBSET Waitable]
    BY <1>1 DEF WaitsInv, WaitKinds
  <2>. QED
    BY <1>1, <1>3, <2>1 DEF WaitsInv, WaitKinds
<1>6. Informing'
  <2>1. \A c \in AnyThread : Informed(local[c])'
    <3>1. ASSUME NEW c \in AnyThread
          PROVE  Informed(local[c])'
      <4>1. Informed(local[c]) /\ local[c].thread \in AnyThread
        BY DEF WaitsInv, Informing, ThreadsInv, ThreadKinds, P!Local
      <4>. QED
        BY <1>1, <1>3, <4>1 DEF Informed
    <3>. QED
      BY <3>1
  <2>. QED
    BY <2>1 DEF Informing
<1>7. WaitMeansExited'
  <2>1. ASSUME NEW c \in AnyThread, NEW p \in waitsFor'[c], state'[c] \in {"READY", "RUNNING"}
        PROVE  exited'[p]
    <3>1. c # t /\ p \in waitsFor[c] /\ state[c] \in {"READY", "RUNNING"}
      BY <1>3, <1>4, <2>1
    <3>. QED
      BY <1>1, <3>1 DEF WaitsInv, WaitMeansExited, P!WaitMeansExited
  <2>. QED
    BY <2>1 DEF WaitMeansExited, P!WaitMeansExited
<1>8. ASSUME Apart
      PROVE  Lists' /\ Walker(local[current])'
  <2>1. Linked' = Linked /\ \A p : On(p)' = On(p)
    <3>1. ASSUME NEW c \in AnyThread
          PROVE  (c \in Linked' <=> c \in Linked) /\ (c \in Linked => waitsFor'[c] = waitsFor[c])
      BY <1>1, <1>2, <1>3 DEF Linked
    <3>2. Linked' = Linked
      BY <3>1 DEF Linked
    <3>3. Linked \subseteq AnyThread
      BY DEF Linked
    <3>. QED
      BY <3>1, <3>2, <3>3 DEF On
  <2>2. Lists'
    <3>1. Lists /\ current' \notin ready'
      BY <1>1, <1>8 DEF WaitsInv, Lists
    <3>. QED
      BY <1>1, <2>1, <3>1, ListsAlike
  <2>3. local[t].pc \in Walk => local[t].process \notin Waitable
    <3>1. SUFFICES ASSUME local[t].pc \in Walk, local[t].process \in Waitable
                   PROVE  FALSE
      OBVIOUS
    <3>2. local[t].process \notin killed
      BY <1>8, <3>1 DEF Apart, ThreadsInv, ThreadKinds
    <3>3. Placed(t, local[t], killed) /\ EndsOnce(t)
      BY DEF ThreadsInv, Places, Ends
    <3>4. Ending(local[t]) /\ Spared(t)
      BY <3>1, <3>2, <3>3 DEF Placed, Spared
    <3>. QED
      BY <1>1, <3>3, <3>4 DEF EndsOnce
  <2>4. Walker(local[current])'
    <3>1. local'[current'] = local[t]
      BY <1>1
    <3>2. \/ local'[current'].process \notin Waitable
          \/ local'[current'].pc \notin Walk
      BY <2>3, <3>1
    <3>. QED
      BY <3>2 DEF Walker, Walk
  <2>. QED
    BY <2>2, <2>4
<1>. QED
  BY <1>5, <1>6, <1>7, <1>8 DEF WaitsInv

LEMMA InitWaits ==
  ASSUME ProcessesSound, P!Init
  PROVE  WaitsInv
<1>1. /\ current = Main /\ ready = Started \ {Main}
      /\ waiters = [p \in Process |-> NULL]
      /\ WaitNext = [t \in AnyThread |-> NULL]
      /\ waitsFor = [t \in AnyThread |-> {}]
      /\ Main \in AnyThread
  BY ThreadFacts DEF P!Init
<1>2. \A t \in AnyThread : local[t].pc = "out"
  BY DEF P!Init
<1>3. WaitKinds /\ WaitMeansExited
  BY <1>1 DEF WaitKinds, WaitMeansExited, P!WaitMeansExited
<1>4. Informing
  BY <1>2 DEF Informing, Informed, Making, Walk
<1>5. Lists
  BY <1>1 DEF Lists, Leads, On, Linked
<1>6. Walker(local[current])
  BY <1>1, <1>2 DEF Walker, Walk
<1>. QED
  BY <1>3, <1>4, <1>5, <1>6 DEF WaitsInv

LEMMA NextWaits ==
  ASSUME ThreadsInv, WaitsInv, ProcessesSound, Apart \/ OneAwaited, P!Next
  PROVE  WaitsInv'
<1>1. PICK t \in AnyThread :
        \/ P!Switch(t)
        \/ \E u \in AnyThread : P!CreateUserThread(t, u)
        \/ P!CountThread(t) \/ P!RegisterThread(t) \/ P!AddThread(t)
        \/ \E p \in Process : P!WaitProcess(t, p) \/ P!KillProcess(t, p)
        \/ P!Enqueue(t)
        \/ P!Terminate(t) \/ P!TestCount(t) \/ P!LoadCount(t) \/ P!DropThread(t)
        \/ P!MarkThread(t) \/ P!ZeroCount(t)
        \/ P!Exit(t) \/ P!TakeWaiters(t) \/ P!ClearWaiters(t)
        \/ P!NextWaiter(t) \/ P!UnlinkWaiter(t) \/ P!SkipEnded(t) \/ P!UnblockWaiter(t)
        \/ P!WakeDone(t)
  BY Zenon DEF P!Next
<1>2. CASE \/ P!TestCount(t) \/ P!DropThread(t) \/ P!ZeroCount(t) \/ P!WakeDone(t)
           \/ P!CountThread(t) \/ P!RegisterThread(t)
  BY <1>2, GoingWaits
<1>3. CASE \/ \E p \in Process : P!WaitProcess(t, p) \/ P!KillProcess(t, p)
           \/ P!Terminate(t) \/ P!LoadCount(t) \/ P!MarkThread(t)
  BY <1>3, BeginningWaits
<1>4. CASE \E u \in AnyThread : P!CreateUserThread(t, u)
  BY <1>4, CreateUserThreadWaits
<1>5. CASE P!Switch(t) \/ P!AddThread(t) \/ P!Enqueue(t)
  BY <1>5, SwitchWaits, AddThreadWaits, EnqueueWaits
<1>6. CASE P!Exit(t) \/ P!TakeWaiters(t) \/ P!ClearWaiters(t)
  BY <1>6, ExitWaits, TakeWaitersWaits, ClearWaitersWaits
<1>7. CASE P!NextWaiter(t) \/ P!UnlinkWaiter(t)
  BY <1>7, NextWaiterWaits, UnlinkWaiterWaits
<1>8. CASE P!SkipEnded(t) \/ P!UnblockWaiter(t)
  BY <1>8, SkipEndedWaits, UnblockWaiterWaits
<1>. QED
  BY <1>1, <1>2, <1>3, <1>4, <1>5, <1>6, <1>7, <1>8

LEMMA SameWaits ==
  ASSUME WaitsInv, UNCHANGED P!vars
  PROVE  WaitsInv'
<1>1. UNCHANGED <<current, state, ready, born, exited, waiters, WaitNext, waitsFor, local>>
  BY DEF P!vars, P!cpuVars, P!shared
<1>2. WaitKinds' /\ WaitMeansExited'
  BY <1>1 DEF WaitsInv, WaitKinds, WaitMeansExited, P!WaitMeansExited
<1>3. Informing'
  BY <1>1 DEF WaitsInv, Informing, Informed
<1>4. ASSUME Apart
      PROVE  Lists' /\ Walker(local[current])'
  <2>1. Lists /\ Walker(local[current])
    BY <1>4 DEF WaitsInv
  <2>2. Lists' /\ (\A p : On(p)' = On(p)) /\ \A m : NoneTo(m)' <=> NoneTo(m)
    BY <1>1, <2>1, ListsSame
  <2>3. /\ Leads(local[current].process, local[current].w)'
             <=> Leads(local[current].process, local[current].w)
        /\ Leads(local[current].process, local[current].nxt)'
             <=> Leads(local[current].process, local[current].nxt)
    BY <1>1, <2>2 DEF Leads
  <2>. QED
    BY <1>1, <2>1, <2>2, <2>3 DEF Walker
<1>. QED
  BY <1>2, <1>3, <1>4 DEF WaitsInv

\* NtWaitForSingleObject on a process returns only when that process has
\* exited: nobody is woken out of the list of one process who waits for
\* another, although the list is walked over with interrupts on.
THEOREM WaitersWait ==
  ASSUME ProcessesSound, Apart \/ OneAwaited
  PROVE  P!Spec => []WaitMeansExited
<1>1. P!Init => ThreadsInv /\ WaitsInv
  BY InitThreads, InitWaits
<1>2. (ThreadsInv /\ WaitsInv) /\ [P!Next]_(P!vars) => (ThreadsInv /\ WaitsInv)'
  <2>1. ASSUME ThreadsInv, WaitsInv, P!Next
        PROVE  ThreadsInv' /\ WaitsInv'
    BY <2>1, NextThreads, NextWaits
  <2>2. ASSUME ThreadsInv, WaitsInv, UNCHANGED P!vars
        PROVE  ThreadsInv' /\ WaitsInv'
    BY <2>2, SameThreads, SameWaits
  <2>. QED
    BY <2>1, <2>2
<1>3. WaitsInv => WaitMeansExited
  BY DEF WaitsInv
<1>. QED
  BY <1>1, <1>2, <1>3, PTL DEF P!Spec
=============================================================================
