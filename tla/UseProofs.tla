------------------------------ MODULE UseProofs ------------------------------
(***************************************************************************)
(* Theorems about what programs and users meet: the loader, for any        *)
(* images, processes, starts and number of pages; the keyboard's ring and  *)
(* the line editor's history, for any keys at any time, any length of the  *)
(* ring and of the history, and whatever is printed meanwhile; interrupts  *)
(* during the boot, for any order of the devices' first ones; the desktop, *)
(* for any screen, windows and packets of the mouse.                       *)
(***************************************************************************)
EXTENDS Use, Integers, SequenceTheorems, WellFoundedInduction, TLAPS

(***************************************************************************)
(* The loader.  What its theorem assumes of the images: they are linked so *)
(* that whatever meets in one process has addresses of its own (the build  *)
(* script asks for that), a program imports at most from the DLL that its  *)
(* start loads, and DLLs import nothing.                                   *)
(***************************************************************************)
Extent(f) == Images[f].base .. (Images[f].base + Images[f].size - 1)

Stack(f) == (Images[f].base + StackOff) .. (Images[f].base + StackOff + CSTK - 1)

Heap == HeapBase .. (HeapMax - 1)

ImagesSound ==
  /\ \A f \in DOMAIN Images : Images[f].base \in Nat /\ Images[f].size \in Nat \ {0}
  /\ \A d \in DOMAIN Dlls : Images[d].needs = {}
  /\ "none" \notin DOMAIN Dlls

StartsSound ==
  \A s \in Starts :
    /\ s[2] \in DOMAIN Programs
    /\ s[1] # "bg"
    /\ Ways[s[1]].dll \in DOMAIN Dlls
    /\ Images[s[2]].needs \subseteq {Ways[s[1]].dll}

LayoutSound ==
  /\ \A d, e \in DOMAIN Dlls : d # e => Extent(d) \cap Extent(e) = {}
  /\ \A d \in DOMAIN Dlls : Extent(d) \cap Heap = {}
  /\ \A s \in Starts :
       /\ Extent(s[2]) \cap (Stack(s[2]) \cup Heap) = {}
       /\ \A d \in DOMAIN Dlls : Extent(d) \cap (Extent(s[2]) \cup Stack(s[2])) = {}

Linking == ImagesSound /\ StartsSound /\ LayoutSound

(***************************************************************************)
(* The inductive invariant.  The registry speaks for all processes, so     *)
(* that a program's imports can be resolved although its own start failed  *)
(* to map the DLL: but then no page was left, and none ever is again.      *)
(***************************************************************************)
Mapped(p, f) == Holds(p, f, Images[f].base)

Kinds ==
  /\ free \in Nat
  /\ space = [p \in Procs |-> space[p]]
  /\ linked = [p \in Procs |-> linked[p]]
  /\ pc = [p \in Procs |-> pc[p]]
  /\ start = [p \in Procs |-> start[p]]
  /\ heap \in [Procs -> Nat]

Started(p) ==
  \E s \in Starts : start[p].image = s[2] /\ start[p].way = s[1]

Sound(p) ==
  /\ HeapBase <= heap[p]
  /\ pc[p] # "none" => Started(p)
  /\ pc[p] \in {"none", "dll", "image"} => linked[p] = {}
  /\ pc[p] = "image" => free = 0 \/ Mapped(p, Ways[start[p].way].dll)
  /\ pc[p] \in {"stack", "runs"} =>
       /\ Mapped(p, start[p].image)
       /\ \A l \in linked[p] : \E d \in DOMAIN Dlls : l = <<d, Images[d].base>> /\ Mapped(p, d)

LoaderInv == Kinds /\ \A p \in Procs : Sound(p)

-----------------------------------------------------------------------------
(* What is mapped.                                                         *)

LEMMA PagesTaken ==
  ASSUME free \in Nat, NEW p, NEW a, NEW n \in Nat, NEW what, MapPages(p, a, n, what)
  PROVE  /\ free' \in Nat /\ Taken(n) \in 0 .. n
         /\ free = 0 => free' = 0
         /\ n <= free => Taken(n) = n
         /\ ~(n <= free) => free' = 0
BY DEF MapPages, Taken

LEMMA OtherSpaces ==
  ASSUME Kinds, NEW p \in Procs, NEW a, NEW n, NEW what, MapPages(p, a, n, what)
  PROVE  /\ space' = [q \in Procs |-> space'[q]]
         /\ \A q \in Procs : q # p => space'[q] = space[q]
BY Zenon DEF Kinds, MapPages

Got(a, n) == a .. (a + Taken(n) - 1)

LEMMA OwnSpace ==
  ASSUME Kinds, NEW p \in Procs, NEW a, NEW n, NEW what, MapPages(p, a, n, what)
  PROVE  /\ DOMAIN (space'[p]) = Got(a, n) \cup DOMAIN (space[p])
         /\ \A x \in Got(a, n) : space'[p][x] = what
         /\ \A x \in DOMAIN (space[p]) : x \notin Got(a, n) => space'[p][x] = space[p][x]
<1>1. PICK s : s = [x \in Got(a, n) \cup DOMAIN (space[p]) |->
                      IF x \in Got(a, n) THEN what ELSE space[p][x]]
  OBVIOUS
<1>2. space' = [space EXCEPT ![p] = s]
  BY <1>1, Zenon DEF MapPages, Got
<1>3. space'[p] = s
  BY <1>2, Zenon DEF Kinds
<1>. QED
  BY <1>1, <1>3, Zenon

\* Mapping elsewhere, or the same again, leaves what is mapped.
LEMMA MappedStays ==
  ASSUME Kinds, NEW p \in Procs, NEW a \in Nat, NEW n \in Nat, NEW what, MapPages(p, a, n, what),
         NEW q \in Procs, NEW f, Mapped(q, f),
         q # p \/ what = f \/ Extent(f) \cap (a .. (a + n - 1)) = {}
  PROVE  Mapped(q, f)'
<1>1. CASE q # p
  BY <1>1, OtherSpaces DEF Mapped, Holds
<1>2. CASE q = p
  <2>1. Got(a, n) \subseteq a .. (a + n - 1)
    BY PagesTaken DEF Kinds, Got
  <2>2. /\ DOMAIN (space'[p]) = Got(a, n) \cup DOMAIN (space[p])
        /\ \A x \in Got(a, n) : space'[p][x] = what
        /\ \A x \in DOMAIN (space[p]) : x \notin Got(a, n) => space'[p][x] = space[p][x]
    BY OwnSpace
  <2>3. ASSUME NEW x \in Extent(f)
        PROVE  x \in DOMAIN (space'[p]) /\ space'[p][x] = f
    <3>1. x \in DOMAIN (space[p]) /\ space[p][x] = f
      BY <1>2 DEF Mapped, Holds, Extent
    <3>2. x \in Got(a, n) => what = f
      BY <1>2, <2>1
    <3>. QED
      BY <2>2, <3>1, <3>2, Zenon
  <2>. QED
    BY <1>2, <2>3, Zenon DEF Mapped, Holds, Extent
<1>. QED
  BY <1>1, <1>2

LEMMA MappedWhole ==
  ASSUME Kinds, NEW p \in Procs, NEW f, Images[f].size \in Nat, Images[f].size <= free,
         MapPages(p, Images[f].base, Images[f].size, f)
  PROVE  Mapped(p, f)'
<1>1. Taken(Images[f].size) = Images[f].size
  BY DEF Taken
<1>2. PICK a, n : a = Images[f].base /\ n = Images[f].size
  OBVIOUS
<1>3. Extent(f) = Got(a, n)
  BY <1>1, <1>2, Zenon DEF Extent, Got
<1>4. MapPages(p, a, n, f)
  BY <1>2, Zenon
<1>5. DOMAIN (space'[p]) = Got(a, n) \cup DOMAIN (space[p]) /\ \A x \in Got(a, n) : space'[p][x] = f
  BY <1>4, OwnSpace
<1>6. \A x \in Extent(f) : x \in DOMAIN (space'[p]) /\ space'[p][x] = f
  BY <1>3, <1>5, Zenon
<1>. QED
  BY <1>6, Zenon DEF Mapped, Holds, Extent

\* What a step of p leaves to the others.
LEMMA OthersSound ==
  ASSUME LoaderInv, NEW p \in Procs, NEW q \in Procs, q # p,
         pc'[q] = pc[q], start'[q] = start[q], linked'[q] = linked[q], heap'[q] = heap[q],
         space'[q] = space[q], free = 0 => free' = 0
  PROVE  Sound(q)'
BY DEF LoaderInv, Sound, Started, Mapped, Holds

\* A DLL brings no links, and is mapped whole unless it takes the last page.
LEMMA DllLoaded ==
  ASSUME Linking, Kinds, NEW p \in Procs, NEW d \in DOMAIN Dlls, LoadPe(p, d, Images[d].base)
  PROVE  /\ linked' = linked
         /\ free' \in Nat /\ (free = 0 => free' = 0)
         /\ space' = [q \in Procs |-> space'[q]]
         /\ \A q \in Procs : q # p => space'[q] = space[q]
         /\ free' = 0 \/ Mapped(p, d)'
         /\ \A g : Mapped(p, g) /\ (g = d \/ Extent(g) \cap Extent(d) = {}) => Mapped(p, g)'
<1>1. PICK a, n : a = Images[d].base /\ n = Images[d].size
  OBVIOUS
<1>2. MapPages(p, a, n, d)
  BY <1>1, Zenon DEF LoadPe
<1>3. a \in Nat /\ n \in Nat /\ Images[d].needs = {}
  <2>1. d \in DOMAIN Images
    BY DEF Images
  <2>. QED
    BY <1>1, <2>1 DEF Linking, ImagesSound
<1>4. linked' = linked
  <2>1. {<<m, Images[m].base>> : m \in Images[d].needs} = {}
    BY <1>3
  <2>2. linked[p] \cup {<<m, Images[m].base>> : m \in Images[d].needs} = linked[p]
    BY <2>1, Zenon
  <2>. QED
    BY <2>2, Zenon DEF LoadPe, Kinds
<1>5. free' \in Nat /\ (free = 0 => free' = 0) /\ (~(n <= free) => free' = 0)
  BY <1>2, <1>3, PagesTaken DEF Kinds
<1>6. /\ space' = [q \in Procs |-> space'[q]]
      /\ \A q \in Procs : q # p => space'[q] = space[q]
  BY <1>2, OtherSpaces
<1>7. free' = 0 \/ Mapped(p, d)'
  <2>1. CASE n <= free
    BY <1>1, <1>2, <1>3, <2>1, MappedWhole
  <2>2. CASE ~(n <= free)
    BY <1>5, <2>2
  <2>. QED
    BY <2>1, <2>2
<1>8. ASSUME NEW g, Mapped(p, g), g = d \/ Extent(g) \cap Extent(d) = {}
      PROVE  Mapped(p, g)'
  <2>1. Extent(d) = a .. (a + n - 1)
    BY <1>1, Zenon DEF Extent
  <2>2. d = g \/ Extent(g) \cap (a .. (a + n - 1)) = {}
    BY <1>8, <2>1, Zenon
  <2>. QED
    BY <1>2, <1>3, <1>8, <2>2, MappedStays
<1>. QED
  BY <1>4, <1>5, <1>6, <1>7, <1>8

\* The start of a process loads its DLL; if there are too few pages, it takes the last.
LEMMA LoadDllKeeps ==
  ASSUME Linking, LoaderInv, NEW p \in Procs, LoadDll(p)
  PROVE  LoaderInv'
<1>1. Kinds /\ Sound(p) /\ pc[p] = "dll"
  BY DEF LoaderInv, LoadDll
<1>2. PICK s \in Starts : start[p].image = s[2] /\ start[p].way = s[1]
  BY <1>1 DEF Sound, Started
<1>3. PICK d \in DOMAIN Dlls : d = Ways[start[p].way].dll
  BY <1>2 DEF Linking, StartsSound
<1>4. /\ LoadPe(p, d, Images[d].base)
      /\ pc' = [pc EXCEPT ![p] = "image"]
      /\ UNCHANGED <<start, heap>>
  BY <1>3, Zenon DEF LoadDll, LoadAndRegister
<1>5. /\ linked' = linked
      /\ free' \in Nat /\ (free = 0 => free' = 0)
      /\ space' = [q \in Procs |-> space'[q]]
      /\ \A q \in Procs : q # p => space'[q] = space[q]
      /\ free' = 0 \/ Mapped(p, d)'
  BY <1>1, <1>4, DllLoaded
<1>6. Kinds'
  BY <1>1, <1>4, <1>5 DEF Kinds
<1>7. ASSUME NEW q \in Procs, q # p
      PROVE  Sound(q)'
  <2>1. pc'[q] = pc[q] /\ start'[q] = start[q] /\ linked'[q] = linked[q] /\ heap'[q] = heap[q]
    BY <1>1, <1>4, <1>5, <1>7, Zenon DEF Kinds
  <2>. QED
    BY <1>5, <1>7, <2>1, OthersSound
<1>8. Sound(p)'
  <2>1. pc'[p] = "image" /\ start'[p] = start[p] /\ linked'[p] = {} /\ heap'[p] = heap[p]
    BY <1>1, <1>4, <1>5 DEF Kinds, Sound
  <2>2. Ways[start'[p].way].dll = d
    BY <1>3, <2>1
  <2>. QED
    BY <1>1, <1>5, <2>1, <2>2 DEF Sound, Started
<1>. QED
  BY <1>6, <1>7, <1>8 DEF LoaderInv

\* An image whose pages were not all taken ends its start; one that is whole found at
\* least one page free, so that its DLL was mapped whole before.
LEMMA LoadImageKeeps ==
  ASSUME Linking, LoaderInv, NEW p \in Procs, LoadImage(p)
  PROVE  LoaderInv'
<1>1. Kinds /\ Sound(p) /\ pc[p] = "image" /\ linked[p] = {}
  BY DEF LoaderInv, LoadImage, Sound
<1>2. PICK s \in Starts : start[p].image = s[2] /\ start[p].way = s[1]
  BY <1>1 DEF Sound, Started
<1>3. PICK f, d : f = start[p].image /\ d = Ways[start[p].way].dll
  OBVIOUS
<1>4. /\ f \in DOMAIN Programs /\ d \in DOMAIN Dlls /\ Images[f].needs \subseteq {d}
      /\ start[p].way # "bg" /\ Extent(d) \cap Extent(f) = {}
  BY <1>2, <1>3 DEF Linking, StartsSound, LayoutSound
<1>5. /\ LoadPe(p, f, Images[f].base)
      /\ pc' = [pc EXCEPT ![p] = IF LoadsWhole(f) THEN "stack" ELSE "stuck"]
      /\ UNCHANGED <<start, heap>>
  BY <1>3, <1>4, Zenon DEF LoadImage, LoadBase
<1>6. PICK a, n : a = Images[f].base /\ n = Images[f].size
  OBVIOUS
<1>7. MapPages(p, a, n, f)
  BY <1>5, <1>6, Zenon DEF LoadPe
<1>8. a \in Nat /\ n \in Nat \ {0}
  <2>1. f \in DOMAIN Images
    BY <1>4 DEF Images
  <2>. QED
    BY <1>6, <2>1 DEF Linking, ImagesSound
<1>9. PICK links : links = {<<m, Images[m].base>> : m \in Images[f].needs}
  OBVIOUS
<1>10. linked' = IF LoadsWhole(f) THEN [linked EXCEPT ![p] = linked[p] \cup links] ELSE linked
  BY <1>5, <1>9, Zenon DEF LoadPe
<1>11. /\ linked' = [q \in Procs |-> linked'[q]]
       /\ \A q \in Procs : q # p => linked'[q] = linked[q]
       /\ LoadsWhole(f) => linked'[p] = links
       /\ ~LoadsWhole(f) => linked'[p] = {}
  <2>1. linked[p] \cup links = links
    BY <1>1, Zenon
  <2>. QED
    BY <1>1, <1>10, <2>1, Zenon DEF Kinds
<1>12. free' \in Nat /\ (free = 0 => free' = 0)
  BY <1>1, <1>7, <1>8, PagesTaken DEF Kinds
<1>13. /\ space' = [q \in Procs |-> space'[q]]
       /\ \A q \in Procs : q # p => space'[q] = space[q]
  BY <1>1, <1>7, OtherSpaces
<1>14. Kinds'
  BY <1>1, <1>5, <1>11, <1>12, <1>13 DEF Kinds
<1>15. ASSUME NEW q \in Procs, q # p
       PROVE  Sound(q)'
  <2>1. pc'[q] = pc[q] /\ start'[q] = start[q] /\ linked'[q] = linked[q] /\ heap'[q] = heap[q]
    BY <1>1, <1>5, <1>11, <1>15, Zenon DEF Kinds
  <2>. QED
    BY <1>12, <1>13, <1>15, <2>1, OthersSound
<1>16. start'[p] = start[p] /\ heap'[p] = heap[p]
  BY <1>5, Zenon
<1>17. ASSUME LoadsWhole(f)
       PROVE  Sound(p)'
  <2>1. pc'[p] = "stack" /\ linked'[p] = links
    BY <1>1, <1>5, <1>11, <1>17, Zenon DEF Kinds
  <2>2. n <= free
    BY <1>6, <1>17 DEF LoadsWhole
  <2>3. Mapped(p, f)'
    BY <1>1, <1>6, <1>7, <1>8, <2>2, MappedWhole
  <2>4. free # 0
    BY <1>1, <1>8, <2>2 DEF Kinds
  <2>5. Mapped(p, d)
    BY <1>1, <1>3, <2>4 DEF Sound
  <2>6. Mapped(p, d)'
    <3>1. Extent(d) \cap (a .. (a + n - 1)) = {}
      BY <1>4, <1>6, Zenon DEF Extent
    <3>. QED
      BY <1>1, <1>7, <1>8, <2>5, <3>1, MappedStays
  <2>7. \A l \in links : l = <<d, Images[d].base>>
    BY <1>4, <1>9
  <2>. QED
    <3>1. Started(p)' /\ (HeapBase <= heap[p])'
      BY <1>1, <1>2, <1>16, Zenon DEF Sound, Started
    <3>2. Mapped(p, start[p].image)'
      BY <1>3, <1>16, <2>3, Zenon
    <3>3. \A l \in linked'[p] : \E e \in DOMAIN Dlls : l = <<e, Images[e].base>> /\ Mapped(p, e)'
      BY <1>4, <2>1, <2>6, <2>7, Zenon
    <3>. QED
      BY <2>1, <3>1, <3>2, <3>3 DEF Sound, Started
<1>18. ASSUME ~LoadsWhole(f)
       PROVE  Sound(p)'
  <2>1. pc'[p] = "stuck"
    BY <1>1, <1>5, <1>18, Zenon DEF Kinds
  <2>. QED
    <3>1. Started(p)' /\ (HeapBase <= heap[p])'
      BY <1>1, <1>2, <1>16, Zenon DEF Sound, Started
    <3>. QED
      BY <2>1, <3>1 DEF Sound, Started
<1>. QED
  BY <1>14, <1>15, <1>17, <1>18 DEF LoaderInv

\* The stack lies next to the program, over nothing that it needs.
LEMMA MakeStackKeeps ==
  ASSUME Linking, LoaderInv, NEW p \in Procs, MakeStack(p)
  PROVE  LoaderInv'
<1>1. Kinds /\ Sound(p) /\ pc[p] = "stack"
  BY DEF LoaderInv, MakeStack
<1>2. PICK s \in Starts : start[p].image = s[2] /\ start[p].way = s[1]
  BY <1>1 DEF Sound, Started
<1>3. PICK f : f = start[p].image
  OBVIOUS
<1>4. /\ f \in DOMAIN Programs /\ start[p].way # "bg"
      /\ Extent(f) \cap Stack(f) = {}
      /\ \A d \in DOMAIN Dlls : Extent(d) \cap Stack(f) = {}
  BY <1>2, <1>3 DEF Linking, StartsSound, LayoutSound
<1>5. PICK a : a = Images[f].base + StackOff
  OBVIOUS
<1>6. /\ MapPages(p, a, CSTK, "stack")
      /\ \E l \in {"stuck", "runs"} : pc' = [pc EXCEPT ![p] = l]
      /\ UNCHANGED <<linked, start, heap>>
  BY <1>3, <1>4, <1>5, Zenon DEF MakeStack, LoadBase
<1>7. a \in Nat /\ CSTK \in Nat
  <2>1. f \in DOMAIN Images
    BY <1>4 DEF Images
  <2>. QED
    BY <1>5, <2>1, LoaderAssumption DEF Linking, ImagesSound, CSTK
<1>8. Stack(f) = a .. (a + CSTK - 1)
  BY <1>5, Zenon DEF Stack
<1>9. PICK n, w : n = CSTK /\ w = "stack"
  OBVIOUS
<1>10. MapPages(p, a, n, w) /\ n \in Nat
  BY <1>6, <1>7, <1>9, Zenon
<1>11. free' \in Nat /\ (free = 0 => free' = 0)
  BY <1>1, <1>10, PagesTaken DEF Kinds
<1>12. /\ space' = [q \in Procs |-> space'[q]]
       /\ \A q \in Procs : q # p => space'[q] = space[q]
  BY <1>1, <1>10, OtherSpaces
<1>13. Kinds'
  BY <1>1, <1>6, <1>11, <1>12 DEF Kinds
<1>14. ASSUME NEW q \in Procs, q # p
       PROVE  Sound(q)'
  <2>1. pc'[q] = pc[q] /\ start'[q] = start[q] /\ linked'[q] = linked[q] /\ heap'[q] = heap[q]
    BY <1>1, <1>6, <1>14, Zenon DEF Kinds
  <2>. QED
    BY <1>11, <1>12, <1>14, <2>1, OthersSound
<1>15. Sound(p)'
  <2>1. pc'[p] \in {"stuck", "runs"} /\ start' = start /\ linked' = linked /\ heap' = heap
    BY <1>1, <1>6, Zenon DEF Kinds
  <2>2. ASSUME NEW g, Mapped(p, g), Extent(g) \cap Stack(f) = {}
        PROVE  Mapped(p, g)'
    <3>1. Extent(g) \cap (a .. (a + n - 1)) = {}
      BY <1>8, <1>9, <2>2, Zenon
    <3>. QED
      BY <1>1, <1>7, <1>10, <2>2, <3>1, MappedStays
  <2>3. Started(p)' /\ (HeapBase <= heap[p])'
    BY <1>1, <1>2, <2>1, Zenon DEF Sound, Started
  <2>4. Mapped(p, f)'
    BY <1>1, <1>3, <1>4, <2>2 DEF Sound
  <2>5. \A l \in linked[p] : \E d \in DOMAIN Dlls : l = <<d, Images[d].base>> /\ Mapped(p, d)'
    <3>1. \A l \in linked[p] : \E d \in DOMAIN Dlls : l = <<d, Images[d].base>> /\ Mapped(p, d)
      BY <1>1 DEF Sound
    <3>. QED
      BY <1>4, <2>2, <3>1, Zenon
  <2>6. Mapped(p, start[p].image)'
    BY <1>3, <2>1, <2>4, Zenon
  <2>7. \A l \in linked'[p] : \E d \in DOMAIN Dlls : l = <<d, Images[d].base>> /\ Mapped(p, d)'
    BY <2>1, <2>5, Zenon
  <2>. QED
    BY <2>1, <2>3, <2>6, <2>7 DEF Sound
<1>. QED
  BY <1>13, <1>14, <1>15 DEF LoaderInv

\* So does NT_ALLOC_VM, up to the end of the region that is for it.
LEMMA AllocVmKeeps ==
  ASSUME Linking, LoaderInv, NEW p \in Procs, AllocVm(p)
  PROVE  LoaderInv'
<1>1. Kinds /\ Sound(p) /\ pc[p] = "runs"
  BY DEF LoaderInv, AllocVm
<1>2. PICK s \in Starts : start[p].image = s[2] /\ start[p].way = s[1]
  BY <1>1 DEF Sound, Started
<1>3. Extent(start[p].image) \cap Heap = {} /\ \A d \in DOMAIN Dlls : Extent(d) \cap Heap = {}
  BY <1>2 DEF Linking, LayoutSound
<1>4. PICK a \in Nat : a = heap[p] /\ HeapBase <= a /\ a < HeapMax
  BY <1>1 DEF Kinds, Sound, AllocVm
<1>5. PICK n \in Nat : n = 1
  OBVIOUS
<1>6. PICK w : w = "heap"
  OBVIOUS
<1>7. /\ MapPages(p, a, n, w)
      /\ heap' = [heap EXCEPT ![p] = heap[p] + 1]
      /\ UNCHANGED <<linked, pc, start>>
  BY <1>4, <1>5, <1>6, Zenon DEF AllocVm
<1>8. free' \in Nat /\ (free = 0 => free' = 0)
  BY <1>1, <1>7, PagesTaken DEF Kinds
<1>9. /\ space' = [q \in Procs |-> space'[q]]
      /\ \A q \in Procs : q # p => space'[q] = space[q]
  BY <1>1, <1>7, OtherSpaces
<1>10. /\ heap' \in [Procs -> Nat] /\ heap'[p] = a + 1
       /\ \A q \in Procs : q # p => heap'[q] = heap[q]
  BY <1>1, <1>4, <1>7 DEF Kinds
<1>11. Kinds'
  BY <1>1, <1>7, <1>8, <1>9, <1>10 DEF Kinds
<1>12. ASSUME NEW q \in Procs, q # p
       PROVE  Sound(q)'
  <2>1. pc'[q] = pc[q] /\ start'[q] = start[q] /\ linked'[q] = linked[q] /\ heap'[q] = heap[q]
    BY <1>7, <1>10, <1>12, Zenon
  <2>. QED
    BY <1>8, <1>9, <1>12, <2>1, OthersSound
<1>13. Sound(p)'
  <2>1. a .. (a + n - 1) \subseteq Heap
    BY <1>4, <1>5, LoaderAssumption DEF Heap
  <2>2. ASSUME NEW g, Mapped(p, g), Extent(g) \cap Heap = {}
        PROVE  Mapped(p, g)'
    <3>1. Extent(g) \cap (a .. (a + n - 1)) = {}
      BY <2>1, <2>2, Zenon
    <3>. QED
      BY <1>1, <1>7, <2>2, <3>1, MappedStays
  <2>3. Started(p)'
    BY <1>2, <1>7, Zenon DEF Started
  <2>4. (HeapBase <= heap[p])'
    BY <1>4, <1>10, LoaderAssumption
  <2>5. Mapped(p, start[p].image)'
    <3>1. PICK f : f = start[p].image
      OBVIOUS
    <3>2. Mapped(p, f)'
      BY <1>1, <1>3, <2>2, <3>1 DEF Sound
    <3>. QED
      BY <1>7, <3>1, <3>2, Zenon
  <2>6. \A l \in linked'[p] : \E d \in DOMAIN Dlls : l = <<d, Images[d].base>> /\ Mapped(p, d)'
    <3>1. \A l \in linked[p] : \E d \in DOMAIN Dlls : l = <<d, Images[d].base>> /\ Mapped(p, d)
      BY <1>1 DEF Sound
    <3>. QED
      BY <1>3, <1>7, <2>2, <3>1, Zenon
  <2>7. pc'[p] = "runs"
    BY <1>1, <1>7
  <2>. QED
    BY <2>3, <2>4, <2>5, <2>6, <2>7 DEF Sound
<1>. QED
  BY <1>11, <1>12, <1>13 DEF LoaderInv

\* LoadLibrary may map a DLL again, where it is.
LEMMA LoadLibraryKeeps ==
  ASSUME Linking, LoaderInv, NEW p \in Procs, NEW d \in DOMAIN Dlls, LoadLibrary(p, d)
  PROVE  LoaderInv'
<1>1. Kinds /\ Sound(p) /\ pc[p] = "runs" /\ UNCHANGED <<pc, start, heap>>
  BY DEF LoaderInv, LoadLibrary
<1>2. CASE UNCHANGED <<space, linked, free>>
  <2>1. Kinds'
    BY <1>1, <1>2 DEF Kinds
  <2>2. ASSUME NEW q \in Procs
        PROVE  Sound(q)'
    <3>1. Sound(q)
      BY DEF LoaderInv
    <3>. QED
      BY <1>1, <1>2, <3>1 DEF Sound, Started, Mapped, Holds
  <2>. QED
    BY <2>1, <2>2 DEF LoaderInv
<1>3. CASE LoadPe(p, d, Images[d].base)
  <2>1. PICK s \in Starts : start[p].image = s[2] /\ start[p].way = s[1]
    BY <1>1 DEF Sound, Started
  <2>2. /\ Extent(start[p].image) \cap Extent(d) = {}
        /\ \A e \in DOMAIN Dlls : e = d \/ Extent(e) \cap Extent(d) = {}
    BY <2>1, Zenon DEF Linking, LayoutSound
  <2>3. /\ linked' = linked
        /\ free' \in Nat /\ (free = 0 => free' = 0)
        /\ space' = [q \in Procs |-> space'[q]]
        /\ \A q \in Procs : q # p => space'[q] = space[q]
        /\ \A g : Mapped(p, g) /\ (g = d \/ Extent(g) \cap Extent(d) = {}) => Mapped(p, g)'
    BY <1>1, <1>3, DllLoaded
  <2>4. Kinds'
    BY <1>1, <2>3 DEF Kinds
  <2>5. ASSUME NEW q \in Procs, q # p
        PROVE  Sound(q)'
    <3>1. pc'[q] = pc[q] /\ start'[q] = start[q] /\ linked'[q] = linked[q] /\ heap'[q] = heap[q]
      BY <1>1, <2>3, Zenon
    <3>. QED
      BY <2>3, <2>5, <3>1, OthersSound
  <2>6. Sound(p)'
    <3>1. Started(p)' /\ (HeapBase <= heap[p])' /\ pc'[p] = "runs"
      BY <1>1, <2>1, Zenon DEF Sound, Started
    <3>2. Mapped(p, start[p].image)'
      <4>1. PICK f : f = start[p].image
        OBVIOUS
      <4>2. Mapped(p, f)'
        BY <1>1, <2>2, <2>3, <4>1 DEF Sound
      <4>. QED
        BY <1>1, <4>1, <4>2, Zenon
    <3>3. \A l \in linked'[p] : \E e \in DOMAIN Dlls : l = <<e, Images[e].base>> /\ Mapped(p, e)'
      <4>1. \A l \in linked[p] : \E e \in DOMAIN Dlls : l = <<e, Images[e].base>> /\ Mapped(p, e)
        BY <1>1 DEF Sound
      <4>. QED
        BY <2>2, <2>3, <4>1, Zenon
    <3>. QED
      BY <3>1, <3>2, <3>3 DEF Sound
  <2>. QED
    BY <2>4, <2>5, <2>6 DEF LoaderInv
<1>. QED
  BY <1>2, <1>3, Zenon DEF LoadLibrary, LoadAndRegister

LEMMA BeginKeeps ==
  ASSUME Linking, LoaderInv, NEW p \in Procs, NEW s \in Starts, Begin(p, s[2], s[1])
  PROVE  LoaderInv'
<1>1. /\ Kinds /\ Sound(p) /\ pc[p] = "none"
      /\ UNCHANGED <<space, linked, heap, free>>
  BY DEF LoaderInv, Begin
<1>2. Ways[s[1]].dll # "none"
  BY DEF Linking, StartsSound, ImagesSound
<1>3. pc' = [pc EXCEPT ![p] = "dll"] /\ start' = [start EXCEPT ![p] = [image |-> s[2], way |-> s[1]]]
  BY <1>2, Zenon DEF Begin
<1>4. Kinds'
  BY <1>1, <1>3 DEF Kinds
<1>5. ASSUME NEW q \in Procs, q # p
      PROVE  Sound(q)'
  <2>1. pc'[q] = pc[q] /\ start'[q] = start[q] /\ linked'[q] = linked[q] /\ heap'[q] = heap[q]
    BY <1>1, <1>3, <1>5, Zenon DEF Kinds
  <2>. QED
    BY <1>1, <1>5, <2>1, OthersSound
<1>6. Sound(p)'
  <2>1. pc'[p] = "dll" /\ start'[p] = [image |-> s[2], way |-> s[1]]
    BY <1>1, <1>3, Zenon DEF Kinds
  <2>2. Started(p)'
    BY <2>1 DEF Started
  <2>. QED
    BY <1>1, <2>1, <2>2 DEF Sound, Started
<1>. QED
  BY <1>4, <1>5, <1>6 DEF LoaderInv

LEMMA InitLoader ==
  ASSUME Linking, Init
  PROVE  LoaderInv
<1>1. Kinds
  BY LoaderAssumption DEF Init, Kinds
<1>2. \A p \in Procs : Sound(p)
  BY LoaderAssumption DEF Init, Sound
<1>. QED
  BY <1>1, <1>2 DEF LoaderInv

LEMMA NextLoader ==
  ASSUME Linking, LoaderInv, [Next]_vars
  PROVE  LoaderInv'
<1>1. CASE UNCHANGED vars
  BY <1>1 DEF vars, LoaderInv, Kinds, Sound, Started, Mapped, Holds
<1>2. ASSUME NEW p \in Procs, NEW s \in Starts, Begin(p, s[2], s[1])
      PROVE  LoaderInv'
  BY <1>2, BeginKeeps
<1>3. ASSUME NEW p \in Procs, LoadDll(p) \/ LoadImage(p) \/ MakeStack(p) \/ AllocVm(p)
      PROVE  LoaderInv'
  BY <1>3, LoadDllKeeps, LoadImageKeeps, MakeStackKeeps, AllocVmKeeps
<1>4. ASSUME NEW p \in Procs, NEW d \in DOMAIN Dlls, LoadLibrary(p, d)
      PROVE  LoaderInv'
  BY <1>4, LoadLibraryKeeps
<1>. QED
  BY <1>1, <1>2, <1>3, <1>4 DEF Next

\* LoadPe, the registry and the starts of processes: whatever was loaded before, in
\* whatever order, and wherever memory ended, a program that runs has its image and every
\* module that its imports were resolved against mapped whole in its own address space.
THEOREM ProgramsWhole ==
  ASSUME Linking
  PROVE  Spec => []RunsWhole
<1>1. Init => LoaderInv
  BY InitLoader
<1>2. LoaderInv /\ [Next]_vars => LoaderInv'
  BY NextLoader
<1>3. LoaderInv => RunsWhole
  <2>. SUFFICES ASSUME LoaderInv, NEW p \in Procs, pc[p] = "runs"
                PROVE  /\ Holds(p, start[p].image, LoadBase(start[p].image, start[p].way))
                       /\ \A l \in linked[p] : Holds(p, l[1], l[2])
    BY DEF RunsWhole
  <2>1. Sound(p) /\ Started(p)
    BY DEF LoaderInv, Sound
  <2>2. start[p].way # "bg"
    BY <2>1 DEF Started, Linking, StartsSound
  <2>3. Mapped(p, start[p].image)
    BY <2>1 DEF Sound
  <2>4. ASSUME NEW l \in linked[p]
        PROVE  Holds(p, l[1], l[2])
    <3>1. PICK d \in DOMAIN Dlls : l = <<d, Images[d].base>> /\ Mapped(p, d)
      BY <2>1 DEF Sound
    <3>. QED
      BY <3>1 DEF Mapped
  <2>. QED
    BY <2>2, <2>3, <2>4, Zenon DEF Mapped, LoadBase
<1>. QED
  BY <1>1, <1>2, <1>3, PTL DEF Spec
-----------------------------------------------------------------------------
(***************************************************************************)
(* The console.  One thread reads lines at a time: two would take the same *)
(* key and then both move the head.                                        *)
(***************************************************************************)
OneReader ==
  /\ RING \in Nat \ {0}
  /\ HIST_N \in Nat \ {0}
  /\ \A r, u \in Reader : r = u

IsList(q) == \E S : q \in Seq(S)

-----------------------------------------------------------------------------
(* Sequences, and positions in a ring of n slots.                          *)

LEMMA AppendToList ==
  ASSUME NEW q, NEW x, IsList(q)
  PROVE  /\ IsList(Append(q, x)) /\ Len(q) \in Nat /\ Len(Append(q, x)) = Len(q) + 1
         /\ \A i \in 1 .. Len(q) : Append(q, x)[i] = q[i]
         /\ Append(q, x)[Len(q) + 1] = x
         /\ Append(q, x) # <<>>
<1>1. PICK S : q \in Seq(S)
  BY DEF IsList
<1>2. q \in Seq(S \cup {x}) /\ x \in S \cup {x}
  BY <1>1
<1>3. /\ Append(q, x) \in Seq(S \cup {x}) /\ Len(q) \in Nat /\ Len(Append(q, x)) = Len(q) + 1
      /\ \A i \in 1 .. Len(q) : Append(q, x)[i] = q[i]
      /\ Append(q, x)[Len(q) + 1] = x
  BY <1>2
<1>. QED
  BY <1>3 DEF IsList

LEMMA TailOfList ==
  ASSUME NEW q, IsList(q), q # <<>>
  PROVE  /\ IsList(Tail(q)) /\ Len(q) \in Nat /\ Len(q) > 0 /\ Len(Tail(q)) = Len(q) - 1
         /\ \A i \in 1 .. Len(q) - 1 : Tail(q)[i] = q[i + 1]
         /\ Head(q) = q[1]
<1>1. PICK S : q \in Seq(S)
  BY DEF IsList
<1>2. /\ Tail(q) \in Seq(S) /\ Len(q) \in Nat /\ Len(q) > 0 /\ Len(Tail(q)) = Len(q) - 1
      /\ \A i \in 1 .. Len(q) - 1 : Tail(q)[i] = q[i + 1]
      /\ Head(q) = q[1]
  BY <1>1
<1>. QED
  BY <1>2 DEF IsList

LEMMA Wraps ==
  ASSUME NEW n \in Nat \ {0}, NEW x \in Nat, x < 2 * n
  PROVE  x % n = IF x < n THEN x ELSE x - n
<1>1. CASE x < n
  <2>1. x % n = x
    BY <1>1
  <2>. QED
    BY <1>1, <2>1
<1>2. CASE x >= n
  <2>1. x % n = x - n
    BY <1>2
  <2>. QED
    BY <1>2, <2>1
<1>. QED
  BY <1>1, <1>2

LEMMA FromTheEnd ==
  ASSUME NEW n \in Nat, NEW b \in 1 .. n
  PROVE  \E i \in 1 .. n : i = n + 1 - b
OBVIOUS

LEMMA NextSlot ==
  ASSUME NEW n \in Nat \ {0}, NEW i \in 0 .. n - 1
  PROVE  (i + 1) % n = IF i + 1 < n THEN i + 1 ELSE 0
<1>1. PICK x \in Nat : x = i + 1
  OBVIOUS
<1>2. CASE n = 1
  BY <1>2
<1>3. CASE n # 1
  <2>1. x < 2 * n
    BY <1>1, <1>3
  <2>2. x % n = IF x < n THEN x ELSE x - n
    BY <2>1, Wraps
  <2>. QED
    BY <1>1, <2>2
<1>. QED
  BY <1>2, <1>3

-----------------------------------------------------------------------------
(***************************************************************************)
(* The keyboard.  The inductive invariant: the keys that are due lie from  *)
(* the head on, which KeysOnce says with remainders, and the reader that   *)
(* has taken a character and not yet moved the head has the first of them. *)
(***************************************************************************)
RingOK ==
  /\ s_head \in 0 .. RING - 1
  /\ s_tail \in 0 .. RING - 1
  /\ s_ring = [i \in 0 .. RING - 1 |-> s_ring[i]]
  /\ IsList(due)

EditorOK ==
  /\ cPc = [r \in Reader |-> cPc[r]]
  /\ ch = [r \in Reader |-> ch[r]]

TakenIsDue == \A r \in Reader : cPc[r] = "advance" => due # <<>> /\ ch[r] = Head(due)

Slot(i) == IF s_head + i < RING THEN s_head + i ELSE s_head + i - RING

KeysFollow ==
  /\ Len(due) \in 0 .. RING - 1
  /\ s_tail = Slot(Len(due))
  /\ \A i \in 1 .. Len(due) : due[i] = s_ring[Slot(i - 1)]

KInv == RingOK /\ EditorOK /\ TakenIsDue /\ KeysFollow /\ ~lost

LEMMA InitKInv ==
  ASSUME OneReader, C!Init
  PROVE  KInv
<1>1. /\ s_head = 0 /\ s_tail = 0 /\ due = <<>> /\ lost = FALSE
      /\ s_ring = [i \in 0 .. RING - 1 |-> " "]
      /\ cPc = [r \in Reader |-> "shell"] /\ ch = [r \in Reader |-> " "]
  BY DEF C!Init
<1>2. RingOK
  <2>1. <<>> \in Seq({}) /\ 0 \in 0 .. RING - 1
    BY DEF OneReader
  <2>. QED
    BY <1>1, <2>1 DEF RingOK, IsList
<1>3. KeysFollow
  <2>1. due = <<>> /\ s_head = 0 /\ s_tail = 0
    BY <1>1
  <2>2. Len(due) = 0 /\ 0 \in 0 .. RING - 1
    BY <2>1 DEF OneReader
  <2>3. Slot(0) = 0
    BY <2>1, <2>2 DEF Slot, OneReader
  <2>. QED
    BY <2>1, <2>2, <2>3 DEF KeysFollow
<1>. QED
  BY <1>1, <1>2, <1>3 DEF KInv, EditorOK, TakenIsDue

(***************************************************************************)
(* KeysFollow is what KeysOnce says of the ring.                           *)
(***************************************************************************)
LEMMA SlotRemainder ==
  ASSUME OneReader, RingOK, NEW i \in 0 .. RING - 1
  PROVE  Slot(i) = (s_head + i) % RING /\ Slot(i) \in 0 .. RING - 1
<1>1. RING \in Nat \ {0} /\ s_head \in 0 .. RING - 1
  BY DEF OneReader, RingOK
<1>2. PICK n \in Nat \ {0} : n = RING
  BY <1>1
<1>3. PICK x \in Nat : x = s_head + i /\ x < 2 * n
  BY <1>1, <1>2
<1>4. x % n = IF x < n THEN x ELSE x - n
  BY <1>3, Wraps
<1>5. Slot(i) = IF x < n THEN x ELSE x - n
  BY <1>1, <1>2, <1>3 DEF Slot
<1>6. Slot(i) \in 0 .. RING - 1
  BY <1>1, <1>2, <1>3, <1>5
<1>7. (s_head + i) % RING = x % n
  BY <1>2, <1>3, Zenon
<1>. QED
  BY <1>4, <1>5, <1>6, <1>7, Zenon

LEMMA Distance ==
  ASSUME OneReader, RingOK, NEW n
  PROVE  n = (s_tail + RING - s_head) % RING <=> n \in 0 .. RING - 1 /\ s_tail = Slot(n)
<1>1. RING \in Nat \ {0} /\ s_head \in 0 .. RING - 1 /\ s_tail \in 0 .. RING - 1
  BY DEF OneReader, RingOK
<1>2. PICK m \in Nat \ {0} : m = RING
  BY <1>1
<1>3. PICK x \in Nat : x = s_tail + RING - s_head /\ x < 2 * m
  BY <1>1, <1>2
<1>4. x % m = IF x < m THEN x ELSE x - m
  BY <1>3, Wraps
<1>5. PICK d \in Int : d = x % m
  BY <1>3, <1>4
<1>6. n = d <=> n \in 0 .. RING - 1 /\ s_tail = Slot(n)
  <2>1. d = IF x < m THEN x ELSE x - m
    BY <1>4, <1>5, Zenon
  <2>2. d \in 0 .. RING - 1 /\ s_tail = Slot(d)
    BY <1>1, <1>2, <1>3, <2>1 DEF Slot
  <2>3. ASSUME n \in 0 .. RING - 1, s_tail = Slot(n)
        PROVE  n = d
    BY <1>1, <1>2, <1>3, <2>1, <2>3 DEF Slot
  <2>. QED
    BY <2>2, <2>3, Zenon
<1>7. (s_tail + RING - s_head) % RING = x % m
  BY <1>2, <1>3, Zenon
<1>. QED
  BY <1>5, <1>6, <1>7, Zenon

LEMMA KeysOnceFollow ==
  ASSUME OneReader, RingOK
  PROVE  C!KeysOnce <=> ~lost /\ KeysFollow
<1>1. Len(due) = (s_tail + RING - s_head) % RING
        <=> Len(due) \in 0 .. RING - 1 /\ s_tail = Slot(Len(due))
  <2>1. PICK n : n = Len(due)
    OBVIOUS
  <2>2. n = (s_tail + RING - s_head) % RING <=> n \in 0 .. RING - 1 /\ s_tail = Slot(n)
    BY Distance
  <2>. QED
    BY <2>1, <2>2, Zenon
<1>2. ASSUME Len(due) \in 0 .. RING - 1, NEW i \in 1 .. Len(due)
      PROVE  (s_head + i - 1) % RING = Slot(i - 1)
  <2>1. PICK j \in 0 .. RING - 1 : j = i - 1
    BY <1>2 DEF OneReader
  <2>2. s_head + i - 1 = s_head + j
    BY <2>1 DEF RingOK, OneReader
  <2>3. Slot(j) = (s_head + j) % RING
    BY SlotRemainder
  <2>. QED
    BY <2>1, <2>2, <2>3, Zenon
<1>. QED
  BY <1>1, <1>2, Zenon DEF C!KeysOnce, KeysFollow


LEMMA SlotsApart ==
  ASSUME NEW r \in Nat \ {0}, NEW h \in 0 .. r - 1, NEW k \in Nat, NEW n \in 0 .. r - 1, k < n,
         NEW sk, sk = IF h + k < r THEN h + k ELSE h + k - r,
         NEW sn, sn = IF h + n < r THEN h + n ELSE h + n - r
  PROVE  sk \in 0 .. r - 1 /\ sk # sn
OBVIOUS

\* A key is accepted at the tail, if that leaves the tail apart from the head.
LEMMA PushKeeps ==
  ASSUME OneReader, KInv, NEW x, C!Push(x), UNCHANGED <<s_head, lost, cPc, ch>>
  PROVE  KInv'
<1>1. RingOK /\ KeysFollow /\ ~lost /\ EditorOK /\ TakenIsDue
  BY DEF KInv
<1>2. CASE UNCHANGED <<s_ring, s_tail, due>>
  BY <1>1, <1>2 DEF KInv, RingOK, EditorOK, TakenIsDue, KeysFollow, Slot
<1>3. CASE ~UNCHANGED <<s_ring, s_tail, due>>
  <2>1. /\ RING \in Nat \ {0} /\ s_head \in 0 .. RING - 1 /\ s_tail \in 0 .. RING - 1
        /\ s_ring = [i \in 0 .. RING - 1 |-> s_ring[i]] /\ IsList(due)
    BY <1>1 DEF RingOK, OneReader
  <2>2. /\ s_ring' = [s_ring EXCEPT ![s_tail] = x]
        /\ s_tail' = (s_tail + 1) % RING /\ s_tail' # s_head
        /\ due' = Append(due, x)
    BY <1>3 DEF C!Push
  <2>3. s_tail' = IF s_tail + 1 < RING THEN s_tail + 1 ELSE 0
    BY <2>1, <2>2, NextSlot
  <2>4. /\ IsList(due') /\ Len(due) \in Nat /\ Len(due') = Len(due) + 1
        /\ \A i \in 1 .. Len(due) : due'[i] = due[i]
        /\ due'[Len(due) + 1] = x /\ due' # <<>>
    BY <2>1, <2>2, AppendToList
  <2>5. /\ s_ring' = [i \in 0 .. RING - 1 |-> s_ring'[i]]
        /\ s_ring'[s_tail] = x
        /\ \A i \in 0 .. RING - 1 : i # s_tail => s_ring'[i] = s_ring[i]
    BY <2>1, <2>2, Zenon
  <2>6. RingOK'
    BY <2>1, <2>2, <2>3, <2>4, <2>5 DEF RingOK
  <2>7. PICK n \in 0 .. RING - 1 : n = Len(due) /\ s_tail = Slot(n)
    BY <1>1 DEF KeysFollow
  <2>8. n + 1 \in 0 .. RING - 1 /\ s_tail' = Slot(n + 1)
    <3>1. s_tail = IF s_head + n < RING THEN s_head + n ELSE s_head + n - RING
      BY <2>7 DEF Slot
    <3>2. n + 1 < RING
      BY <2>1, <2>2, <2>3, <3>1
    <3>3. PICK m \in Nat : m = n + 1
      OBVIOUS
    <3>. QED
      BY <2>1, <2>3, <3>1, <3>2, <3>3 DEF Slot
  <2>9. ASSUME NEW i \in 1 .. n + 1
        PROVE  due'[i] = s_ring'[Slot(i - 1)]
    <3>1. CASE i = n + 1
      <4>1. Slot(i - 1) = s_tail
        BY <2>7, <3>1
      <4>2. due'[i] = x
        BY <2>4, <2>7, <3>1
      <4>. QED
        BY <2>5, <4>1, <4>2, Zenon
    <3>2. CASE i # n + 1
      <4>1. i \in 1 .. Len(due) /\ due[i] = s_ring[Slot(i - 1)]
        BY <1>1, <2>7, <3>2 DEF KeysFollow
      <4>2. Slot(i - 1) \in 0 .. RING - 1 /\ Slot(i - 1) # s_tail
        <5>1. PICK k \in Nat : k = i - 1 /\ k < n
          BY <2>7, <2>9, <3>2
        <5>2. /\ Slot(k) = IF s_head + k < RING THEN s_head + k ELSE s_head + k - RING
              /\ s_tail = IF s_head + n < RING THEN s_head + n ELSE s_head + n - RING
          BY <2>7 DEF Slot
        <5>3. RING \in Nat \ {0} /\ s_head \in 0 .. RING - 1
          BY <2>1
        <5>4. Slot(k) \in 0 .. RING - 1 /\ Slot(k) # s_tail
          BY <5>1, <5>2, <5>3, SlotsApart
        <5>. QED
          BY <5>1, <5>4, Zenon
      <4>3. due'[i] = due[i] /\ s_ring'[Slot(i - 1)] = s_ring[Slot(i - 1)]
        BY <2>4, <2>5, <4>1, <4>2, Zenon
      <4>. QED
        BY <4>1, <4>3, Zenon
    <3>. QED
      BY <3>1, <3>2
  <2>10. KeysFollow'
    BY <2>4, <2>7, <2>8, <2>9 DEF KeysFollow, Slot
  <2>11. TakenIsDue'
    <3>1. ASSUME due # <<>>
          PROVE  Head(due') = Head(due)
      BY <2>1, <2>4, <3>1, TailOfList
    <3>. QED
      BY <1>1, <2>4, <3>1 DEF TakenIsDue
  <2>. QED
    BY <1>1, <2>6, <2>10, <2>11 DEF KInv, EditorOK
<1>. QED
  BY <1>2, <1>3

\* What neither the ring nor its readers' places are changed by.
LEMMA KInvStutters ==
  ASSUME KInv, UNCHANGED <<s_ring, s_head, s_tail, due, lost, ch>>, cPc' = [r \in Reader |-> cPc'[r]],
         \A r \in Reader : cPc'[r] = "advance" => cPc[r] = "advance"
  PROVE  KInv'
BY DEF KInv, RingOK, EditorOK, TakenIsDue, KeysFollow, Slot

\* The character of the head is the first that is due.
LEMMA TryReadKeeps ==
  ASSUME OneReader, KInv, NEW r \in Reader, C!TryRead(r)
  PROVE  KInv'
<1>1. RingOK /\ KeysFollow /\ ~lost /\ EditorOK /\ TakenIsDue
  BY DEF KInv
<1>2. /\ s_head # s_tail /\ UNCHANGED <<s_ring, s_head, s_tail, due, lost>>
      /\ ch' = [ch EXCEPT ![r] = s_ring[s_head]]
      /\ cPc' = [cPc EXCEPT ![r] = "advance"]
  BY DEF C!TryRead, C!keyboard
<1>3. due # <<>> /\ Head(due) = s_ring[s_head]
  <2>1. PICK n \in 0 .. RING - 1 : n = Len(due) /\ s_tail = Slot(n)
    BY <1>1 DEF KeysFollow
  <2>2. RING \in Nat \ {0} /\ s_head \in 0 .. RING - 1
    BY <1>1 DEF RingOK, OneReader
  <2>3. n # 0 /\ Slot(0) = s_head
    BY <1>2, <2>1, <2>2 DEF Slot
  <2>4. 1 \in 1 .. Len(due) /\ 1 - 1 = 0
    BY <2>1, <2>2, <2>3
  <2>5. due[1] = s_ring[Slot(1 - 1)]
    BY <1>1, <2>4 DEF KeysFollow
  <2>6. due # <<>>
    BY <2>1, <2>3
  <2>7. Head(due) = due[1]
    BY <1>1, <2>6, TailOfList DEF RingOK
  <2>. QED
    BY <2>3, <2>4, <2>5, <2>6, <2>7
<1>4. TakenIsDue'
  BY <1>1, <1>2, <1>3 DEF TakenIsDue, EditorOK, OneReader
<1>. QED
  BY <1>1, <1>2, <1>4 DEF KInv, RingOK, EditorOK, KeysFollow, Slot

\* Moving the head takes that one, and nobody else has it in hand.
LEMMA AdvanceKeeps ==
  ASSUME OneReader, KInv, NEW r \in Reader, C!Advance(r)
  PROVE  KInv'
<1>1. RingOK /\ KeysFollow /\ ~lost /\ EditorOK /\ TakenIsDue
  BY DEF KInv
<1>2. /\ cPc[r] = "advance" /\ cPc' = [cPc EXCEPT ![r] = "key"]
      /\ s_head' = (s_head + 1) % RING
      /\ UNCHANGED <<s_ring, s_tail, ch>>
      /\ lost' = (lost \/ due = <<>> \/ (due # <<>> /\ Head(due) # ch[r]))
      /\ due' = IF due = <<>> THEN due ELSE Tail(due)
  BY DEF C!Advance
<1>3. due # <<>> /\ ch[r] = Head(due)
  BY <1>1, <1>2 DEF TakenIsDue
<1>4. ~lost' /\ due' = Tail(due)
  BY <1>1, <1>2, <1>3
<1>5. /\ RING \in Nat \ {0} /\ s_head \in 0 .. RING - 1 /\ s_tail \in 0 .. RING - 1
      /\ IsList(due)
  BY <1>1 DEF RingOK, OneReader
<1>6. /\ IsList(due') /\ Len(due) \in Nat /\ Len(due) > 0 /\ Len(due') = Len(due) - 1
      /\ \A i \in 1 .. Len(due) - 1 : due'[i] = due[i + 1]
  BY <1>3, <1>4, <1>5, TailOfList
<1>7. s_head' = IF s_head + 1 < RING THEN s_head + 1 ELSE 0
  BY <1>2, <1>5, NextSlot
<1>8. RingOK'
  BY <1>1, <1>2, <1>5, <1>6, <1>7 DEF RingOK
<1>9. \A i \in 0 .. RING - 2 : Slot(i)' = Slot(i + 1)
  BY <1>5, <1>7 DEF Slot
<1>10. PICK n \in 0 .. RING - 2 : n + 1 = Len(due) /\ n = Len(due') /\ s_tail = Slot(n + 1)
  <2>1. Len(due) - 1 \in 0 .. RING - 2
    BY <1>1, <1>5, <1>6 DEF KeysFollow
  <2>2. PICK n \in 0 .. RING - 2 : n = Len(due) - 1
    BY <2>1
  <2>3. n + 1 = Len(due)
    BY <1>6, <2>2
  <2>4. s_tail = Slot(n + 1)
    BY <1>1, <2>3 DEF KeysFollow
  <2>. QED
    BY <1>6, <2>2, <2>3, <2>4
<1>11. ASSUME NEW i \in 1 .. n
       PROVE  due'[i] = s_ring[Slot(i - 1)']
  <2>1. i \in 1 .. Len(due) - 1 /\ i + 1 \in 1 .. Len(due) /\ i - 1 \in 0 .. RING - 2
    BY <1>5, <1>10
  <2>2. due'[i] = due[i + 1]
    BY <1>6, <2>1
  <2>3. due[i + 1] = s_ring[Slot((i + 1) - 1)]
    BY <1>1, <2>1 DEF KeysFollow
  <2>4. (i + 1) - 1 = (i - 1) + 1
    BY <1>10
  <2>5. Slot(i - 1)' = Slot((i - 1) + 1)
    BY <1>9, <2>1
  <2>. QED
    BY <2>2, <2>3, <2>4, <2>5, Zenon
<1>12. KeysFollow'
  BY <1>2, <1>5, <1>9, <1>10, <1>11 DEF KeysFollow
<1>13. EditorOK'
  BY <1>1, <1>2 DEF EditorOK
<1>14. TakenIsDue'
  BY <1>1, <1>2 DEF TakenIsDue, EditorOK, OneReader
<1>. QED
  BY <1>4, <1>8, <1>12, <1>13, <1>14 DEF KInv

LEMMA NextKInv ==
  ASSUME OneReader, KInv, [C!Next]_(C!vars)
  PROVE  KInv'
<1>1. cPc = [r \in Reader |-> cPc[r]]
  BY DEF KInv, EditorOK
<1>2. CASE C!Program
  BY <1>1, <1>2, KInvStutters DEF C!Program, C!keyboard, C!editor
<1>3. ASSUME NEW c \in Code, C!HandleIrq(c)
      PROVE  KInv'
  <2>1. UNCHANGED <<s_head, lost, cPc, ch>>
    BY <1>3 DEF C!HandleIrq, C!editor
  <2>2. UNCHANGED <<s_ring, s_tail, due>> \/ \E x : C!Push(x)
    BY <1>3, Zenon DEF C!HandleIrq
  <2>3. CASE UNCHANGED <<s_ring, s_tail, due>>
    BY <1>1, <2>1, <2>3, KInvStutters
  <2>4. CASE \E x : C!Push(x)
    BY <2>1, <2>4, PushKeeps
  <2>. QED
    BY <2>2, <2>3, <2>4
<1>4. ASSUME NEW r \in Reader, C!Edit(r)
      PROVE  KInv'
  <2>1. CASE C!TryRead(r)
    BY <2>1, TryReadKeeps
  <2>2. CASE C!Advance(r)
    BY <2>2, AdvanceKeeps
  <2>3. CASE C!ReadLine(r)
    BY <1>1, <2>3, KInvStutters DEF C!ReadLine, C!keyboard
  <2>4. CASE C!EditKey(r)
    <3>1. UNCHANGED <<s_ring, s_head, s_tail, due, lost, ch>>
      BY <2>4 DEF C!EditKey, C!keyboard
    <3>2. \E l \in {"enter", "edit"} : cPc' = [cPc EXCEPT ![r] = l]
      BY <2>4, Zenon DEF C!EditKey, C!After
    <3>. QED
      BY <1>1, <3>1, <3>2, KInvStutters
  <2>5. CASE C!EndLine(r)
    BY <1>1, <2>5, KInvStutters DEF C!EndLine, C!keyboard
  <2>. QED
    BY <1>4, <2>1, <2>2, <2>3, <2>4, <2>5 DEF C!Edit
<1>5. CASE UNCHANGED C!vars
  BY <1>1, <1>5, KInvStutters DEF C!vars, C!keyboard, C!editor
<1>. QED
  BY <1>2, <1>3, <1>4, <1>5 DEF C!Next

-----------------------------------------------------------------------------
(***************************************************************************)
(* The history.  The inductive invariant says without a remainder where    *)
(* the lines entered are; those that are there are counted.                *)
(***************************************************************************)
Back(b) == IF b <= hist_head THEN hist_head - b ELSE hist_head + HIST_N - b

HistOK ==
  /\ hist_head \in 0 .. HIST_N - 1
  /\ hist_count \in 0 .. HIST_N
  /\ hist = [i \in 0 .. HIST_N - 1 |-> hist[i]]
  /\ IsList(entered)
  /\ Len(entered) = hist_count

LinesKept == \A b \in 1 .. hist_count : entered[hist_count + 1 - b] = hist[Back(b)]

HInv == HistOK /\ LinesKept

LEMMA BackRemainder ==
  ASSUME OneReader, HistOK, NEW b \in 1 .. HIST_N
  PROVE  Back(b) = (hist_head + HIST_N - b) % HIST_N
<1>1. HIST_N \in Nat \ {0} /\ hist_head \in 0 .. HIST_N - 1
  BY DEF OneReader, HistOK
<1>2. PICK n \in Nat \ {0} : n = HIST_N
  BY <1>1
<1>3. PICK x \in Nat : x = hist_head + HIST_N - b /\ x < 2 * n
  BY <1>1, <1>2
<1>4. x % n = IF x < n THEN x ELSE x - n
  BY <1>3, Wraps
<1>5. Back(b) = IF x < n THEN x ELSE x - n
  BY <1>1, <1>2, <1>3 DEF Back
<1>6. (hist_head + HIST_N - b) % HIST_N = x % n
  BY <1>2, <1>3, Zenon
<1>. QED
  BY <1>4, <1>5, <1>6, Zenon

\* What the arrow keys find is what was entered.
LEMMA HistGetFinds ==
  ASSUME OneReader, HInv, NEW b \in 1 .. HIST_N + 1
  PROVE  C!HistGet(b) = IF b > Len(entered) THEN C!None ELSE entered[Len(entered) + 1 - b]
<1>1. HistOK /\ LinesKept /\ HIST_N \in Nat \ {0} /\ hist_count \in 0 .. HIST_N
  BY DEF HInv, HistOK, OneReader
<1>2. CASE b > hist_count
  BY <1>1, <1>2 DEF C!HistGet, HistOK
<1>3. CASE b <= hist_count
  <2>1. b \in 1 .. hist_count /\ b \in 1 .. HIST_N /\ b # 0 /\ ~(b > hist_count)
    BY <1>1, <1>3
  <2>2. C!HistGet(b) = hist[(hist_head + HIST_N - b) % HIST_N]
    BY <2>1, Zenon DEF C!HistGet
  <2>3. entered[hist_count + 1 - b] = hist[Back(b)]
    BY <1>1, <2>1 DEF LinesKept
  <2>4. Back(b) = (hist_head + HIST_N - b) % HIST_N
    BY <1>1, <2>1, BackRemainder
  <2>5. Len(entered) = hist_count
    BY <1>1 DEF HistOK
  <2>. QED
    BY <2>1, <2>2, <2>3, <2>4, <2>5, Zenon
<1>. QED
  BY <1>1, <1>2, <1>3

\* HistAdd leaves out a line just when it is the last one entered.
LEMMA RepeatedLine ==
  ASSUME OneReader, HInv, NEW l, l # <<>>
  PROVE  C!HistGet(1) = l <=> entered # <<>> /\ C!Last(entered) = l
<1>1. HistOK /\ HIST_N \in Nat \ {0} /\ IsList(entered) /\ Len(entered) \in Nat
  BY DEF HInv, HistOK, OneReader
<1>2. PICK b \in 1 .. HIST_N + 1 : b = 1
  BY <1>1
<1>3. C!HistGet(b) = IF b > Len(entered) THEN C!None ELSE entered[Len(entered) + 1 - b]
  BY HistGetFinds
<1>4. entered # <<>> <=> Len(entered) > 0
  <2>1. PICK S : entered \in Seq(S)
    BY <1>1 DEF IsList
  <2>. QED
    BY <2>1
<1>5. CASE Len(entered) > 0
  <2>1. ~(b > Len(entered)) /\ Len(entered) + 1 - b = Len(entered)
    BY <1>1, <1>2, <1>5
  <2>2. C!HistGet(b) = entered[Len(entered)]
    BY <1>3, <2>1, Zenon
  <2>. QED
    BY <1>2, <1>4, <1>5, <2>2, Zenon DEF C!Last
<1>6. CASE ~(Len(entered) > 0)
  <2>1. b > Len(entered)
    BY <1>1, <1>2, <1>6
  <2>2. C!HistGet(b) = <<>>
    BY <1>3, <2>1, Zenon DEF C!None
  <2>. QED
    BY <1>2, <1>4, <1>6, <2>2, Zenon
<1>. QED
  BY <1>5, <1>6

\* What EndLine does with a line c that is not a repetition.
Adds(c) ==
  /\ hist' = [hist EXCEPT ![hist_head] = c]
  /\ hist_head' = (hist_head + 1) % HIST_N
  /\ hist_count' = IF hist_count < HIST_N THEN hist_count + 1 ELSE HIST_N
  /\ entered' = IF Len(Append(entered, c)) > HIST_N THEN Tail(Append(entered, c))
                                                    ELSE Append(entered, c)

LEMMA BothEnds ==
  ASSUME NEW g \in Nat, NEW h \in Nat, NEW b \in Nat
  PROVE  (h + 1 - b) + g + 1 - h = g + 2 - b
OBVIOUS

\* The line takes the place of the oldest, and every other is one further back.
LEMMA HistoryGrows ==
  ASSUME OneReader, HInv, NEW c, Adds(c)
  PROVE  HInv'
<1>1. /\ HIST_N \in Nat \ {0} /\ hist_head \in 0 .. HIST_N - 1 /\ hist_count \in 0 .. HIST_N
      /\ hist = [i \in 0 .. HIST_N - 1 |-> hist[i]] /\ IsList(entered)
      /\ Len(entered) = hist_count /\ LinesKept
  BY DEF HInv, HistOK, OneReader
<1>2. hist_head' = IF hist_head + 1 < HIST_N THEN hist_head + 1 ELSE 0
  BY <1>1, NextSlot DEF Adds
<1>3. /\ hist' = [i \in 0 .. HIST_N - 1 |-> hist'[i]]
      /\ hist'[hist_head] = c
      /\ \A i \in 0 .. HIST_N - 1 : i # hist_head => hist'[i] = hist[i]
  BY <1>1, Zenon DEF Adds
<1>4. PICK q : q = Append(entered, c)
  OBVIOUS
<1>5. /\ IsList(q) /\ Len(q) = hist_count + 1 /\ q # <<>>
      /\ \A i \in 1 .. hist_count : q[i] = entered[i]
      /\ q[hist_count + 1] = c
  BY <1>1, <1>4, AppendToList
<1>6. entered' = IF Len(q) > HIST_N THEN Tail(q) ELSE q
  BY <1>4, Zenon DEF Adds
<1>0. hist_count' = IF hist_count < HIST_N THEN hist_count + 1 ELSE HIST_N
  BY DEF Adds
<1>7. /\ IsList(entered') /\ hist_count' \in 0 .. HIST_N /\ Len(entered') = hist_count'
      /\ \A i \in 1 .. hist_count' : entered'[i] = q[i + hist_count + 1 - hist_count']
  <2>1. CASE hist_count < HIST_N
    BY <1>0, <1>1, <1>5, <1>6, <2>1
  <2>2. CASE hist_count = HIST_N
    <3>1. entered' = Tail(q)
      BY <1>1, <1>5, <1>6, <2>2
    <3>2. IsList(Tail(q)) /\ Len(Tail(q)) = HIST_N
          /\ \A i \in 1 .. HIST_N : Tail(q)[i] = q[i + 1]
      BY <1>1, <1>5, <2>2, TailOfList
    <3>. QED
      BY <1>0, <1>1, <2>2, <3>1, <3>2
  <2>. QED
    BY <1>1, <2>1, <2>2
<1>8. HistOK'
  BY <1>1, <1>2, <1>3, <1>7 DEF HistOK
<1>9. ASSUME NEW b \in 1 .. hist_count'
      PROVE  entered'[hist_count' + 1 - b] = hist'[Back(b)']
  <2>0. /\ HIST_N \in Nat \ {0} /\ hist_head \in 0 .. HIST_N - 1 /\ hist_count \in 0 .. HIST_N
        /\ hist_count' \in 0 .. HIST_N /\ hist_count' <= hist_count + 1
        /\ b \in Nat /\ 1 <= b /\ b <= hist_count'
    BY <1>0, <1>1, <1>7
  <2>1. PICK i \in 1 .. hist_count' : i = hist_count' + 1 - b
    <3>1. PICK h \in Nat : h = hist_count' /\ b \in 1 .. h
      BY <2>0
    <3>2. \E i \in 1 .. h : i = h + 1 - b
      BY <3>1, FromTheEnd
    <3>. QED
      BY <3>1, <3>2, Zenon
  <2>2. PICK j \in 1 .. hist_count + 1 : j = hist_count + 2 - b
    BY <2>0
  <2>3. entered'[i] = q[j]
    <3>1. entered'[i] = q[i + hist_count + 1 - hist_count']
      BY <1>7
    <3>2. i + hist_count + 1 - hist_count' = j
      <4>1. PICK g \in Nat, h \in Nat : g = hist_count /\ h = hist_count'
        BY <2>0
      <4>2. i = h + 1 - b /\ j = g + 2 - b
        BY <2>1, <2>2, <4>1, Zenon
      <4>3. b \in Nat
        BY <2>0
      <4>4. (h + 1 - b) + g + 1 - h = g + 2 - b
        BY <4>3, BothEnds
      <4>. QED
        BY <4>1, <4>2, <4>4, Zenon
    <3>. QED
      BY <3>1, <3>2, Zenon
  <2>4. CASE b = 1
    <3>1. Back(b)' = hist_head
      BY <1>1, <1>2, <2>4 DEF Back
    <3>2. j = hist_count + 1
      BY <1>1, <2>2, <2>4
    <3>. QED
      BY <1>3, <1>5, <2>1, <2>3, <3>1, <3>2, Zenon
  <2>5. CASE b # 1
    <3>1. PICK d \in 1 .. hist_count : d = b - 1 /\ d < HIST_N /\ j = hist_count + 1 - d
      BY <2>0, <2>2, <2>5
    <3>2. Back(b)' = Back(d) /\ Back(d) \in 0 .. HIST_N - 1 /\ Back(d) # hist_head
      <4>1. d \in Nat /\ 1 <= d /\ d < HIST_N /\ b = d + 1
        BY <2>0, <3>1
      <4>2. Back(b)' = IF b <= hist_head' THEN hist_head' - b ELSE hist_head' + HIST_N - b
        BY DEF Back
      <4>3. Back(b)' = Back(d)
        BY <1>2, <2>0, <4>1, <4>2 DEF Back
      <4>4. Back(d) \in 0 .. HIST_N - 1 /\ Back(d) # hist_head
        BY <2>0, <4>1 DEF Back
      <4>. QED
        BY <4>3, <4>4
    <3>3. entered[j] = hist[Back(d)]
      BY <1>1, <3>1 DEF LinesKept
    <3>4. j \in 1 .. hist_count
      BY <1>1, <3>1
    <3>5. q[j] = entered[j] /\ hist'[Back(d)] = hist[Back(d)]
      BY <1>3, <1>5, <3>2, <3>4
    <3>. QED
      BY <2>1, <2>3, <3>2, <3>3, <3>5, Zenon
  <2>. QED
    BY <2>4, <2>5
<1>10. LinesKept'
  BY <1>9 DEF LinesKept
<1>. QED
  BY <1>8, <1>10 DEF HInv

LEMMA HInvStutters ==
  ASSUME HInv, UNCHANGED C!history
  PROVE  HInv'
BY DEF HInv, HistOK, LinesKept, Back, C!history

LEMMA EndLineKeeps ==
  ASSUME OneReader, HInv, NEW r \in Reader, C!EndLine(r)
  PROVE  HInv'
<1>1. PICK l : l = line[r]
  OBVIOUS
<1>2. PICK c : c = C!Cut(l)
  OBVIOUS
<1>3. /\ C!HistAdd(l)
      /\ entered' = IF l = <<>> \/ (entered # <<>> /\ C!Last(entered) = l) THEN entered
                    ELSE IF Len(Append(entered, c)) > HIST_N THEN Tail(Append(entered, c))
                                                             ELSE Append(entered, c)
  BY <1>1, <1>2, Zenon DEF C!EndLine
<1>4. CASE l = <<>> \/ C!HistGet(1) = l
  <2>1. UNCHANGED <<hist, hist_count, hist_head>>
    BY <1>3, <1>4, Zenon DEF C!HistAdd
  <2>2. l = <<>> \/ (entered # <<>> /\ C!Last(entered) = l)
    BY <1>4, RepeatedLine
  <2>3. UNCHANGED entered
    BY <1>3, <2>2, Zenon
  <2>. QED
    BY <2>1, <2>3, HInvStutters DEF C!history
<1>5. CASE ~(l = <<>> \/ C!HistGet(1) = l)
  <2>1. ~(l = <<>> \/ (entered # <<>> /\ C!Last(entered) = l))
    BY <1>5, RepeatedLine
  <2>2. Adds(c)
    BY <1>2, <1>3, <1>5, <2>1, Zenon DEF C!HistAdd, Adds
  <2>. QED
    BY <2>2, HistoryGrows
<1>. QED
  BY <1>4, <1>5

LEMMA InitHInv ==
  ASSUME OneReader, C!Init
  PROVE  HInv
<1>1. /\ hist = [i \in 0 .. HIST_N - 1 |-> <<>>]
      /\ hist_count = 0 /\ hist_head = 0 /\ entered = <<>>
  BY DEF C!Init
<1>2. <<>> \in Seq({}) /\ Len(<<>>) = 0 /\ 0 \in 0 .. HIST_N - 1 /\ 0 \in 0 .. HIST_N
  BY DEF OneReader
<1>3. HistOK
  BY <1>1, <1>2 DEF HistOK, IsList
<1>4. LinesKept
  BY <1>1 DEF LinesKept
<1>. QED
  BY <1>3, <1>4 DEF HInv

LEMMA NextHInv ==
  ASSUME OneReader, HInv, [C!Next]_(C!vars)
  PROVE  HInv'
<1>1. CASE C!Program
  BY <1>1, HInvStutters DEF C!Program
<1>2. ASSUME NEW c \in Code, C!HandleIrq(c)
      PROVE  HInv'
  BY <1>2, HInvStutters DEF C!HandleIrq
<1>3. ASSUME NEW r \in Reader, C!Edit(r)
      PROVE  HInv'
  <2>1. CASE C!EndLine(r)
    BY <2>1, EndLineKeeps
  <2>2. CASE C!TryRead(r) \/ C!Advance(r) \/ C!ReadLine(r) \/ C!EditKey(r)
    BY <2>2, HInvStutters DEF C!TryRead, C!Advance, C!ReadLine, C!EditKey
  <2>. QED
    BY <1>3, <2>1, <2>2 DEF C!Edit
<1>4. CASE UNCHANGED C!vars
  BY <1>4, HInvStutters DEF C!vars
<1>. QED
  BY <1>1, <1>2, <1>3, <1>4 DEF C!Next

-----------------------------------------------------------------------------
(* The theorems.                                                           *)

\* TryRead and the interrupt handler share the ring without a lock: each key that Push
\* accepts reaches the reader once and in order, for any length of the ring.
THEOREM KeysReachReader ==
  ASSUME OneReader
  PROVE  C!Spec => []KeysOnce
<1>1. C!Init => KInv
  BY InitKInv
<1>2. KInv /\ [C!Next]_(C!vars) => KInv'
  BY NextKInv
<1>3. KInv => KeysOnce
  BY KeysOnceFollow DEF KInv, KeysOnce
<1>. QED
  BY <1>1, <1>2, <1>3, PTL DEF C!Spec

\* HistAdd and HistGet: whatever lines are entered, the arrow keys find the last HIST_N of
\* them, newest first, and nothing further back.
THEOREM HistoryFinds ==
  ASSUME OneReader
  PROVE  C!Spec => []HistoryNewest
<1>1. C!Init => HInv
  BY InitHInv
<1>2. HInv /\ [C!Next]_(C!vars) => HInv'
  BY NextHInv
<1>3. HInv => HistoryNewest
  BY HistGetFinds DEF HistoryNewest, C!HistoryNewest
<1>. QED
  BY <1>1, <1>2, <1>3, PTL DEF C!Spec

(***************************************************************************)
(* The boot.  Nobody clears the flag before the kernel replaces the        *)
(* descriptor table: the firmware must have.                               *)
(***************************************************************************)
FlagClear == FlagAtEntry = {FALSE}

(***************************************************************************)
(* The inductive invariant: what is in place before each step, of what     *)
(* interrupts need.                                                        *)
(***************************************************************************)
BInv ==
  /\ step \in Nat \ {0}
  /\ flag => step > 10
  /\ flag \in BOOLEAN /\ served = "well"
  /\ handler \in [B!Line -> {"firmware", "none", "timer", "keyboard", "mouse"}]
  /\ step > 5 => handler[1] = "keyboard"
  /\ step > 7 => handler[12] = "mouse"
  /\ step > 11 => handler[0] = "timer"
  /\ 0 \in lines => step <= 3 \/ step > 12

\* What the later steps are not.
HalOnly == {"PicInit", "IrqInit", "Keyboard", "OpenKeyboard", "Mouse", "OpenMouse",
            "EnableInterrupts", "PitInit", "OpenTimer"}

LEMMA TwelveSteps ==
  ASSUME NEW a, NEW b, NEW c, NEW d, NEW e, NEW f, NEW g, NEW h, NEW i, NEW j, NEW k, NEW l
  PROVE  LET q == <<a, b, c, d, e, f, g, h, i, j, k, l>>
         IN  q \in Seq({a, b, c, d, e, f, g, h, i, j, k, l}) /\ Len(q) = 12
OBVIOUS

LEMMA FiveSteps ==
  ASSUME NEW a, NEW b, NEW c, NEW d, NEW e
  PROVE  LET q == <<a, b, c, d, e>>
         IN  /\ q \in Seq({a, b, c, d, e}) /\ Len(q) = 5
             /\ \A n \in 1 .. 5 : q[n] \in {a, b, c, d, e}
<1> DEFINE q == <<a, b, c, d, e>>
<1>1. q \in Seq({a, b, c, d, e}) /\ Len(q) = 5
  OBVIOUS
<1>2. \A n \in 1 .. 5 : q[n] \in {a, b, c, d, e}
  BY <1>1
<1>. QED
  BY <1>1, <1>2, Zenon

LEMMA SevenSteps ==
  ASSUME NEW a, NEW b, NEW c, NEW d, NEW e, NEW f, NEW g
  PROVE  LET q == <<a, b, c, d, e, f, g>>
         IN  /\ q \in Seq({a, b, c, d, e, f, g}) /\ Len(q) = 7
             /\ \A n \in 1 .. 7 : q[n] \in {a, b, c, d, e, f, g}
<1> DEFINE q == <<a, b, c, d, e, f, g>>
<1>1. q \in Seq({a, b, c, d, e, f, g}) /\ Len(q) = 7
  OBVIOUS
<1>2. \A n \in 1 .. 7 : q[n] \in {a, b, c, d, e, f, g}
  BY <1>1
<1>. QED
  BY <1>1, <1>2, Zenon

LEMMA WiderSeq ==
  ASSUME NEW S, NEW T, S \subseteq T, NEW q \in Seq(S)
  PROVE  q \in Seq(T)
OBVIOUS

\* Three sequences, one after the other.
OneAfterAnother(h, m, s) ==
  /\ Len(h \o m \o s) = 24
  /\ \A i \in 1 .. 12 : (h \o m \o s)[i] = h[i]
  /\ \A i \in 13 .. 17 : i - 12 \in 1 .. 5 /\ (h \o m \o s)[i] = m[i - 12]
  /\ \A i \in 18 .. 24 : i - 17 \in 1 .. 7 /\ (h \o m \o s)[i] = s[i - 17]

LEMMA ThreeParts ==
  ASSUME NEW T, NEW h \in Seq(T), NEW m \in Seq(T), NEW s \in Seq(T),
         Len(h) = 12, Len(m) = 5, Len(s) = 7
  PROVE  OneAfterAnother(h, m, s)
<1> DEFINE hm == h \o m
<1>1. hm \in Seq(T)
  BY ConcatProperties, Zenon
<1>2. /\ Len(hm) = Len(h) + Len(m)
      /\ \A i \in 1 .. Len(h) + Len(m) : hm[i] = IF i <= Len(h) THEN h[i] ELSE m[i - Len(h)]
  BY ConcatProperties, Zenon
<1> HIDE DEF hm
<1> DEFINE all == hm \o s
<1>3. /\ Len(all) = Len(hm) + Len(s)
      /\ \A i \in 1 .. Len(hm) + Len(s) :
           all[i] = IF i <= Len(hm) THEN hm[i] ELSE s[i - Len(hm)]
  BY <1>1, ConcatProperties, Zenon
<1> HIDE DEF all
<1>4. Len(hm) = 17 /\ Len(all) = 24
  BY <1>2, <1>3
<1>5. \A i \in 1 .. 12 : /\ i \in 1 .. Len(h) + Len(m) /\ i <= Len(h)
                         /\ i \in 1 .. Len(hm) + Len(s) /\ i <= Len(hm)
  BY <1>4
<1>6. \A i \in 13 .. 17 : /\ i \in 1 .. Len(h) + Len(m) /\ ~(i <= Len(h))
                          /\ i - Len(h) = i - 12 /\ i - 12 \in 1 .. 5
                          /\ i \in 1 .. Len(hm) + Len(s) /\ i <= Len(hm)
  BY <1>4
<1>7. \A i \in 18 .. 24 : /\ i \in 1 .. Len(hm) + Len(s) /\ ~(i <= Len(hm))
                          /\ i - Len(hm) = i - 17 /\ i - 17 \in 1 .. 7
  BY <1>4
<1>8. \A i \in 1 .. 12 : all[i] = h[i]
  BY <1>2, <1>3, <1>5, Zenon
<1>9. \A i \in 13 .. 17 : i - 12 \in 1 .. 5 /\ all[i] = m[i - 12]
  BY <1>2, <1>3, <1>6, Zenon
<1>10. \A i \in 18 .. 24 : i - 17 \in 1 .. 7 /\ all[i] = s[i - 17]
  BY <1>3, <1>7, Zenon
<1>. QED
  BY <1>4, <1>8, <1>9, <1>10, Zenon DEF all, hm, OneAfterAnother

LEMMA Steps ==
  /\ B!KernelSteps[1] = "Video" /\ B!KernelSteps[2] = "GdtInit"
  /\ B!KernelSteps[3] = "PicInit" /\ B!KernelSteps[4] = "IrqInit"
  /\ B!KernelSteps[5] = "Keyboard" /\ B!KernelSteps[6] = "OpenKeyboard"
  /\ B!KernelSteps[7] = "Mouse" /\ B!KernelSteps[8] = "OpenMouse"
  /\ B!KernelSteps[9] = "IdtInit" /\ B!KernelSteps[10] = "EnableInterrupts"
  /\ B!KernelSteps[11] = "PitInit" /\ B!KernelSteps[12] = "OpenTimer"
  /\ \A i \in 13 .. Len(B!KernelSteps) : B!KernelSteps[i] \notin HalOnly
<1> DEFINE h == B!HalSteps
           m == B!MemorySteps
           s == B!SystemSteps
           H == {"Video", "GdtInit", "PicInit", "IrqInit", "Keyboard", "OpenKeyboard",
                 "Mouse", "OpenMouse", "IdtInit", "EnableInterrupts", "PitInit", "OpenTimer"}
           M == {"PMM", "KernelHeap", "VMM", "KUSER", "OB"}
           S == {"PS", "IO", "SYSCALL", "LDR", "Sections", "Protection", "SessionModules"}
           T == H \cup M \cup S
<1>1. /\ h \in Seq(H) /\ Len(h) = 12
      /\ h[1] = "Video" /\ h[2] = "GdtInit" /\ h[3] = "PicInit" /\ h[4] = "IrqInit"
      /\ h[5] = "Keyboard" /\ h[6] = "OpenKeyboard" /\ h[7] = "Mouse" /\ h[8] = "OpenMouse"
      /\ h[9] = "IdtInit" /\ h[10] = "EnableInterrupts" /\ h[11] = "PitInit"
      /\ h[12] = "OpenTimer"
  <2>1. h \in Seq(H) /\ Len(h) = 12
    BY TwelveSteps, Zenon DEF B!HalSteps
  <2>2. /\ h[1] = "Video" /\ h[2] = "GdtInit" /\ h[3] = "PicInit" /\ h[4] = "IrqInit"
        /\ h[5] = "Keyboard" /\ h[6] = "OpenKeyboard" /\ h[7] = "Mouse" /\ h[8] = "OpenMouse"
        /\ h[9] = "IdtInit" /\ h[10] = "EnableInterrupts" /\ h[11] = "PitInit"
        /\ h[12] = "OpenTimer"
    BY DEF B!HalSteps
  <2>. QED
    BY <2>1, <2>2, Zenon
<1>2. m \in Seq(M) /\ Len(m) = 5 /\ \A n \in 1 .. 5 : m[n] \in M
  BY FiveSteps, Zenon DEF B!MemorySteps
<1>3. s \in Seq(S) /\ Len(s) = 7 /\ \A n \in 1 .. 7 : s[n] \in S
  BY SevenSteps, Zenon DEF B!SystemSteps
<1>4. \A x \in M : x \notin HalOnly
  BY DEF HalOnly
<1>5. \A x \in S : x \notin HalOnly
  BY DEF HalOnly
<1>6. B!KernelSteps = h \o m \o s
  BY DEF B!KernelSteps
<1>7. H \subseteq T /\ M \subseteq T /\ S \subseteq T
  OBVIOUS
<1> HIDE DEF h, m, s, H, M, S, T
<1>8. h \in Seq(T) /\ m \in Seq(T) /\ s \in Seq(T)
  BY <1>1, <1>2, <1>3, <1>7, WiderSeq, Zenon
<1>9. Len(h) = 12 /\ Len(m) = 5 /\ Len(s) = 7
  BY <1>1, <1>2, <1>3, Zenon
<1>10. OneAfterAnother(h, m, s)
  BY <1>8, <1>9, ThreeParts, Zenon
<1>11. /\ Len(h \o m \o s) = 24
       /\ \A i \in 1 .. 12 : (h \o m \o s)[i] = h[i]
       /\ \A i \in 13 .. 17 : i - 12 \in 1 .. 5 /\ (h \o m \o s)[i] = m[i - 12]
       /\ \A i \in 18 .. 24 : i - 17 \in 1 .. 7 /\ (h \o m \o s)[i] = s[i - 17]
  BY <1>10, Zenon DEF OneAfterAnother
<1>12. \A i \in 13 .. 17 : (h \o m \o s)[i] \notin HalOnly
  <2>1. \A i \in 13 .. 17 : i - 12 \in 1 .. 5 /\ (h \o m \o s)[i] = m[i - 12]
    BY <1>11, Zenon
  <2>2. \A n \in 1 .. 5 : m[n] \notin HalOnly
    BY <1>2, <1>4, Zenon
  <2>. QED
    BY <2>1, <2>2, Zenon
<1>13. \A i \in 18 .. 24 : (h \o m \o s)[i] \notin HalOnly
  <2>1. \A i \in 18 .. 24 : i - 17 \in 1 .. 7 /\ (h \o m \o s)[i] = s[i - 17]
    BY <1>11, Zenon
  <2>2. \A n \in 1 .. 7 : s[n] \notin HalOnly
    BY <1>3, <1>5, Zenon
  <2>. QED
    BY <2>1, <2>2, Zenon
<1>14. \A i \in 13 .. 24 : (h \o m \o s)[i] \notin HalOnly
  <2>1. \A i \in 13 .. 24 : i \in 13 .. 17 \/ i \in 18 .. 24
    OBVIOUS
  <2>. QED
    BY <1>12, <1>13, <2>1, Zenon
<1>15. /\ 1 \in 1 .. 12 /\ 2 \in 1 .. 12 /\ 3 \in 1 .. 12 /\ 4 \in 1 .. 12
       /\ 5 \in 1 .. 12 /\ 6 \in 1 .. 12 /\ 7 \in 1 .. 12 /\ 8 \in 1 .. 12
       /\ 9 \in 1 .. 12 /\ 10 \in 1 .. 12 /\ 11 \in 1 .. 12 /\ 12 \in 1 .. 12
  OBVIOUS
<1>. QED
  BY <1>1, <1>6, <1>11, <1>14, <1>15, Zenon

LEMMA OtherStep ==
  ASSUME NEW s, s \notin HalOnly
  PROVE  /\ B!Registered(s) = handler /\ B!Unmasked(s) = lines
         /\ s # "EnableInterrupts"
<1>1. /\ s # "PicInit" /\ s # "IrqInit" /\ s # "Keyboard" /\ s # "OpenKeyboard"
      /\ s # "Mouse" /\ s # "OpenMouse" /\ s # "EnableInterrupts" /\ s # "PitInit"
      /\ s # "OpenTimer"
  BY DEF HalOnly
<1>2. B!Registered(s) = handler
  BY <1>1 DEF B!Registered
<1>3. B!Unmasked(s) = lines
  BY <1>1 DEF B!Unmasked
<1>. QED
  BY <1>1, <1>2, <1>3

\* One step of kernel_main.
LEMMA KernelStepBInv ==
  ASSUME BInv, B!KernelStep
  PROVE  BInv'
<1>1. PICK s : /\ s = B!KernelSteps[step]
               /\ handler' = B!Registered(s) /\ lines' = B!Unmasked(s)
               /\ flag' = (flag \/ s = "EnableInterrupts")
  BY DEF B!KernelStep
<1>2. PICK k \in Nat \ {0} : /\ k = step /\ step' = k + 1 /\ k \in 1 .. Len(B!KernelSteps)
                             /\ served' = "well"
  BY DEF BInv, B!KernelStep
<1>3. CASE k > 12
  <2>1. s \notin HalOnly
    BY <1>1, <1>2, <1>3, Steps
  <2>2. UNCHANGED <<handler, lines, flag>>
    BY <1>1, <2>1, OtherStep, Zenon DEF BInv
  <2>. QED
    BY <1>2, <1>3, <2>2 DEF BInv
<1>4. CASE k = 1 \/ k = 2 \/ k = 9
  <2>1. s \notin HalOnly
    BY <1>1, <1>2, <1>4, Steps DEF HalOnly
  <2>2. UNCHANGED <<handler, lines, flag>>
    BY <1>1, <2>1, OtherStep, Zenon DEF BInv
  <2>. QED
    BY <1>2, <1>4, <2>2 DEF BInv
<1>5. CASE k = 3
  <2>1. s = "PicInit"
    BY <1>1, <1>2, <1>5, Steps
  <2>2. handler' = handler
    BY <1>1, <2>1 DEF B!Registered
  <2>3. lines' = {}
    BY <1>1, <2>1 DEF B!Unmasked
  <2>4. flag' = flag
    <3>1. s # "EnableInterrupts"
      BY <2>1
    <3>. QED
      BY <1>1, <3>1, Zenon DEF BInv
  <2>. QED
    BY <1>2, <1>5, <2>2, <2>3, <2>4 DEF BInv
<1>6. CASE k = 4
  <2>1. s = "IrqInit"
    BY <1>1, <1>2, <1>6, Steps
  <2>2. handler' = [l \in B!Line |-> "none"]
    BY <1>1, <2>1 DEF B!Registered
  <2>3. lines' = lines
    BY <1>1, <2>1 DEF B!Unmasked
  <2>4. flag' = flag
    <3>1. s # "EnableInterrupts"
      BY <2>1
    <3>. QED
      BY <1>1, <3>1, Zenon DEF BInv
  <2>5. handler' \in [B!Line -> {"firmware", "none", "timer", "keyboard", "mouse"}]
    BY <2>2 DEF BInv, B!Line
  <2>. QED
    BY <1>2, <1>6, <2>5, <2>3, <2>4 DEF BInv
<1>7. CASE k = 5
  <2>1. s = "Keyboard"
    BY <1>1, <1>2, <1>7, Steps
  <2>2. handler' = [handler EXCEPT ![1] = "keyboard"]
    BY <1>1, <2>1 DEF B!Registered
  <2>3. lines' = lines
    BY <1>1, <2>1 DEF B!Unmasked
  <2>4. flag' = flag
    <3>1. s # "EnableInterrupts"
      BY <2>1
    <3>. QED
      BY <1>1, <3>1, Zenon DEF BInv
  <2>5. handler' \in [B!Line -> {"firmware", "none", "timer", "keyboard", "mouse"}]
    BY <2>2 DEF BInv, B!Line
  <2>6. handler'[1] = "keyboard"
    BY <2>2 DEF BInv, B!Line
  <2>. QED
    BY <1>2, <1>7, <2>5, <2>6, <2>3, <2>4 DEF BInv
<1>8. CASE k = 6
  <2>1. s = "OpenKeyboard"
    BY <1>1, <1>2, <1>8, Steps
  <2>2. handler' = handler
    BY <1>1, <2>1 DEF B!Registered
  <2>3. lines' = lines \cup {1}
    BY <1>1, <2>1 DEF B!Unmasked
  <2>4. flag' = flag
    <3>1. s # "EnableInterrupts"
      BY <2>1
    <3>. QED
      BY <1>1, <3>1, Zenon DEF BInv
  <2>. QED
    BY <1>2, <1>8, <2>2, <2>3, <2>4 DEF BInv
<1>9. CASE k = 7
  <2>1. s = "Mouse"
    BY <1>1, <1>2, <1>9, Steps
  <2>2. handler' = [handler EXCEPT ![12] = "mouse"]
    BY <1>1, <2>1 DEF B!Registered
  <2>3. lines' = lines
    BY <1>1, <2>1 DEF B!Unmasked
  <2>4. flag' = flag
    <3>1. s # "EnableInterrupts"
      BY <2>1
    <3>. QED
      BY <1>1, <3>1, Zenon DEF BInv
  <2>5. handler' \in [B!Line -> {"firmware", "none", "timer", "keyboard", "mouse"}]
    BY <2>2 DEF BInv, B!Line
  <2>6. handler'[12] = "mouse" /\ handler'[1] = handler[1]
    BY <2>2 DEF BInv, B!Line
  <2>. QED
    BY <1>2, <1>9, <2>5, <2>6, <2>3, <2>4 DEF BInv
<1>10. CASE k = 8
  <2>1. s = "OpenMouse"
    BY <1>1, <1>2, <1>10, Steps
  <2>2. handler' = handler
    BY <1>1, <2>1 DEF B!Registered
  <2>3. lines' = lines \cup {12}
    BY <1>1, <2>1 DEF B!Unmasked
  <2>4. flag' = flag
    <3>1. s # "EnableInterrupts"
      BY <2>1
    <3>. QED
      BY <1>1, <3>1, Zenon DEF BInv
  <2>. QED
    BY <1>2, <1>10, <2>2, <2>3, <2>4 DEF BInv
<1>11. CASE k = 10
  <2>1. s = "EnableInterrupts"
    BY <1>1, <1>2, <1>11, Steps
  <2>2. handler' = handler
    BY <1>1, <2>1 DEF B!Registered
  <2>3. lines' = lines
    BY <1>1, <2>1 DEF B!Unmasked
  <2>4. flag' = TRUE
    BY <1>1, <2>1
  <2>. QED
    BY <1>2, <1>11, <2>2, <2>3, <2>4 DEF BInv
<1>12. CASE k = 11
  <2>1. s = "PitInit"
    BY <1>1, <1>2, <1>12, Steps
  <2>2. handler' = [handler EXCEPT ![0] = "timer"]
    BY <1>1, <2>1 DEF B!Registered
  <2>3. lines' = lines
    BY <1>1, <2>1 DEF B!Unmasked
  <2>4. flag' = flag
    <3>1. s # "EnableInterrupts"
      BY <2>1
    <3>. QED
      BY <1>1, <3>1, Zenon DEF BInv
  <2>5. handler' \in [B!Line -> {"firmware", "none", "timer", "keyboard", "mouse"}]
    BY <2>2 DEF BInv, B!Line
  <2>6. /\ handler'[0] = "timer" /\ handler'[1] = handler[1]
        /\ handler'[12] = handler[12]
    BY <2>2 DEF BInv, B!Line
  <2>. QED
    BY <1>2, <1>12, <2>5, <2>6, <2>3, <2>4 DEF BInv
<1>13. CASE k = 12
  <2>1. s = "OpenTimer"
    BY <1>1, <1>2, <1>13, Steps
  <2>2. handler' = handler
    BY <1>1, <2>1 DEF B!Registered
  <2>3. lines' = lines \cup {0}
    BY <1>1, <2>1 DEF B!Unmasked
  <2>4. flag' = flag
    <3>1. s # "EnableInterrupts"
      BY <2>1
    <3>. QED
      BY <1>1, <3>1, Zenon DEF BInv
  <2>. QED
    BY <1>2, <1>13, <2>2, <2>3, <2>4 DEF BInv
<1>14. k > 12 \/ k \in {1, 2, 3, 4, 5, 6, 7, 8, 9, 10, 11, 12}
  BY <1>2
<1>. QED
  BY <1>3, <1>4, <1>5, <1>6, <1>7, <1>8, <1>9, <1>10, <1>11, <1>12, <1>13, <1>14

LEMMA IrqBInv ==
  ASSUME BInv, NEW l \in B!Line, B!Irq(l)
  PROVE  BInv'
<1>1. flag /\ l \in lines /\ UNCHANGED <<step, flag, lines, handler>>
  BY DEF B!Irq
<1>2. step > 10
  BY <1>1 DEF BInv
<1>3. B!Done("IdtInit")
  <2>1. 9 \in 1 .. (step - 1)
    BY <1>2 DEF BInv
  <2>. QED
    BY <2>1, Steps DEF B!Done
<1>4. handler[l] = B!Driver[l]
  <2>1. l = 0 => step > 12
    BY <1>1, <1>2 DEF BInv
  <2>2. step > 5 /\ step > 7 /\ (l = 0 => step > 11)
    BY <1>2, <2>1 DEF BInv
  <2>. QED
    BY <2>2 DEF BInv, B!Driver, B!Line
<1>5. served' = "well"
  BY <1>3, <1>4 DEF B!Irq
<1>. QED
  BY <1>1, <1>5 DEF BInv

LEMMA NextBInv ==
  ASSUME BInv, [B!Next]_(B!vars)
  PROVE  BInv'
<1>1. CASE UNCHANGED B!kernel
  BY <1>1 DEF BInv, B!kernel
<1>2. CASE B!Next
  BY <1>1, <1>2, KernelStepBInv, IrqBInv
     DEF B!Next, B!LoadFile, B!LoadElf, B!LoadInitrd, B!BuildPageTables, B!AllocBootInfo,
         B!LoadBootFile, B!SizeMap, B!GetMemoryMap, B!ExitBootServices, B!Retry, B!FirmwareEvent
<1>. QED
  BY <1>1, <1>2 DEF B!vars, B!kernel

\* kernel_main: each line of the interrupt controller is opened only when its gate and its
\* driver's handler are in place, so that no interrupt is lost or faults, provided none can
\* come before the kernel has its own descriptor table.
THEOREM InterruptsAnswered ==
  ASSUME FlagClear
  PROVE  B!Spec => []InterruptsServed
<1>1. B!Init => BInv
  <2>1. SUFFICES ASSUME B!Init PROVE BInv
    OBVIOUS
  <2>2. step = 1 /\ flag = FALSE /\ lines = {0} /\ served = "well"
    BY <2>1 DEF B!Init, FlagClear
  <2>3. handler \in [B!Line -> {"firmware", "none", "timer", "keyboard", "mouse"}]
    BY <2>1 DEF B!Init
  <2>4. /\ step \in Nat \ {0} /\ step <= 3
        /\ ~(step > 5) /\ ~(step > 7) /\ ~(step > 11)
    BY <2>2
  <2>. QED
    BY <2>2, <2>3, <2>4, Zenon DEF BInv
<1>2. BInv /\ [B!Next]_(B!vars) => BInv'
  BY NextBInv
<1>3. BInv => InterruptsServed
  BY DEF BInv, InterruptsServed, B!InterruptsServed
<1>. QED
  BY <1>1, <1>2, <1>3, PTL DEF B!Spec

(***************************************************************************)
(* The desktop.  Points are those of a screen, and the layout has room for *)
(* the windows that it begins with.                                        *)
(***************************************************************************)
Screen ==
  /\ ScreenW \in Nat /\ ScreenH \in Nat /\ MaxWindows \in Nat /\ MaxWindows >= 5
  /\ Spot \subseteq Nat \X Nat

AWindow(w) == w.X \in Nat /\ w.Y \in Nat

(***************************************************************************)
(* The inductive invariant.  Besides the hold on the dragged window, all   *)
(* windows are right of and below the upper left corner, so that the first *)
(* position after a press is the one that the window has.                  *)
(***************************************************************************)
Layout(ws) ==
  /\ \E S : ws \in Seq(S)
  /\ Len(ws) <= MaxWindows
  /\ \A i \in 1 .. Len(ws) : AWindow(ws[i])

DInv ==
  /\ Layout(windows)
  /\ s_x \in Int /\ s_y \in Int /\ packet.x \in Int
  /\ packet = [left |-> packet.left, x |-> packet.x]
  /\ drag.dx \in Int /\ drag.dy \in Int
  /\ D!DragHolds

LEMMA LeastMember ==
  ASSUME NEW S \in SUBSET Nat, S # {}
  PROVE  \E m \in S : \A k \in S : m <= k
<1>1. PICK m \in S : \A k \in S : <<k, m>> \notin OpToRel(<, Nat)
  BY NatLessThanWellFounded, WFMin, Zenon
<1>2. \A k \in S : ~(k < m)
  BY <1>1 DEF OpToRel
<1>. QED
  BY <1>2

\* Of the windows under a point, one is the last.
LEMMA Last1IsMember ==
  ASSUME NEW n \in Nat, NEW S \in SUBSET (1 .. n), S # {}
  PROVE  D!Last1(S) \in S
<1> DEFINE T == {k \in 0 .. n : n - k \in S}
<1>1. T \in SUBSET Nat /\ T # {}
  <2>1. PICK i \in S : i \in 1 .. n
    OBVIOUS
  <2>2. n - i \in T
    BY <2>1
  <2>3. T \in SUBSET Nat
    OBVIOUS
  <2>. QED
    BY <2>2, <2>3, Zenon
<1>2. PICK m \in T : \A k \in T : m <= k
  BY <1>1, LeastMember, Zenon
<1>3. ASSUME NEW j \in S
      PROVE  j <= n - m
  <2>1. n - j \in T
    OBVIOUS
  <2>2. m <= n - j
    BY <1>2, <2>1
  <2>. QED
    BY <1>2, <2>2
<1>4. n - m \in S
  OBVIOUS
<1>. QED
  BY <1>3, <1>4 DEF D!Last1

\* The list without one window.
LEMMA RemoveShifts ==
  ASSUME NEW S, NEW ws \in Seq(S), NEW i \in 1 .. Len(ws)
  PROVE  /\ D!RemoveAt(ws, i) \in Seq(S)
         /\ Len(D!RemoveAt(ws, i)) = Len(ws) - 1
         /\ \A j \in 1 .. Len(ws) - 1 :
              D!RemoveAt(ws, i)[j] = IF j < i THEN ws[j] ELSE ws[j + 1]
<1> DEFINE a == SubSeq(ws, 1, i - 1)
           b == SubSeq(ws, i + 1, Len(ws))
<1>0. /\ Len(ws) \in Nat /\ i \in Int /\ 1 \in Int /\ i - 1 \in Int /\ i + 1 \in Int
      /\ \A j \in 1 .. Len(ws) : ws[j] \in S
  BY ElementOfSeq, LenProperties
<1>1. /\ a \in Seq(S)
      /\ Len(a) = i - 1
      /\ \A j \in 1 .. i - 1 : a[j] = ws[j]
  <2>1. \A j \in 1 .. i - 1 : ws[j] \in S
    BY <1>0
  <2>2. /\ SubSeq(ws, 1, i - 1) \in Seq(S)
        /\ Len(SubSeq(ws, 1, i - 1)) = IF 1 <= i - 1 THEN i - 1 - 1 + 1 ELSE 0
        /\ \A j \in 1 .. i - 1 - 1 + 1 : SubSeq(ws, 1, i - 1)[j] = ws[1 + j - 1]
    BY <1>0, <2>1, SubSeqProperties
  <2>. QED
    BY <1>0, <2>2
<1>2. /\ b \in Seq(S)
      /\ Len(b) = Len(ws) - i
      /\ \A j \in 1 .. Len(ws) - i : b[j] = ws[i + j]
  <2>1. \A j \in i + 1 .. Len(ws) : ws[j] \in S
    BY <1>0
  <2>2. /\ SubSeq(ws, i + 1, Len(ws)) \in Seq(S)
        /\ Len(SubSeq(ws, i + 1, Len(ws))) =
             IF i + 1 <= Len(ws) THEN Len(ws) - (i + 1) + 1 ELSE 0
        /\ \A j \in 1 .. Len(ws) - (i + 1) + 1 :
             SubSeq(ws, i + 1, Len(ws))[j] = ws[i + 1 + j - 1]
    BY <1>0, <2>1, SubSeqProperties
  <2>. QED
    BY <1>0, <2>2
<1>3. /\ a \o b \in Seq(S)
      /\ Len(a \o b) = Len(a) + Len(b)
      /\ \A j \in 1 .. Len(a) + Len(b) :
           (a \o b)[j] = IF j <= Len(a) THEN a[j] ELSE b[j - Len(a)]
  BY <1>1, <1>2, ConcatProperties, Zenon
<1>4. D!RemoveAt(ws, i) = a \o b
  BY DEF D!RemoveAt
<1>5. ASSUME NEW j \in 1 .. Len(ws) - 1
      PROVE  (a \o b)[j] = IF j < i THEN ws[j] ELSE ws[j + 1]
  <2> HIDE DEF a, b
  <2>1. j \in 1 .. Len(a) + Len(b)
    BY <1>0, <1>1, <1>2
  <2>2. CASE j < i
    BY <1>0, <1>1, <1>3, <2>1, <2>2
  <2>3. CASE ~(j < i)
    <3>1. ~(j <= Len(a)) /\ j - Len(a) \in 1 .. Len(ws) - i /\ i + (j - Len(a)) = j + 1
      BY <1>0, <1>1, <2>3
    <3>2. (a \o b)[j] = b[j - Len(a)]
      BY <1>3, <2>1, <3>1
    <3>3. b[j - Len(a)] = ws[i + (j - Len(a))]
      BY <1>2, <3>1
    <3>. QED
      BY <2>3, <3>1, <3>2, <3>3
  <2>. QED
    BY <2>2, <2>3
<1>. HIDE DEF a, b
<1>. QED
  BY <1>0, <1>1, <1>2, <1>3, <1>4, <1>5

\* FocusWindow: the window comes to the end of the list, which stays as long.
LEMMA FocusPutsLast ==
  ASSUME NEW ws, Layout(ws), NEW i \in 1 .. Len(ws)
  PROVE  /\ Layout(D!FocusWindow(ws, i))
         /\ Len(D!FocusWindow(ws, i)) = Len(ws)
         /\ D!FocusWindow(ws, i)[Len(ws)] = ws[i]
<1>1. PICK S : ws \in Seq(S)
  BY DEF Layout
<1>2. Len(ws) \in Nat /\ ws[i] \in S /\ i \in Nat
  BY <1>1, LenProperties, ElementOfSeq
<1>3. CASE i >= Len(ws)
  <2>1. i = Len(ws) /\ D!FocusWindow(ws, i) = ws
    BY <1>2, <1>3 DEF D!FocusWindow
  <2>. QED
    BY <2>1
<1>4. CASE ~(i >= Len(ws))
  <2>1. PICK r : /\ r = D!RemoveAt(ws, i)
                 /\ r \in Seq(S) /\ Len(r) = Len(ws) - 1
                 /\ \A j \in 1 .. Len(ws) - 1 : r[j] = IF j < i THEN ws[j] ELSE ws[j + 1]
    BY <1>1, RemoveShifts
  <2> DEFINE f == Append(r, ws[i])
  <2>2. D!FocusWindow(ws, i) = f
    BY <1>4, <2>1 DEF D!FocusWindow
  <2>3. /\ f \in Seq(S) /\ Len(f) = Len(r) + 1
        /\ \A j \in 1 .. Len(r) : f[j] = r[j]
        /\ f[Len(r) + 1] = ws[i]
    BY <1>2, <2>1, AppendProperties
  <2> HIDE DEF f
  <2>4. Len(f) = Len(ws) /\ f[Len(ws)] = ws[i]
    BY <1>2, <2>1, <2>3
  <2>5. ASSUME NEW j \in 1 .. Len(ws)
        PROVE  AWindow(f[j])
    <3>1. CASE j = Len(ws)
      BY <2>4, <3>1 DEF Layout
    <3>2. CASE j # Len(ws)
      <4>1. j \in 1 .. Len(r) /\ j \in 1 .. Len(ws) - 1 /\ j + 1 \in 1 .. Len(ws)
        BY <1>2, <2>1, <3>2
      <4>2. f[j] = ws[j] \/ f[j] = ws[j + 1]
        BY <2>1, <2>3, <4>1
      <4>. QED
        BY <4>1, <4>2 DEF Layout
    <3>. QED
      BY <3>1, <3>2
  <2>. QED
    BY <2>2, <2>3, <2>4, <2>5 DEF Layout
<1>. QED
  BY <1>3, <1>4

\* CloseWindow.
LEMMA CloseKeepsLayout ==
  ASSUME Screen, NEW ws, Layout(ws), NEW i \in 1 .. Len(ws)
  PROVE  Layout(D!CloseWindow(ws, i))
<1>1. PICK S : ws \in Seq(S)
  BY DEF Layout
<1>2. Len(ws) \in Nat /\ i \in Nat /\ ~(i > Len(ws))
  BY <1>1, LenProperties
<1> DEFINE r == D!RemoveAt(ws, i)
<1>3. /\ r \in Seq(S) /\ Len(r) = Len(ws) - 1
      /\ \A j \in 1 .. Len(ws) - 1 : r[j] = IF j < i THEN ws[j] ELSE ws[j + 1]
  BY <1>1, RemoveShifts
<1>4. D!CloseWindow(ws, i) = r
  BY <1>2 DEF D!CloseWindow
<1> HIDE DEF r
<1>5. ASSUME NEW j \in 1 .. Len(r)
      PROVE  AWindow(r[j])
  <2>1. j \in 1 .. Len(ws) - 1 /\ j \in 1 .. Len(ws) /\ j + 1 \in 1 .. Len(ws)
    BY <1>2, <1>3
  <2>2. r[j] = ws[j] \/ r[j] = ws[j + 1]
    BY <1>3, <2>1
  <2>. QED
    BY <2>1, <2>2 DEF Layout
<1>. QED
  BY <1>2, <1>3, <1>4, <1>5 DEF Layout, Screen

\* OpenWindow: a full list loses its first window.
LEMMA OpenKeepsLayout ==
  ASSUME Screen, NEW ws, Layout(ws), NEW title
  PROVE  Layout(D!OpenWindow(ws, title))
<1> DEFINE at(n) == D!ShellWindow(title, 320 + 28 * n, 140 + 28 * n, 560, 360)
<1>1. PICK S : ws \in Seq(S)
  BY DEF Layout
<1>2. Len(ws) \in Nat /\ Len(ws) <= MaxWindows /\ MaxWindows \in Nat /\ MaxWindows >= 5
  BY <1>1, LenProperties DEF Layout, Screen
<1>3. PICK kept : /\ kept = IF Len(ws) >= MaxWindows THEN Tail(ws) ELSE ws
                  /\ kept \in Seq(S) /\ Len(kept) \in Nat /\ Len(kept) < MaxWindows
                  /\ \A j \in 1 .. Len(kept) : AWindow(kept[j])
  <2>1. CASE Len(ws) >= MaxWindows
    <3>1. ws # <<>>
      BY <1>2, <2>1
    <3>2. /\ Tail(ws) \in Seq(S) /\ Len(Tail(ws)) = Len(ws) - 1
          /\ \A j \in 1 .. Len(Tail(ws)) : Tail(ws)[j] = ws[j + 1]
      BY <1>1, <3>1, HeadTailProperties
    <3>3. ASSUME NEW j \in 1 .. Len(Tail(ws))
          PROVE  AWindow(Tail(ws)[j])
      <4>1. j + 1 \in 1 .. Len(ws)
        BY <1>2, <3>2
      <4>. QED
        BY <3>2, <4>1 DEF Layout
    <3>4. Len(Tail(ws)) \in Nat /\ Len(Tail(ws)) < MaxWindows
      BY <1>2, <2>1, <3>2
    <3>. QED
      BY <2>1, <3>2, <3>3, <3>4
  <2>2. CASE ~(Len(ws) >= MaxWindows)
    BY <1>1, <1>2, <2>2 DEF Layout
  <2>. QED
    BY <2>1, <2>2
<1>4. PICK w : w = at(Len(kept)) /\ AWindow(w)
  <2>1. 320 + 28 * Len(kept) \in Nat /\ 140 + 28 * Len(kept) \in Nat
    BY <1>3
  <2>2. AWindow(at(Len(kept)))
    BY <2>1 DEF AWindow, D!ShellWindow
  <2>. QED
    BY <2>2
<1>5. D!OpenWindow(ws, title) = Append(kept, w)
  BY <1>3, <1>4 DEF D!OpenWindow
<1>6. kept \in Seq(S \cup {w}) /\ w \in S \cup {w}
  BY <1>3, SeqMonotonic
<1>7. /\ Append(kept, w) \in Seq(S \cup {w}) /\ Len(Append(kept, w)) = Len(kept) + 1
      /\ \A j \in 1 .. Len(kept) : Append(kept, w)[j] = kept[j]
      /\ Append(kept, w)[Len(kept) + 1] = w
  BY <1>6, AppendProperties
<1>8. ASSUME NEW j \in 1 .. Len(Append(kept, w))
      PROVE  AWindow(Append(kept, w)[j])
  BY <1>3, <1>4, <1>7
<1>9. Len(Append(kept, w)) <= MaxWindows
  BY <1>2, <1>3, <1>7
<1>. QED
  BY <1>5, <1>7, <1>8, <1>9 DEF Layout

\* What is hit: a window that is there, or a number that may stand for one.
LEMMA HitWindows ==
  ASSUME Screen, NEW ws, Layout(ws), NEW p, NEW menu, p[1] \in Int,
         NEW t, t = D!ResolveHitTarget(p, ws, menu)
  PROVE  /\ t[1] \in {"ShellWindow", "WindowClose"} => t[2] \in 1 .. Len(ws)
         /\ t[1] = "Taskbar" => t[2] \in Nat \ {0}
<1> DEFINE under == {i \in DOMAIN ws : D!OnWindow(p, ws[i])}
           icons == {i \in DOMAIN D!Icons : D!OnIcon(p, i)}
           F == D!Bar(ws).FirstButtonX
<1>1. DOMAIN ws = 1 .. Len(ws) /\ Len(ws) \in Nat
  BY LenProperties DEF Layout
<1>2. CASE t = D!HitTaskbar(p, ws)
  <2>1. F \in Int
    <3>1. Len(ws) \in Int /\ ScreenW \in Int
      BY <1>1 DEF Screen
    <3>. QED
      BY <3>1 DEF D!Bar, D!ComputeTaskbar, D!Slot, D!ButtonW
  <2>2. CASE t \in {<<"StartButton", 1>>, <<"Tray", 1>>, <<"Taskbar", 1>>}
    BY <2>2
  <2>3. CASE p[1] >= F /\ t = <<"Taskbar", (p[1] - F) \div D!Slot + 1>>
    <3>1. (p[1] - F) \div 50 + 1 \in Nat \ {0}
      BY <2>1, <2>3
    <3>. QED
      BY <2>3, <3>1 DEF D!Slot, D!ButtonW
  <2>. QED
    BY <1>2, <2>2, <2>3 DEF D!HitTaskbar
<1>3. CASE t = D!HitMenu(p, ws)
  BY <1>3 DEF D!HitMenu
<1>4. CASE /\ under # {}
           /\ t = <<IF D!OnClose(p, ws[D!Last1(under)]) THEN "WindowClose" ELSE "ShellWindow",
                    D!Last1(under)>>
  <2>1. D!Last1(under) \in under
    BY <1>1, <1>4, Last1IsMember, Zenon
  <2>. QED
    BY <1>1, <1>4, <2>1
<1>5. CASE t = <<"DesktopIcon", D!Last1(icons)>> \/ t = <<"Desktop", 1>>
  BY <1>5
<1>. QED
  BY <1>2, <1>3, <1>4, <1>5 DEF D!ResolveHitTarget

LEMMA FiveWindows ==
  ASSUME NEW a, NEW b, NEW c, NEW d, NEW e, NEW ws, ws = <<a, b, c, d, e>>,
         AWindow(a), AWindow(b), AWindow(c), AWindow(d), AWindow(e)
  PROVE  /\ ws \in Seq({a, b, c, d, e}) /\ Len(ws) = 5
         /\ \A i \in 1 .. Len(ws) : AWindow(ws[i])
<1>1. ws \in Seq({a, b, c, d, e}) /\ Len(ws) = 5
  OBVIOUS
<1>2. ws[1] = a /\ ws[2] = b /\ ws[3] = c /\ ws[4] = d /\ ws[5] = e
  OBVIOUS
<1>3. \A i \in 1 .. 5 : i = 1 \/ i = 2 \/ i = 3 \/ i = 4 \/ i = 5
  OBVIOUS
<1>. QED
  BY <1>1, <1>2, <1>3, Zenon

LEMMA InitDInv ==
  ASSUME Screen, D!Init
  PROVE  DInv
<1>1. Layout(windows)
  <2> DEFINE a == D!ShellWindow("My Computer", 228, 38, 665, 430)
             b == D!ShellWindow("Documents", 1015, 58, 620, 365)
             c == D!ShellWindow("Network", 645, 420, 575, 290)
             d == D!ShellWindow("Control Panel", 1238, 420, 600, 360)
             e == D!ShellWindow("Media Player", 430, 708, 720, 260)
  <2>1. windows = <<a, b, c, d, e>>
    BY Zenon DEF D!Init, D!BuildXpRedesignLayout
  <2>2. AWindow(a) /\ AWindow(b) /\ AWindow(c) /\ AWindow(d) /\ AWindow(e)
    BY DEF AWindow, D!ShellWindow
  <2> HIDE DEF a, b, c, d, e
  <2>3. /\ windows \in Seq({a, b, c, d, e}) /\ Len(windows) = 5
        /\ \A i \in 1 .. Len(windows) : AWindow(windows[i])
    BY <2>1, <2>2, FiveWindows
  <2>4. Len(windows) <= MaxWindows
    BY <2>3 DEF Screen
  <2>. QED
    BY <2>3, <2>4 DEF Layout
<1>2. /\ s_x = 1700 /\ s_y = 560 /\ packet = [left |-> FALSE, x |-> 0]
      /\ drag = D!NoDrag
  BY DEF D!Init
<1>. QED
  BY <1>1, <1>2 DEF DInv, D!DragHolds, D!NoDrag

\* A packet.
LEMMA ApplyDInv ==
  ASSUME Screen, DInv, NEW p \in Spot, NEW left, D!ApplyPacket(p, left)
  PROVE  DInv'
<1>1. p[1] \in Int /\ p[2] \in Int /\ ScreenW - 24 \in Int /\ ScreenH - 32 \in Int
  BY DEF Screen
<1>2. s_x' \in Int /\ s_y' \in Int
  BY <1>1 DEF D!ApplyPacket, D!Clamp
<1>3. UNCHANGED <<packet, windows, pointer, drag, dHeld>>
  BY DEF D!ApplyPacket
<1>. QED
  BY <1>2, <1>3 DEF DInv, D!DragHolds

LEMMA ReadDInv ==
  ASSUME DInv, D!TryRead \/ D!CurrentPosition
  PROVE  DInv'
<1>1. UNCHANGED <<s_x, s_y, windows, pointer, drag, dHeld>>
  BY DEF D!TryRead, D!CurrentPosition, D!mouse
<1>2. packet'.x \in Int /\ packet' = [left |-> packet'.left, x |-> packet'.x]
  BY DEF DInv, D!TryRead, D!CurrentPosition
<1>. QED
  BY <1>1, <1>2 DEF DInv, D!DragHolds

\* A drag moves one window, and no other.
LEMMA DragDInv ==
  ASSUME DInv, D!Drag
  PROVE  DInv'
<1>1. /\ UNCHANGED <<s_x, s_y, packet>>
      /\ pointer'.at = <<packet.x, s_y>>
      /\ drag.on
  BY DEF D!Drag, D!ProcessPointer, D!mouse
<1>2. CASE ~(packet.left /\ drag.win <= Len(windows))
  <2>1. ~drag'.on /\ drag'.dx \in Int /\ drag'.dy \in Int /\ windows' = windows
    BY <1>2 DEF D!Drag, D!NoDrag
  <2>. QED
    BY <1>1, <2>1 DEF DInv, D!DragHolds
<1>3. CASE packet.left /\ drag.win <= Len(windows)
  <2>1. PICK S : windows \in Seq(S)
    BY DEF DInv, Layout
  <2>2. PICK i : i = drag.win /\ i \in 1 .. Len(windows)
    BY <1>1, <2>1, LenProperties DEF DInv, D!DragHolds
  <2>3. PICK x, y \in Nat : x = D!AtLeast0(packet.x - drag.dx) /\ y = D!AtLeast0(s_y - drag.dy)
    <3>1. packet.x - drag.dx \in Int /\ s_y - drag.dy \in Int
      BY DEF DInv
    <3>. QED
      BY <3>1 DEF D!AtLeast0
  <2>4. PICK w : w = [windows[i] EXCEPT !.X = x, !.Y = y]
    OBVIOUS
  <2>5. windows' = [windows EXCEPT ![i] = w] /\ UNCHANGED <<drag, dHeld>>
    BY <1>3, <2>2, <2>3, <2>4 DEF D!Drag
  <2>6. AWindow(w) /\ w.X = x /\ w.Y = y /\ w.Title = windows[i].Title
    BY <2>4 DEF AWindow
  <2>7. /\ windows' \in Seq(S \cup {w}) /\ Len(windows') = Len(windows)
        /\ \A j \in 1 .. Len(windows) : windows'[j] = IF j = i THEN w ELSE windows[j]
    <3>1. windows \in Seq(S \cup {w}) /\ w \in S \cup {w}
      BY <2>1, SeqMonotonic
    <3>. QED
      BY <2>1, <2>2, <2>5, <3>1, ExceptSeq
  <2>8. Layout(windows')
    BY <2>6, <2>7 DEF DInv, Layout
  <2>9. D!DragHolds'
    <3>1. DOMAIN windows' = 1 .. Len(windows')
      BY <2>7, LenProperties
    <3>2. windows'[i] = w /\ w.Title = dHeld
      BY <1>1, <2>2, <2>6, <2>7 DEF DInv, D!DragHolds
    <3>. QED
      BY <1>1, <2>2, <2>3, <2>5, <2>6, <2>7, <3>1, <3>2 DEF D!DragHolds
  <2>. QED
    BY <1>1, <2>5, <2>8, <2>9 DEF DInv
<1>. QED
  BY <1>2, <1>3

\* A press takes hold of the window under the pointer, which has come to the top.
LEMMA GrabDInv ==
  ASSUME Screen, DInv, D!Grab
  PROVE  DInv'
<1>1. /\ UNCHANGED <<s_x, s_y, packet>>
      /\ pointer'.at = <<packet.x, s_y>>
      /\ D!OnTitle(pointer'.target, s_y)
      /\ pointer'.target = D!ResolveHitTarget(<<packet.x, s_y>>, windows, menuOpen)
  BY DEF D!Grab, D!Pressed, D!ProcessPointer, D!mouse
<1>2. PICK i : i = pointer'.target[2] /\ i \in 1 .. Len(windows)
  <2>1. <<packet.x, s_y>>[1] \in Int
    BY DEF DInv
  <2>2. pointer'.target[1] = "ShellWindow"
    BY <1>1 DEF D!OnTitle
  <2>. QED
    BY <1>1, <2>1, <2>2, HitWindows DEF DInv
<1>3. /\ windows' = D!FocusWindow(windows, i) /\ dHeld' = windows[i].Title
      /\ drag' = [on |-> TRUE, win |-> Len(windows), dx |-> packet.x - D!Last(windows').X,
                  dy |-> s_y - D!Last(windows').Y]
  BY <1>2 DEF D!Grab
<1>4. /\ Layout(windows') /\ Len(windows') = Len(windows)
      /\ windows'[Len(windows)] = windows[i]
  BY <1>2, <1>3, FocusPutsLast DEF DInv
<1>5. PICK w : w = windows[i] /\ w = D!Last(windows') /\ w.X \in Nat /\ w.Y \in Nat
  BY <1>2, <1>4 DEF DInv, Layout, AWindow, D!Last
<1>6. D!AtLeast0(packet.x - (packet.x - w.X)) = w.X /\ D!AtLeast0(s_y - (s_y - w.Y)) = w.Y
  <2>1. packet.x \in Int /\ s_y \in Int
    BY DEF DInv
  <2>. QED
    BY <1>5, <2>1 DEF D!AtLeast0
<1>7. D!DragHolds'
  <2>1. Len(windows) \in DOMAIN windows'
    <3>1. Len(windows) \in 1 .. Len(windows) /\ DOMAIN windows' = 1 .. Len(windows')
      BY <1>2, <1>4, LenProperties DEF Layout
    <3>. QED
      BY <1>4, <3>1
  <2>2. /\ drag'.win = Len(windows) /\ drag'.dx = packet.x - w.X /\ drag'.dy = s_y - w.Y
    BY <1>3, <1>5
  <2>. QED
    BY <1>1, <1>3, <1>4, <1>5, <1>6, <2>1, <2>2 DEF D!DragHolds
<1>8. drag'.dx \in Int /\ drag'.dy \in Int
  BY <1>3, <1>5 DEF DInv
<1>. QED
  BY <1>1, <1>4, <1>7, <1>8 DEF DInv

\* A click opens, closes and raises windows while nothing is dragged.
LEMMA ClickDInv ==
  ASSUME Screen, DInv, D!Click
  PROVE  DInv'
<1>1. /\ UNCHANGED <<s_x, s_y, packet, drag>>
      /\ ~drag.on
  BY DEF D!Click, D!ProcessPointer, D!mouse
<1>2. PICK t : /\ t = pointer'.target
               /\ t = D!ResolveHitTarget(<<packet.x, s_y>>, windows, menuOpen)
  BY DEF D!Click, D!ProcessPointer
<1>3. /\ t[1] \in {"ShellWindow", "WindowClose"} => t[2] \in 1 .. Len(windows)
      /\ t[1] = "Taskbar" => t[2] \in Nat \ {0}
  <2>1. <<packet.x, s_y>>[1] \in Int
    BY DEF DInv
  <2>. QED
    BY <1>2, <2>1, HitWindows DEF DInv
<1>4. Layout(windows')
  <2>1. CASE windows' = windows
    BY <2>1 DEF DInv
  <2>2. CASE \E title : windows' = D!OpenWindow(windows, title)
    BY <2>2, OpenKeepsLayout DEF DInv
  <2>3. CASE t[1] = "WindowClose" /\ windows' = D!CloseWindow(windows, t[2])
    BY <1>3, <2>3, CloseKeepsLayout DEF DInv
  <2>4. CASE t[1] \in {"ShellWindow", "Taskbar"} /\ windows' = D!FocusWindow(windows, t[2])
    <3>1. CASE t[2] \in 1 .. Len(windows)
      BY <2>4, <3>1, FocusPutsLast DEF DInv
    <3>2. CASE t[2] \notin 1 .. Len(windows)
      <4>1. Len(windows) \in Nat
        BY LenProperties DEF DInv, Layout
      <4>2. t[2] >= Len(windows)
        BY <1>3, <2>4, <3>2, <4>1
      <4>. QED
        BY <2>4, <4>2 DEF D!FocusWindow, DInv
    <3>. QED
      BY <3>1, <3>2
  <2>. QED
    BY <1>2, <2>1, <2>2, <2>3, <2>4 DEF D!Click, D!HandleShellClick
<1>. QED
  BY <1>1, <1>4 DEF DInv, D!DragHolds

LEMMA NextDInv ==
  ASSUME Screen, DInv, [D!Next]_(D!vars)
  PROVE  DInv'
<1>1. CASE UNCHANGED D!vars
  BY <1>1 DEF DInv, D!DragHolds, D!vars, D!mouse
<1>. QED
  BY <1>1, ApplyDInv, ReadDInv, DragDInv, GrabDInv, ClickDInv DEF D!Next

\* PumpInteractiveInput: once a title bar has been pressed, and until the button is up,
\* what moves is the window that was pressed, by as much as the pointer, whatever packets
\* come and whatever windows were opened, closed and raised before.
THEOREM DragFollows ==
  ASSUME Screen
  PROVE  D!Spec => []DragHolds
<1>1. D!Init => DInv
  BY InitDInv
<1>2. DInv /\ [D!Next]_(D!vars) => DInv'
  BY NextDInv
<1>3. DInv => DragHolds
  BY DEF DInv, DragHolds
<1>. QED
  BY <1>1, <1>2, <1>3, PTL DEF D!Spec

\* As wide as it takes for the buttons, which are centred, to end before the tray.
WideScreen == ScreenW >= 444 + 50 * MaxWindows

LEMMA HalfOf ==
  ASSUME NEW w \in Int, NEW c \in Int, c < w
  PROVE  /\ (w - c) \div 2 \in Int
         /\ 2 * ((w - c) \div 2) <= w - c
OBVIOUS

\* Where the buttons begin and end.
LEMMA ButtonsFit ==
  ASSUME Screen, WideScreen, NEW ws, Layout(ws), NEW b, b = D!Bar(ws)
  PROVE  /\ Len(ws) \in Nat
         /\ b.StartX \in Int /\ b.TrayX \in Int
         /\ b.FirstButtonX = b.StartX + 50
         /\ b.StartX + 50 * Len(ws) + 44 <= b.TrayX
<1>1. PICK n \in Nat : n = Len(ws) /\ n <= MaxWindows
  BY LenProperties DEF Layout
<1>2. PICK c \in Nat : c = (n + 1) * 44 + n * 6 /\ c = 50 * n + 44
  OBVIOUS
<1>3. ScreenW \in Nat /\ ScreenW >= 444 + 50 * n /\ ScreenW >= 640 /\ ScreenW > c
  <2>1. ScreenW \in Nat /\ MaxWindows \in Nat /\ MaxWindows >= 5 /\ ScreenW >= 444 + 50 * MaxWindows
    BY DEF Screen, WideScreen
  <2>. QED
    BY <1>1, <1>2, <2>1
<1>4. PICK x \in Int : x = (ScreenW - c) \div 2 /\ 2 * x <= ScreenW - c
  BY <1>2, <1>3, HalfOf
<1>5. b.StartX = x /\ b.FirstButtonX = x + 50 /\ b.TrayX = ScreenW - 200
  BY <1>1, <1>2, <1>3, <1>4 DEF D!Bar, D!ComputeTaskbar, D!Slot, D!ButtonW
<1>6. x + 50 * n + 44 <= ScreenW - 200
  BY <1>2, <1>3, <1>4
<1>. QED
  BY <1>1, <1>3, <1>5, <1>6

\* A button of 44 in a slot of 50 is found by division.
LEMMA SlotOf ==
  ASSUME NEW d \in Int, NEW i \in Nat, i > 0, 50 * (i - 1) <= d, d < 50 * (i - 1) + 44
  PROVE  d \div 50 + 1 = i
<1>1. PICK q \in Int : q = i - 1
  OBVIOUS
<1>2. 50 * q <= d /\ d < 50 * q + 44
  BY <1>1
<1>3. d \div 50 = q
  BY <1>2
<1>. QED
  BY <1>1, <1>3

\* It is on the bar, right of the Start button and left of the tray.
Before(x, n, tray) ==
  x \in Int /\ n \in Nat /\ tray \in Int /\ x + 50 * n + 44 <= tray

OnButton(at, x, i, n) ==
  at \in Int /\ i \in 1 .. n /\ at - (x + 50) >= 50 * (i - 1) /\ at - (x + 50) < 50 * (i - 1) + 44

InBar(at, x, n, tray) ==
  ~(at < x + 44) /\ ~(at >= tray) /\ at >= x + 50 /\ at < x + 50 + n * 50

LEMMA ButtonsInBar ==
  ASSUME NEW x, NEW n, NEW tray, NEW i, NEW at, Before(x, n, tray), OnButton(at, x, i, n)
  PROVE  InBar(at, x, n, tray)
<1>1. PICK e \in Int : e = 50 * (i - 1)
  BY DEF OnButton
<1>2. e >= 0 /\ e + 50 <= 50 * n
  BY <1>1 DEF OnButton, Before
<1>3. at >= e + x + 50 /\ at < e + x + 94
  BY <1>1 DEF OnButton, Before
<1>. QED
  BY <1>2, <1>3 DEF OnButton, Before, InBar

\* The bar's hit test finds what its painting shows.
LEMMA BarAgrees ==
  ASSUME Screen, WideScreen, NEW ws, Layout(ws), NEW p, p[1] \in Int,
         D!PaintedBar(p, ws)[1] \in {"StartButton", "Taskbar"}
  PROVE  D!HitTaskbar(p, ws) = D!PaintedBar(p, ws)
<1>1. PICK b : b = D!Bar(ws)
  OBVIOUS
<1>2. PICK n \in Nat, x \in Int, tray \in Int :
        /\ n = Len(ws) /\ x = b.StartX /\ tray = b.TrayX /\ b.FirstButtonX = x + 50
        /\ x + 50 * n + 44 <= tray
  BY <1>1, ButtonsFit
<1> DEFINE buttons == {i \in DOMAIN ws : LET bx == b.FirstButtonX + (i - 1) * D!Slot IN
                                         p[1] >= bx /\ p[1] < bx + D!ButtonW}
<1>3. DOMAIN ws = 1 .. n
  BY <1>2, LenProperties DEF Layout
<1>4. CASE buttons = {}
  <2>1. p[1] >= x /\ p[1] < x + 44 /\ D!PaintedBar(p, ws) = <<"StartButton", 1>>
    BY <1>1, <1>2, <1>4 DEF D!PaintedBar, D!ButtonW
  <2>. QED
    BY <1>1, <1>2, <2>1 DEF D!HitTaskbar, D!ButtonW
<1>5. CASE buttons # {}
  <2>1. PICK i : i = D!Last1(buttons) /\ i \in buttons /\ i \in 1 .. n
    BY <1>3, <1>5, Last1IsMember
  <2>2. D!PaintedBar(p, ws) = <<"Taskbar", i>>
    BY <1>1, <1>5, <2>1 DEF D!PaintedBar
  <2>3. p[1] >= x + 50 + (i - 1) * 50 /\ p[1] < x + 50 + (i - 1) * 50 + 44
    BY <1>2, <2>1 DEF D!Slot, D!ButtonW
  <2>4. PICK d \in Int : d = p[1] - (x + 50)
    OBVIOUS
  <2>5. i \in Nat /\ i > 0 /\ 50 * (i - 1) <= d /\ d < 50 * (i - 1) + 44
    BY <2>1, <2>3, <2>4
  <2>6. d \div 50 + 1 = i
    BY <2>5, SlotOf
  <2>7. PICK at \in Int : at = p[1]
    OBVIOUS
  <2>8. InBar(at, x, n, tray)
    <3>1. OnButton(at, x, i, n)
      BY <2>1, <2>4, <2>5, <2>7 DEF OnButton
    <3>2. Before(x, n, tray)
      BY <1>2 DEF Before
    <3>. QED
      BY <3>1, <3>2, ButtonsInBar
  <2>. QED
    BY <1>1, <1>2, <2>2, <2>4, <2>6, <2>7, <2>8 DEF InBar, D!HitTaskbar, D!Slot, D!ButtonW
<1>. QED
  BY <1>4, <1>5

\* desktopmodel.h: on a screen wide enough for the layout's windows, the Start button and
\* the buttons of the taskbar answer where StartDesktop paints them, at any point.
THEOREM TaskbarAnswers ==
  ASSUME Screen, WideScreen, Probe \subseteq Nat \X Nat
  PROVE  D!Spec => []TaskbarAgrees
<1>1. D!Init => DInv
  BY InitDInv
<1>2. DInv /\ [D!Next]_(D!vars) => DInv'
  BY NextDInv
<1>3. DInv => TaskbarAgrees
  <2>. SUFFICES ASSUME DInv, NEW p \in Probe, p[2] >= D!Bar(windows).Y,
                       NEW shown, shown = D!StartDesktop(p, windows, menuOpen),
                       shown[1] \in {"StartButton", "Taskbar"}
                PROVE  D!ResolveHitTarget(p, windows, menuOpen) = shown
    BY DEF TaskbarAgrees, D!TaskbarAgrees
  <2>1. shown = D!PaintedBar(p, windows)
    BY DEF D!StartDesktop
  <2>2. D!ResolveHitTarget(p, windows, menuOpen) = D!HitTaskbar(p, windows)
    BY DEF D!ResolveHitTarget
  <2>3. p[1] \in Int
    OBVIOUS
  <2>. QED
    BY <2>1, <2>2, <2>3, BarAgrees DEF DInv
<1>. QED
  BY <1>1, <1>2, <1>3, PTL DEF D!Spec
=============================================================================
