----------------------------- MODULE MCObjects ------------------------------
(* What programs hold handles to, for TLC.  One of the tables at a time is  *)
(* examined: the `kind` of handle in use; the others stay as they begin.    *)
EXTENDS Objects, TLC

CONSTANTS
  System, App, t1, t2, t3, t4, \* processes and threads
  x, xLong                     \* a long path whose beginning is the name "x"

Whole == [n \in Name |-> n]

Rooms == [file |-> 2, pipe |-> 1]

CutX == xLong :> x

OwnerOf == [t \in AnyThread |-> IF t \in {Main, t1} THEN System ELSE App]

VARIABLE kind

oVars == <<header, handles, namespace, held>>

pVars == <<current, state, ready, born, registry, count, exited, waiters, WaitNext, waitsFor,
           local, killed>>

ASSUME TablesAssumption == FilesAssumption /\ P!ProcessesAssumption

ObjectsInit ==
  /\ kind \in {"object", "file", "process"}
  /\ Init /\ O!Init /\ P!Init
  /\ kind # "process" => registry = <<t1, t2, t3>>

ObjectsNext ==
  /\ UNCHANGED kind
  /\ \/ kind = "object" /\ O!Next /\ UNCHANGED <<vars, pVars>>
     \/ kind = "file" /\ Next /\ UNCHANGED <<oVars, pVars>>
     \/ kind = "process" /\ P!Next /\ UNCHANGED <<vars, oVars>>

ObjectsSpec == ObjectsInit /\ [][ObjectsNext]_<<kind, vars, oVars, pVars>>

\* Objects and the names of files are interchangeable.
ObjectsSymmetry == Permutations(Object) \cup Permutations(Name)
=============================================================================
