----------------------------- MODULE MCMachine ------------------------------
(* The physical pages and the entry to the kernel for TLC.  They share      *)
(* nothing, so one of them at a time is examined: the one the machine is    *)
(* `at`; the other stays as it begins.                                      *)
EXTENDS Machine, TLC

CONSTANTS t1, t2, t3, A, B

\* A memory of eight pages, of which six can be given out, in two regions.
Memory ==
  {[free |-> TRUE, base |-> 0, end |-> 4],
   [free |-> FALSE, base |-> 4, end |-> 5],
   [free |-> TRUE, base |-> 5, end |-> MaxPages]}

\* Three threads in two processes.
Processes == t1 :> A @@ t2 :> A @@ t3 :> B

VARIABLE at

kVars == <<current, pc, user, on, stack, iflag, inService, rsp0, scratch, space, gs,
           handler, pending, due>>

MachineInit ==
  /\ at \in {"pages", "entry"}
  /\ Init /\ K!Init
  /\ at # "entry" => current = t1 /\ user[t1].ip = CHOOSE q \in Place : TRUE

MachineNext ==
  /\ UNCHANGED at
  /\ \/ at = "pages" /\ Next /\ UNCHANGED kVars
     \/ at = "entry" /\ K!Next /\ UNCHANGED vars

MachineSpec ==
  /\ MachineInit /\ [][MachineNext]_<<at, vars, kVars>>
  /\ WF_kVars(at = "entry" /\ K!Kernel)
  /\ SF_kVars(at = "entry" /\ K!Interrupt)

\* Timer interrupts keep coming: none is left unacknowledged or masked.
TicksKeepComing == at = "entry" => K!TicksKeepComing
=============================================================================
