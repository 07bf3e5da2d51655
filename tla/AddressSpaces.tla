--------------------------- MODULE AddressSpaces ----------------------------
(***************************************************************************)
(* What virtual memory promises, without page tables: every address space  *)
(* maps addresses to pages.  The addresses of the kernel mean the same in  *)
(* all of them, and are settled before the first user space exists; any    *)
(* other mapping is made, changed or removed in one space at a time.       *)
(***************************************************************************)
CONSTANTS
  Space,      \* the possible address spaces
  Va,         \* the virtual addresses
  SharedVa,   \* those that belong to the kernel
  Kernel,     \* the kernel's own space
  NULL,       \* an address that is not mapped
  Boot        \* the mappings that the kernel starts with

VARIABLES
  spaces,     \* the spaces that exist
  mapping     \* space -> address -> the page there and its protection

avars == <<spaces, mapping>>

AInit ==
  /\ spaces = {Kernel}
  /\ mapping = [s \in spaces |-> Boot]

CreateSpace(s) ==
  /\ s \notin spaces
  /\ spaces' = spaces \cup {s}
  /\ mapping' = [r \in spaces' |->
       IF r \in spaces THEN mapping[r]
       ELSE [va \in Va |-> IF va \in SharedVa THEN mapping[Kernel][va] ELSE NULL]]

\* Another page, another protection, or none.
Change(s, va) ==
  /\ va \in SharedVa => spaces = {Kernel}
  /\ mapping' = [mapping EXCEPT ![s][va] = mapping'[s][va]]
  /\ UNCHANGED spaces

ANext ==
  \/ \E s \in Space : CreateSpace(s)
  \/ \E s \in spaces, va \in Va : Change(s, va)

ASpec == AInit /\ [][ANext]_avars
=============================================================================
