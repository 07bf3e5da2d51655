\* Two callers whose calls do not preempt each other, six pages to give out;
\* three threads in two processes, one of which raises exceptions.
SPECIFICATION MachineSpec
CONSTANTS
  Caller = {c1, c2}
  MaxPages = 8
  MemoryMap <- Memory
  Reserved = {0, 1}
  Runs = {2}
  StackPages = 2
  Preemptible = FALSE
  t1 = t1
  t2 = t2
  t3 = t3
  A = A
  B = B
  Thread = {t1, t2, t3}
  Space = {A, B}
  ProcessOf <- Processes
  Raisers = {t1}
  Place = {p, q}
  NULL = NULL
INVARIANTS OneOwner NoFreePageBelowHint KernelStackPrivate ResumesWhereItLeft
PROPERTIES TicksKeepComing
CHECK_DEADLOCK FALSE
