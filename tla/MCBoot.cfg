\* Up to three user spaces, which share a page of data, and too few pages for all
\* the tables; three workers; all self-tests; the whole start of the session.
SPECIFICATION BootSpec
CONSTANTS
  Thread = {a}
  Pages = 15
  Fan = 2
  Low = 1
  UserVa <- Mapped
  KernelVa <- Kva
  KuserVa <- Kuser
  Frame = {f}
  KuserFrame = KuserFrame
  MaxSpaces = 3
  NULL = NULL
  Preemptible = FALSE
  Main = Main
  w1 = w1
  w2 = w2
  w3 = w3
INVARIANTS TablesPrivate  SessionComesUp
PROPERTIES ImplementsAddressSpaces SleeperReturns RoundRobin 
CHECK_DEADLOCK FALSE
