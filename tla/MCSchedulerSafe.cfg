\* Three workers, sleeps longer than one tick, any priorities.
SPECIFICATION Spec
CONSTANTS
  Main = Main
  NULL = NULL
  Thread = {Main, a, b, c}
  Quantum = 2
  SleepTicks = {2, 3}
  PriorityChoices = {0, 2}
SYMMETRY WorkerSymmetry
INVARIANTS LinksMatch NoThreadLost SleepListSound
PROPERTIES ImplementsDispatcher
CHECK_DEADLOCK TRUE
