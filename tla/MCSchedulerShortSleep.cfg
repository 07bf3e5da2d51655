\* The kernel's own callers sleep for 10 ms: one tick.
SPECIFICATION Spec
CONSTANTS
  Main = Main
  NULL = NULL
  Thread = {Main, a, b}
  Quantum = 5
  SleepTicks = {1}
  PriorityChoices = {}
INVARIANTS CurrentNotQueued
