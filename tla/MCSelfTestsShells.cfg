SPECIFICATION Spec
CONSTANTS
  OnDisk <- AllOnDisk
  Slow <- Everything
INVARIANTS TestShellsGone
CHECK_DEADLOCK FALSE
