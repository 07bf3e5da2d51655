\* The shell and two more processes; a memory of eleven pages, with a firmware that
\* allocates and frees; one reader and six keys on a screen of four by four; four
\* packets of the mouse.
SPECIFICATION UseSpec
CONSTANTS
  Programs <- Apart
  Dlls <- Blobs
  NPROCS = 3
  Starts <- Fitting
  MAX_MODULES = 4
  MaxReg = 2
  Pages = 15
  HeapBase = 10
  HeapMax = 11
  StackOff = 3
  Top = 10
  Fixed = {0, 10}
  Linked = {1, 2}
  Firmware = {9}
  Pool = {3, 4, 5, 6, 7, 8}
  Dir <- Entries
  FILES_MAX = 1
  Slack = 4
  Attempts = 3
  Below4G = {0, 1, 2, 3, 4, 5, 6, 7, 8, 9, 10}
  FlagAtEntry = {FALSE}
  shell = shell
  Reader = {shell}
  Code <- Typed
  Keys = 6
  RING = 3
  Cols = 4
  Rows = 4
  Indent = 1
  MaxLine = 2
  HIST_N = 2
  HIST_MAX = 3
  Commands <- Known
  Handled <- Done
  Texts = {"text"}
  Spot <- Spots
  Probe <- Probes
  Packets = 4
  MaxWindows = 6
  MouseRing = 3
  ScreenW = 1920
  ScreenH = 1080
INVARIANTS HandOff InterruptsServed KeysOnce HistoryNewest DragHolds TaskbarAgrees RunsWhole
CHECK_DEADLOCK FALSE
