\* Three objects and two names; two files, one thread that lists the directory and
\* uses the pipe, and one that saves and may be dropped in the middle of any call; a
\* program of three threads, which a thread of the System process waits for and kills.
SPECIFICATION ObjectsSpec
CONSTANTS
  x = x
  xLong = xLong
  Object = {a, b, c}
  Type = {T, U}
  ObjectName = {x, y}
  LongPath = {xLong}
  Cut <- CutX
  Handles = 2
  Entries = 1
  MaxRefs = 2
  NULL = NULL
  Careful = TRUE
  Thread = {t1, t2}
  Name = {fx, fy}
  BootFile = {}
  Kept <- Whole
  Byte = {p1}
  Junk = junk
  Nodes = 2
  Pipes = 1
  Room <- Rooms
  Chunk = 2
  Lister = {t2}
  Saver = {t1}
  Piper = {t2}
  Killed = {t1}
  Exclusive = TRUE
  Calls = 5
  None = NoOne
  Main = Main
  System = System
  App = App
  t1 = t1
  t2 = t2
  t3 = t3
  t4 = t4
  AnyThread = {Main, t1, t2, t3, t4}
  Process = {System, App}
  Owner <- OwnerOf
  Started = {Main, t1, t2, t3}
  Waiters = {t1, t3}
  Waitable = {App}
  Enders = {t2, t3, t4}
  Creators = {t2}
  Killers = {t1}
  Targets = {App}
  RegSize = 3
  CountModulus = 8
SYMMETRY ObjectsSymmetry
INVARIANTS RefsAccounted NamesOfLiving OneNodePerName SavedSurvives DataWhole  ExitedMeansEnded
PROPERTIES NamesKept
CHECK_DEADLOCK FALSE
