\* Two threads; the second one lists the directory and uses the pipe.
SPECIFICATION Spec
CONSTANTS
  x = x
  y = y
  long = long
  Thread = {a, b}
  Name = {x, y}
  BootFile = {}
  Kept <- Whole
  Byte = {p}
  Junk = junk
  Nodes = 2
  Pipes = 1
  Room <- Rooms
  Chunk = 2
  Lister = {b}
  Saver = {a}
  Piper = {b}
  Killed = {}
  Exclusive = TRUE
  Calls = 5
  None = None
PROPERTIES PipeReadKeepsData
SYMMETRY Symmetry
CHECK_DEADLOCK FALSE
