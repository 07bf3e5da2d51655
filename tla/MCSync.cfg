\* One mutant, three workers that always release it in the end, unless they end;
\* one semaphore, of which two threads release one or two units at a time.
SPECIFICATION SyncSpec
CONSTANTS
  Main = Main
  NULL = NULL
  Thread = {Main, a, b, c}
  Mortal = {a, b}
  Mutant = {m}
  MaxDepth = 2
  Releasers = {a, b}
  Amounts = {1, 2}
  MaxCount = 2
  MaxUnits = 4
INVARIANTS MutualExclusion DepthOwed UnitsConserved NoWaiterWithUnits
PROPERTIES WaiterServed
CHECK_DEADLOCK FALSE
