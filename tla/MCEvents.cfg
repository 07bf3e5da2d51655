\* An auto-reset and a manual-reset event, three workers, under fairness.
SPECIFICATION FairSpec
CONSTANTS
  Main = Main
  NULL = NULL
  Thread = {Main, a, b, c}
  Event = {e, m}
  AutoReset = {e}
  Timeouts = {"zero", "infinite"}
  MaxSets = 3
INVARIANTS OneWaitPerSet NoWaiterMissesSignal WaitersKept
PROPERTIES ReleasedReturns
CHECK_DEADLOCK FALSE
