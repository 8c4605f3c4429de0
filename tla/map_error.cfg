SPECIFICATION SafeSpec
CONSTANTS
  nr_mapper = 2
  nr_reducer = 2
  MapResults = {"ok", "error"}
  ReduceResults = {"ok"}
  MaxKills = 0
  MaxLeaves = 0
  KillPoints = {"sleep"}
  LongSleep = TRUE
  ReadErrors = FALSE
INVARIANTS
  ReturnedComplete
\* process() returns, or waits for ever for a server that is gone.
CHECK_DEADLOCK FALSE
