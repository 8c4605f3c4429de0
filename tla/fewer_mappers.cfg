SPECIFICATION Spec
CONSTANTS
  nr_mapper = 1
  nr_reducer = 2
  MapResults = {"ok"}
  ReduceResults = {"ok"}
  MaxKills = 0
  MaxLeaves = 0
  KillPoints = {"sleep"}
  LongSleep = TRUE
  ReadErrors = FALSE
PROPERTIES
  Termination
\* process() returns, or waits for ever for a server that is gone.
CHECK_DEADLOCK FALSE
