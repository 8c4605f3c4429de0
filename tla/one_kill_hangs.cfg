SPECIFICATION Spec
CONSTANTS
  nr_mapper = 2
  nr_reducer = 2
  MapResults = {"ok"}
  ReduceResults = {"ok"}
  MaxKills = 1
  MaxLeaves = 0
  KillPoints = {"check", "await"}
  LongSleep = TRUE
  ReadErrors = FALSE
PROPERTIES
  Termination
\* process() returns, or waits for ever for a server that is gone.
CHECK_DEADLOCK FALSE
