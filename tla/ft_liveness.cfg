SPECIFICATION Spec
CONSTANTS
  nr_mapper = 2
  nr_reducer = 2
  MapResults = {"ok"}
  ReduceResults = {"ok"}
  MaxKills = 2
  MaxLeaves = 0
  KillPoints = {"sleep"}
  LongSleep = TRUE
  ReadErrors = FALSE
INVARIANTS
  ConnectionIsMade
PROPERTIES
  Termination
  ServersStop
\* process() returns, or waits for ever for a server that is gone.
CHECK_DEADLOCK FALSE
