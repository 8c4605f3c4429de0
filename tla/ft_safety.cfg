SPECIFICATION SafeSpec
CONSTANTS
  nr_mapper = 2
  nr_reducer = 2
  MapResults = {"ok"}
  ReduceResults = {"ok"}
  MaxKills = 2
  MaxLeaves = 1
  KillPoints = {"spawn", "startupSleep", "connect", "call", "sleep", "check", "await", "restartSleep", "recall", "stop"}
  LongSleep = FALSE
  ReadErrors = TRUE
INVARIANTS
  TypeOK
  ReduceInputsComplete
  RecordedTaskIsOnDisk
  ReturnedComplete
PROPERTY
  ImplementsJob
\* process() returns, or waits for ever for a server that is gone.
CHECK_DEADLOCK FALSE
