SPECIFICATION SafeSpec
CONSTANTS
  nr_mapper = 2
  nr_reducer = 2
  MapResults = {"ok", "error", "throw"}
  ReduceResults = {"ok", "error", "throw"}
  MaxKills = 1
  MaxLeaves = 1
  KillPoints = {"spawn", "startupSleep", "connect", "call", "sleep", "check", "await", "restartSleep", "recall", "stop"}
  LongSleep = FALSE
  ReadErrors = TRUE
INVARIANTS
  NoForgottenTask
  HeartbeatIsServed
  StopIsDelivered
PROPERTIES
  FreshTaskCall
  TempFrozenInReduce
  OneServerPerPort
\* process() returns, or waits for ever for a server that is gone.
CHECK_DEADLOCK FALSE
