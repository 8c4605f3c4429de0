SPECIFICATION Spec
CONSTANTS
  Threads = 2
  MaxCalls = 1
INVARIANT
  UsersHaveSession
CHECK_DEADLOCK FALSE
