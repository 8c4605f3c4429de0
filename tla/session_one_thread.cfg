SPECIFICATION Spec
CONSTANTS
  Threads = 1
  MaxCalls = 4
INVARIANTS
  TypeOK
  UsersHaveSession
  OnlyErrorsForget
PROPERTY
  SessionReleased
\* The client asks nothing more and stays, or has left.
CHECK_DEADLOCK FALSE
