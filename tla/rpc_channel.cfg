SPECIFICATION Spec
CONSTANTS
  MaxCalls = 5
  MaxSpurious = 2
  MayDie = TRUE
INVARIANTS
  TypeOK
  OneWriteAtATime
  AnswerIsOwn
  AnswerFindsItsCall
PROPERTIES
  ImplementsService
  PollAnswered
\* The caller makes no more calls, or waits for a server that is gone.
CHECK_DEADLOCK FALSE
