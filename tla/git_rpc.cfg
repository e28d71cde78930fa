SPECIFICATION Spec
CONSTANTS
  MaxCalls = 2
  None = none
  MaxConns = 2
  MaxActive = 1
  DiffLines = 3
  PageLines = 2
INVARIANTS AnswerIsOwnOutcome PagesMeet
CHECK_DEADLOCK FALSE
PROPERTIES EverySlotFreed ButtonsReleased
