CONSTANTS
  TypeBytes = 2
  SizeBytes = 2
  BodySizes = {0, 3, 5, 8, 9}
  WORD = 8
  Buffer = 5
  MaxCalls = 3
SPECIFICATION Spec
INVARIANTS NeverGarbled AnswersMatchCalls
PROPERTIES CallsReturn WorkerReleased
CHECK_DEADLOCK FALSE
