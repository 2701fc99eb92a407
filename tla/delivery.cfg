SPECIFICATION Spec
CONSTANTS
  QueueLimit = 1
  MaxText = 2
  MaxSteps = 1
  MaxAsks = 1
  MaxMarks = 1
  NetLimit = 1
  MaxLosses = 1
INVARIANTS
  TypeOK
  TextInOrder
  TextKept
  PromptShown
PROPERTIES
  Settles
CHECK_DEADLOCK FALSE
