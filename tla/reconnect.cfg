SPECIFICATION Spec
CONSTANTS
  QueueLimit = 1
  MaxText = 1
  MaxSteps = 1
  MaxAsks = 0
  MaxMarks = 0
  NetLimit = 1
  MaxLosses = 1
PROPERTIES
  SettlesAfterReconnect
CHECK_DEADLOCK FALSE
