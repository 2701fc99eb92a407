SPECIFICATION Spec
CONSTANTS
  MaxTurns = 2
  MaxSteps = 2
  MaxAttempts = 2
  WindowBounds <- MCWindowBounds
  Jobs = {j1, j2}
  Background = {j2}
  NumCalls = 2
  MaxEdits = 1
  Paths = {p1, p2}
  Changes = {1, 2, 3}
  MaxCount = 2
  MaxUndos = 2
  Pages = {page1, page2}
  Ids = {server}
  ConfigBounds <- MCConfigBounds
SYMMETRY MCSymmetry
INVARIANTS
  AnswersMeetQuestions
  CancelLeavesNone
  RequestsPaired
  NothingForgotten
PROPERTIES
  UndoIsExactElsewhere
  StaleSavesConflict
  EditsAreLocal
CHECK_DEADLOCK FALSE
