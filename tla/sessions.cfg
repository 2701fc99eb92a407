SPECIFICATION MCSpec
CONSTANTS
  Main = "main"
  Branches = {"main", c1, c2}
  Instances = {"one"}
  Bodies = {"x"}
  MaxSends = 3
  MaxFaults = 0
  Callers = {1, 2}
  Resending = FALSE
  i1 = i1
  i2 = i2
  c1 = c1
  c2 = c2
SYMMETRY MCSymmetry
INVARIANTS
  BranchTypesHold
  Readable
  AckedStays
  SubmittedOnce
  CursorsHold
  ForksAreSettled
  FactsWrittenOnce
  NothingSkipped
  StartedOnce
  CompletedIsAccounted
PROPERTIES
  BranchesAreIsolated
CHECK_DEADLOCK FALSE
