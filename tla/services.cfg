SPECIFICATION Spec
CONSTANTS
  Servers = {"a", "b"}
  Callers = {"caller"}
  Manager = "manager"
  Scout = "scout"
  MaxAttempts = 2
  Threshold = 1
  McpBounds <- MCMcpBounds
  UserFacts = {"g"}
  Unsure = {"f"}
  Sediments = {s1, s2}
  Tools = {t1}
  Runs = {r1, r2}
  MiscEnough = 1
  CompactEvery = 1
  Budgets <- MCBudgets
INVARIANTS
  NoOrphans
  StoresAgree
  OneThreadAtATime
PROPERTIES
  ThreadsReturn
  RunsReturn
CHECK_DEADLOCK FALSE
