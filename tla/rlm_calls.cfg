CONSTANTS
  p1 = p1
  p2 = p2
  p3 = p3
  c1 = c1
  c2 = c2
  Procs = {p1, p2, p3}
  Contexts = {c1, c2}
  CtxOf <- SharedAndOwn
  TokenSizes = {3}
  Summarizers = {"auto", "callback"}
  RLM_SUMMARY_THRESHOLD = 2
  RLM_MAX_SUMMARIES = 1
  TrimBatch = 2
  ListSize = 2
  BufferSize = 8
  MaxCalls = 3
  MaxClock = 1
SYMMETRY SharingSymmetry
CHECK_DEADLOCK FALSE
SPECIFICATION Spec
INVARIANTS TypeOK NothingForgotten
PROPERTIES ImplementsMemory ReturnsWithinBudget TrimRestoresCap ClearsOnlyCollected TrimLeavesCap
