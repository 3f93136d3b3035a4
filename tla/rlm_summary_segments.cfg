CONSTANTS
  p1 = p1
  p2 = p2
  p3 = p3
  c1 = c1
  c2 = c2
  Procs = {p1}
  Contexts = {c1}
  CtxOf <- OneContext
  TokenSizes <- ShortAndLong
  Summarizers = {"auto"}
  RLM_SUMMARY_THRESHOLD = 2
  RLM_MAX_SUMMARIES = 2
  TrimBatch = 2
  ListSize = 5
  BufferSize = 20
  MaxCalls = 5
  MaxClock = 1
CHECK_DEADLOCK FALSE
SPECIFICATION Spec
INVARIANT EverySegmentDigested
