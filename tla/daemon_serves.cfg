CONSTANTS
  d1 = d1
  d2 = d2
  d3 = d3
  m1 = m1
  None = None
  Neutral = neutral
  Clients = {d1, d2}
  Moods = {m1}
  Backlog = 2
SPECIFICATION FairSpec
CHECK_DEADLOCK FALSE
INVARIANTS TypeOK ReplyAnswersOwnRequest
PROPERTIES ClientsReleased StopWithClientEndsRun
