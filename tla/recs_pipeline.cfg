CONSTANTS
  u = u
  a = a
  b = b
  c = c
  x = x
  y = y
  Junk = Junk
  Users = {u}
  Items = {a, b, c}
  TagsOf <- TwoKinds
  EventTypes = {"SHARE", "FOLLOW", "SKIP", "PLAY"}
  Limits = {2, 3}
  MaxHalf = 2
  MaxEvents = 2
  MaxClock = 2
SPECIFICATION RecsSpec
INVARIANTS RecsTypeOK AtMostOneUnrelated
PROPERTY RerankMatchesReference
