SPECIFICATION FairSpec
CONSTANTS
  Scenes = {s1, s2}
  MaxRetries = 2
  MaxCalls = 2
  MaxDeaths = 1
INVARIANTS
  TypeOK
  ReturnedHolds
  RepeatsAreExplained
PROPERTY CallEnds
