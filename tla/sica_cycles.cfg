CONSTANTS
  old = old
  new = new
  Contents = {old, new}
  Interval = 2
  MaxCycles = 3
  MaxEdits = 3
  MaxStarts = 2
SPECIFICATION FairSpec
INVARIANT TypeOK
PROPERTY StopEndsSchedulers
