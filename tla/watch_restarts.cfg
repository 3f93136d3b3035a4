CONSTANTS
  MinDelay = 4
  MAX_RESTART_DELAY = 9
  PipeSize = 2
  MaxLaunches = 2
CHECK_DEADLOCK FALSE
SPECIFICATION FairSpec
INVARIANTS TypeOK ReplacesOnlyTheDead
PROPERTIES StopLeavesNone CleanRunShortens DeadIsReplaced
