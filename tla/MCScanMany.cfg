SPECIFICATION FairSpec
CONSTANTS
  N = 3
  StoreFaults = TRUE
  RecentCap = 2
  MaxCount = 1
INVARIANTS OneInterrupted FailFastStops ExitZeroMeansComplete ViewFollowsRuns
PROPERTIES CommandEnds
CHECK_DEADLOCK FALSE
