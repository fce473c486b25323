SPECIFICATION FairSpec
CONSTANTS
  k1 = k1
  k2 = k2
  NumPages = 2
  Keys = {k1, k2}
  MaxRuns = 2
  MaxFaults = 1
CHECK_DEADLOCK FALSE
INVARIANT TypeOK
INVARIANT NothingLeftBehind
INVARIANT RowsHaveFiles
INVARIANT DoneIsHonest
PROPERTY PagesOnlyAdvance
PROPERTY ProgressNeverFalls
PROPERTY EveryRunEnds
