SPECIFICATION FairSpec
CONSTANTS
  MaxKinds = 1
  j1 = j1
  j2 = j2
  w1 = w1
  w2 = w2
  e1 = e1
  Jobs = {j1, j2}
  FirstJob = j1
  Workers = {w1, w2}
  NoWorker = NoWorker
  Edits = {}
  NumPages = 2
  MaxFaults <- OneCrash
CHECK_DEADLOCK FALSE
PROPERTY EveryJobEnds
PROPERTY LockIsReleased
PROPERTY ImplementsSerialRuns
