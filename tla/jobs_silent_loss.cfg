SPECIFICATION Spec
CONSTANTS
  MaxKinds = 1
  j1 = j1
  j2 = j2
  w1 = w1
  w2 = w2
  e1 = e1
  Jobs = {j1, j2}
  FirstJob = j1
  Workers = {w1}
  NoWorker = NoWorker
  Edits = {e1}
  NumPages = 1
  MaxFaults <- NoFault
SYMMETRY Symmetry
CHECK_DEADLOCK FALSE
PROPERTY NoCorrectionLostSilently
