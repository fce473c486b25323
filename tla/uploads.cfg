SPECIFICATION Spec
CONSTANTS
  Requests = {r1, r2, r3}
  Ids = {c1, c2, c3}
  Documents = {1, 2, 3}
  MaxChunks = 2
  MaxFaults = 2
SYMMETRY Symmetry
INVARIANT RowsHaveTheirFile
INVARIANT NoStrayFiles
INVARIANT SameFileOnce
