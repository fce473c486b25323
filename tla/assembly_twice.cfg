SPECIFICATION Spec
CONSTANTS
  r1 = r1
  r2 = r2
  Requests = {r1, r2}
  Numbers = {1, 2}
  Objects = {"desk"}
  Code <- SameCode
  NoCode = ""
  MaxAssemblies = 3
  MaxRuns = 0
SYMMETRY Symmetry
CHECK_DEADLOCK FALSE
INVARIANT PagesOnce
