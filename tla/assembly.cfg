SPECIFICATION Spec
CONSTANTS
  r1 = r1
  r2 = r2
  Requests = {r1, r2}
  Numbers = {1, 2, 3, 4}
  Objects = {"desk"}
  Code <- MixedCodes
  NoCode = ""
  MaxAssemblies = 3
  MaxRuns = 1
SYMMETRY Symmetry
CHECK_DEADLOCK FALSE
INVARIANT TypeOK
INVARIANT PagesOnceUnlessRaced
INVARIANT FlagsExact
PROPERTY ReviewedStay
PROPERTY NothingMissed
CONSTRAINT SmallRuns
