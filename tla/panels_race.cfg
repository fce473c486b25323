SPECIFICATION Spec
CONSTANTS
  r1 = r1
  r2 = r2
  p1 = p1
  p2 = p2
  p3 = p3
  b1 = b1
  b2 = b2
  NoBox = NoBox
  Nobody = Nobody
  Requests = {r1, r2}
  Panels = {p1, p2, p3}
  Boxes = {b1, b2}
  Limit = 2
  MaxEdits = 3
  MaxCrashes = 0
SYMMETRY Symmetry
CHECK_DEADLOCK FALSE
INVARIANT PanelsKeepPictures
