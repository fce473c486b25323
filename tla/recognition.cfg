SPECIFICATION Spec
CONSTANTS
  SubPx = 4
  MinSidePx = 2
  ComfortPx = 10
  SeamMarginPx = 1
  MinStripPx = 2
  MinBandPx = 1
  WorkMaxPx = 18
  TextMarginPx = 1
  SplitGutterPx = 2
  PanelSidePx = 2
  EmptyMarks = 1
  EmptyProfile = 83
  MaxPrompts = 2
  MinProductPx = 1
  MinScore = 70
  MinCoverage = 30
  AutoReview = 85
  LowConfidence = 60
  CategoryOf <- Categories
  Pages <- PagesInUse
  Layouts <- LayoutsInUse
  Drawings <- DrawingsInUse
  Answers <- AnswersInUse
  Texts <- TextsInUse
INVARIANT PageIsRead
INVARIANT PanelsAsPrinted
INVARIANT BoxesAsDrawn
INVARIANT OneFindPerObject
INVARIANT ReadyIsEvidenced
CHECK_DEADLOCK FALSE
