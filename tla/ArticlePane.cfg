CONSTANTS
  f1 = f1
  f2 = f2
  dir = dir
  q1 = q1
  Articles = {1, 2, 3}
  Published <- Dates
  Holds <- Contents
  Folders = {dir}
  Root = root
  Queue = queue
  Everywhere = everywhere
  Titles <- Found2
  NoQuery = none
  Limit = 1
  Scenarios <- Bounded
SPECIFICATION Spec
INVARIANTS TypeOK ListAgreesUnlessMissed CountAgreesUnlessWrong LoadingAccounted MergesDefinedUnlessOverlap
PROPERTIES MergeKeepsPlace PagesAreOfTheView
CHECK_DEADLOCK FALSE
