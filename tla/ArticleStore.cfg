CONSTANTS
  g1 = g1
  g2 = g2
  Feeds = {f1}
  Guids = {g1, g2}
  Published <- Dates
  Ids = {i1, i2, i3}
  Fetchers = {w1, w2}
  Modes = {"disabled"}
  Defaults = {"limit"}
  Limit = 1
SPECIFICATION Spec
SYMMETRY Interchangeable
INVARIANTS TypeOK QueuedOriginalsStay ReadStaysRead CopiesAgreeUnlessSplit
CHECK_DEADLOCK FALSE
