CONSTANTS
  t1 = t1
  t2 = t2
  a = a
  b = b
  u = u
  v = v
  Titles = {a, b}
  Urls = {u, v}
  Threads = {t1, t2}
  NoSeries = none
  Scenarios <- Few
SPECIFICATION Spec
SYMMETRY Interchangeable
INVARIANTS TypeOK ImportedAsWritten ShownUnlessFailed
CHECK_DEADLOCK FALSE
