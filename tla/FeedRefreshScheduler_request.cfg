CONSTANTS
  f1 = f1
  f2 = f2
  u1 = u1
  u2 = u2
  s1 = s1
  s2 = s2
  w1 = w1
  w2 = w2
  Feeds = {f1}
  Users = {u1}
  Sessions = {s1}
  Workers = {w1}
  Scheduler = scheduler
  Owner <- SoleOwner
  UserOf <- OneSession
  MaxVersion = 2
  NoTask = NoTask
SPECIFICATION AnsweredSpec
PROPERTIES RequestedFetchStarts
CHECK_DEADLOCK FALSE
