CONSTANTS
  f1 = f1
  f2 = f2
  u1 = u1
  u2 = u2
  s1 = s1
  s2 = s2
  w1 = w1
  w2 = w2
  Feeds = {f1, f2}
  Users = {u1, u2}
  Sessions = {s1, s2}
  Workers = {w1, w2}
  Scheduler = scheduler
  Owner <- TwoOwners
  UserOf <- TwoSessions
  MaxVersion = 2
  NoTask = NoTask
SPECIFICATION Spec
INVARIANTS TypeOK QueueSound FlagsAccounted OneFetchPerFeed NoLostWakeup ScheduleFollowsTree
SYMMETRY Interchangeable
CHECK_DEADLOCK FALSE
