CONSTANTS
  s1 = s1
  s2 = s2
  s3 = s3
  d1 = d1
  d2 = d2
  Nodes = {n1, n2, n3}
  Root = root
  User = u1
  Devices = {d1, d2}
  Sessions = {s1, s2, s3}
  DeviceOf <- Connections
  NoSession = none
  NoCall = notification
  MaxChanges = 2
  Scenarios <- ChangesOnly
SPECIFICATION Spec
SYMMETRY Interchangeable
INVARIANT DevicesAgree
CHECK_DEADLOCK FALSE
