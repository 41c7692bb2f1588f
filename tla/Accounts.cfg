CONSTANTS
  Clients = {c1, c2}
  Logins = {alice}
  Passwords = {p, q}
  NoClient = nobody
  MaxAuthorities = 2
  MaxDevices = 2
  Budgets <- Few
SPECIFICATION Spec
SYMMETRY Interchangeable
INVARIANTS TypeOK OneAuthorityUnlessCut EnrolledAreAccepted AccountsAccounted ConnectedAsPaired
CHECK_DEADLOCK FALSE
