SPECIFICATION Spec
CONSTANTS
  p1 = p1
  p2 = p2
  q1 = q1
  u1 = u1
  u2 = u2
  Procs = {p1, p2}
  Users = {u1, u2}
  UserOf <- TwoAndOne
  None = None
  MaxEntries = 1
  MaxLogins = 2
  Hangups <- Everywhere
  Kicks = TRUE
  LongLocks = TRUE

PROPERTIES ImplementsRegistry LoginEnds
CHECK_DEADLOCK FALSE
