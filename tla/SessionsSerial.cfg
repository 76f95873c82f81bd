SPECIFICATION Spec
CONSTANTS
  p1 = p1
  p2 = p2
  q1 = q1
  u1 = u1
  u2 = u2
  Procs = {p1, p2, q1}
  Users = {u1, u2}
  UserOf <- TwoAndOne
  None = None
  MaxEntries = 3
  MaxLogins = 1
  Hangups = {}
  Kicks = FALSE
  LongLocks = FALSE
SYMMETRY Symmetry
INVARIANTS Listed OneSession
CHECK_DEADLOCK FALSE
