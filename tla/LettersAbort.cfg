SPECIFICATION Spec
CONSTANTS
  PartsRun = {"letters"}
  None = None
  Bad = Bad
  u1 = u1
  u2 = u2
  p1 = p1
  p2 = p2
  i1 = i1
  i2 = i2
INVARIANTS AbortAllowed
CHECK_DEADLOCK FALSE
