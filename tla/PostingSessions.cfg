SPECIFICATION Spec
CONSTANTS
  Confs = {c1, c2}
  Sessions = {s1, s2}
  Moderators = {m1}
  Tossers = {}
  None = None
  Posted = {c1}
  Edited = {c2}
  MaxPosts = 3
INVARIANTS Announced
PROPERTIES ImplementsTextLog SaveEnds
