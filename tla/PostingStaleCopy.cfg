SPECIFICATION Spec
CONSTANTS
  Confs = {c1, c2}
  Sessions = {s1}
  Moderators = {m1}
  Tossers = {}
  None = None
  Posted = {c1}
  Edited = {c1}
  MaxPosts = 2
PROPERTIES ImplementsTextLog
