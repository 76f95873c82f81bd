SPECIFICATION Spec
CONSTANTS
  MaxMsgs = 2
  MaxTexts = 1
  MaxDepth = 2
INVARIANTS MessagesKept NoSelfLock
PROPERTIES CutInHandler
CHECK_DEADLOCK FALSE
