SPECIFICATION Spec
CONSTANTS
  c1 = c1
  c2 = c2
  Mailbox = Mailbox
  NoConf = NoConf
  Order <- MCOrder
  Boards <- MCBoards
  Match <- MCMatch
  Blocked <- MCBlocked
  Menus <- MCMenus
  Limit <- MCLimit
  MaxText = 4
  MaxRead = 3
  MaxAsked = 2
  MaxDelete = 1
INVARIANTS
  CommentsHere
  LogoutUnreads
PROPERTIES
  WalkExact
  SweepKeeps
CHECK_DEADLOCK FALSE
