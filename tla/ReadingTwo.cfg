SPECIFICATION Spec
CONSTANTS
  Confs = {mbox, c1, c2}
  Mailbox = mbox
  MaxText <- TwoShort
  Longer = c1
  MaxGap = 3
SYMMETRY Symmetry
PROPERTIES NothingLeftBehind
