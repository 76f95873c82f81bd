SPECIFICATION Spec
CONSTANTS
  Confs = {mbox, c1, c2}
  Mailbox = mbox
  MaxText <- ThreeTwo
  Longer = c1
  MaxGap = 3
PROPERTIES SkipsOnlyMissing
