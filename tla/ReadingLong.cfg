SPECIFICATION Spec
CONSTANTS
  Confs = {mbox, c1}
  Mailbox = mbox
  MaxText <- OneLong
  Longer = c1
  MaxGap = 3
INVARIANTS ListsNormal CountsAgree OfferIsFresh
PROPERTIES ImplementsReadSet ScanEnds
