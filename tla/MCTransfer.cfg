SPECIFICATION FairSpec
CONSTANTS
  Sizes = {0, 2, 5}
  BUFFER_SIZE = 2
  MaxOther = 1
  MaxNotes = 1
INVARIANT TypeOK
INVARIANT LossIsBounded
PROPERTY IsFileCopy
PROPERTY TransferEnds
