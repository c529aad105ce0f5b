SPECIFICATION Spec
CONSTANTS
  FULL = 4
  STEP = 2
  DRAIN = 1
  THRESHOLD = 2
  Width = 14
  Capacity = 1
  Unsolicited = {"ping"}
INVARIANT LowIsNotified
