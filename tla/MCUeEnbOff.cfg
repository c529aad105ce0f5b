SPECIFICATION Spec
CONSTANTS
  FULL = 2
  STEP = 1
  DRAIN = 1
  THRESHOLD = 1
  Width = 8
  Capacity = 1
  Unsolicited = {"enb_off"}
INVARIANT StopsAfterEnbOff
