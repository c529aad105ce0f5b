SPECIFICATION FairSpec
CONSTANTS
  FULL = 2
  STEP = 1
  DRAIN = 1
  THRESHOLD = 1
  Width = 8
  Capacity = 1
  Unsolicited = {"enb_off", "data_start", "data", "data_end"}
PROPERTY SigintEnds
PROPERTY EarlyEnbOffEnds
