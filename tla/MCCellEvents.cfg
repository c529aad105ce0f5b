SPECIFICATION FairSpec
CONSTANTS
  MAX_RSRP = 97
  THRESHOLD1 = 19
  THRESHOLD2 = 77
  COURSE = 5
  Calls = 3
INVARIANT TypeOK
INVARIANT LostOnlyOnThreshold
PROPERTY ReportSound
PROPERTY SignalOscillates
