SPECIFICATION Spec
CONSTANTS
  FULL = 4
  STEP = 2
  DRAIN = 1
  THRESHOLD = 2
  Width = 14
  Capacity = 1
  Unsolicited = {"ping", "measurement_control_request"}
INVARIANT TypeOK
INVARIANT OneNotePerThread
INVARIANT StrayIsHarmless
PROPERTY NothingAfterUeOff
