SPECIFICATION FairSpec
CONSTANTS
  Conn = {c1}
  None = None
  Mail = {"rrc_request", "rrc_complete"}
  Awake = {"ping", "measure", "transfer"}
  Interrupt = TRUE
  MAX_SIZE = 1
INVARIANT TypeOK
PROPERTY CleanEnds
INVARIANT ToldBeforeClosed
