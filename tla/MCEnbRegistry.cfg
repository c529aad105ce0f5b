SPECIFICATION Spec
CONSTANTS
  Conn = {c1, c2}
  None = None
  Mail = {"random_access_request", "pong", "ue_off"}
  Awake = {"ping"}
  Interrupt = FALSE
  MAX_SIZE = 1
SYMMETRY Symmetry
INVARIANT RegistryExact
PROPERTY SurvivesOrdinaryClients
INVARIANT ToldBeforeClosed
