SPECIFICATION Spec
CONSTANTS
  Bridge = 0
  Results = {1}
  None = None
  IngressCap = 7
  Retries = TRUE
  MaxAttempts = 2
  MaxTrouble = 2
INVARIANTS ConfirmTypeOK
PROPERTIES ImplementsCall EndedSessionsAreInert ServiceFrees
CHECK_DEADLOCK FALSE
