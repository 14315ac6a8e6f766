SPECIFICATION Spec
CONSTANTS
  Bridge = 0
  Results = {1}
  None = None
  IngressCap = 8
  Retries = TRUE
  MaxAttempts = 2
  MaxTrouble = 2
INVARIANTS ReceiptsAreWhole
CHECK_DEADLOCK FALSE
