SPECIFICATION MCSpec
CONSTANTS
  Older = {1}
  TxCap = 2
  WireCap = 1
  IngressCap = 1
  MaxEvents = 2
INVARIANTS MaintTypeOK AckPrecedesEntry CrossRequestsExclusive ReservedIsSafe SourceNotAbandoned
PROPERTIES DeadRequestsStayDead ReservationsEnd
CHECK_DEADLOCK FALSE
