SPECIFICATION MCSpec
CONSTANTS
  None = None
  Modulus = 16
  TxCap = 1
  WireCap = 1
  OldBoards = {1}
  LateFrames = FALSE
  StartTokens = {7, 15}
  MaxRequests = 2
  MaxReboots = 1
INVARIANTS TypeOK FramesDecode RoutingFollowsToken OneOutputPerToken ResetsArePassive
PROPERTIES TokensAdvance Converges
