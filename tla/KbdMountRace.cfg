SPECIFICATION FairSpec
CONSTANTS
  LocalKeys = {a}
  PeerKeys = {p}
  Lock = Lock
  Cap = 2
  MountRace = TRUE
  MaxInputs = 2
  MaxResets = 2
PROPERTIES ShowsHeldKeys
CHECK_DEADLOCK FALSE
