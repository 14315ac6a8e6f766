SPECIFICATION MCSpec
CONSTANTS
  LocalKeys = {a}
  PeerKeys = {p}
  Lock = Lock
  Cap = 2
  MountRace = FALSE
  MaxInputs = 4
  MaxResets = 3
INVARIANTS KbdTypeOK TailBehindFullQueue LastReportShown PeerKeysAreVouched
PROPERTIES RefinesFifo ShowsHeldKeys
CHECK_DEADLOCK FALSE
