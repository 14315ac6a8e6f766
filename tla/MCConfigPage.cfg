SPECIFICATION Spec
CONSTANTS
  Board = {0, 1}
  Bridge = 0
  Field = {1, 2}
  Value = {0, 1}
  Default <- MCDefault
  Stored <- MCStored
  Mode = 1
  Jitter = 1
  Blank = Blank
  Firmware = Firmware
  None = None
  MaxEdits = 4
  MaxEvents = 2
INVARIANTS PageTypeOK SavedIsKept BufferHasOneUser
CHECK_DEADLOCK FALSE
