SPECIFICATION FairSpec
CONSTANTS
  Image = {1, 2, 3}
  Version <- MCVersion
  Unmarked = {}
  Start = {1, 2}
  Pages = 2
  Words = 2
  LinkCap = 2
  MaxTag = 3
  MaxAttempts = 2
  AnyReboot = FALSE
  MaxBlocks = 0
  MaxReboots = 1
  MaxFaults = 1
PROPERTIES SameVersion
CHECK_DEADLOCK FALSE
