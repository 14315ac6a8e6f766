SPECIFICATION Spec
CONSTANTS
  Image = {1, 2, 3}
  Version <- MCVersion
  Unmarked = {3}
  Start = {1, 2}
  Pages = 2
  Words = 2
  LinkCap = 2
  MaxTag = 4
  MaxAttempts = 2
  AnyReboot = FALSE
  MaxBlocks = 2
  MaxReboots = 1
  MaxFaults = 2
INVARIANTS FirmwareTypeOK CleanMeansBootable RebootsWholeImage PullsNeverSpoil
PROPERTIES NoDowngrade
CHECK_DEADLOCK FALSE
