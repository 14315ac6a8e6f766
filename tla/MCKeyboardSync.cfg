SPECIFICATION MCSpec
CONSTANTS
  SourceCap = 1
  LinkCap = 3
  Nonces = {1, 2, 3, 4, 5, 6, 7, 8, 9, 10, 11, 12}
  MaxEvents = 2
  MaxEpochs = 1
  MaxFaults = 1
INVARIANTS SyncTypeOK
PROPERTIES NoStaleKeys SnapshotsConverge
