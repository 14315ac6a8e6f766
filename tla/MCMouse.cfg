\* Three events, one of which may be a lost frame or a disconnected host: enough
\* for a press whose reports are still in flight when the selection moves on.
SPECIFICATION Spec
CONSTANTS
  Mice = {1, 2}
  QueueCap = 2
  WireCap = 3
  MaxEvents = 3
  MaxFaults = 1
INVARIANTS MouseTypeOK HeldDragEnds
PROPERTIES MirrorsConverge
