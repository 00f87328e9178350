CONSTANTS
  Process = {p1, p2}
  None = None
  Port = {a, b}
  Dest = {x}
  MaxSockets = 2
  MaxPendingPackets = 2
  MaxTransmitRequest = 2
  MaxLost = 1
SPECIFICATION Spec
INVARIANTS
  TypeOK
  PendingInBounds
  NoLeftovers
  FramesAccounted
SYMMETRY Symmetry
VIEW View
