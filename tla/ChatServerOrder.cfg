CONSTANTS
  Peers = {p1, p2, p3, p4}
  None = None
  MAX_CLIENTS = 4
  MaxLines = 1
  Talkers = {}
  Leavers = {p1}
SPECIFICATION Spec
SYMMETRY PeerSymmetry
CONSTRAINT InOrder
INVARIANT SameOrder
INVARIANT BroadcastIsComplete
CHECK_DEADLOCK FALSE
