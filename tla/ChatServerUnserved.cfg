CONSTANTS
  Peers = {p1, p2, p3}
  None = None
  MAX_CLIENTS = 3
  MaxLines = 1
  Talkers = {p1, p2, p3}
  Leavers = {p1, p2, p3}
SPECIFICATION Spec
SYMMETRY PeerSymmetry
INVARIANT EveryClientServed
CHECK_DEADLOCK FALSE
