CONSTANTS
  Peers = {p1, p2, p3}
  None = None
  MAX_CLIENTS = 2
  MaxLines = 1
  Talkers = {p1, p2}
  Leavers = {p2}
SPECIFICATION Spec
INVARIANT TypeOK
INVARIANT ListedAreServed
PROPERTY LinesAreRead
CHECK_DEADLOCK FALSE
