CONSTANTS
  Servers = {s1, s2}
  Clients = {c}
  Rooms = {r1, r2}
  NoRoom = NoRoom
  Free = Free
  Abandoned = Abandoned
  MAX_MESSAGES = 2
  MaxInputs <- MCInputs
  MaxStarts = 1
  MaxSpurious = 1
SPECIFICATION Spec
SYMMETRY Symmetric
CONSTRAINT Defined
INVARIANT NoOrphanName
INVARIANT ServerReachable
PROPERTY HistoryStable
CHECK_DEADLOCK FALSE
