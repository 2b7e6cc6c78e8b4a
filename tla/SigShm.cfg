SPECIFICATION Spec
CONSTANTS
  Servers = {s1}
  Clients = {c1,c2}
  NoObject = NoObject
  MaxRecords = 1
  LogMayFail = TRUE
CHECK_DEADLOCK FALSE
INVARIANT TypeOK
INVARIANT UnreadIsFlagged
INVARIANT NoOrphanObject
PROPERTY SleeperStops
PROPERTY WakeupReads
