SPECIFICATION Spec
CONSTANTS
  Servers = {s1}
  Clients = {c1}
  NoObject = NoObject
  MaxRecords = 1
  LogMayFail = FALSE
CHECK_DEADLOCK FALSE
PROPERTY InterruptCleansUp
