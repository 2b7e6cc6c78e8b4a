SPECIFICATION Spec
CONSTANTS
  Servers = {s1}
  Clients = {c1}
  NoObject = NoObject
  MaxRecords = 2
  LogMayFail = FALSE
CHECK_DEADLOCK FALSE
INVARIANT RecordReadBeforeSleep
