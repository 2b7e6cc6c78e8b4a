CONSTANTS
  Servers = {s}
  Clients = {c}
  Rooms = {file}
  File = file
  NoRoom = NoRoom
  Free = Free
  Abandoned = Abandoned
  MAX_MESSAGES = 2
  MaxInputs <- MCInputs
  MaxStarts = 1
  MaxSpurious = 0
SPECIFICATION Spec
PROPERTY HistoryKept
CHECK_DEADLOCK FALSE
