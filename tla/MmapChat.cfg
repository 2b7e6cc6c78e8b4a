CONSTANTS
  Servers = {s}
  Clients = {c}
  Rooms = {file}
  File = file
  NoRoom = NoRoom
  Free = Free
  Abandoned = Abandoned
  MAX_MESSAGES = 2
  MaxInputs <- MCInputs
  MaxStarts = 2
  MaxSpurious = 1
SPECIFICATION Spec
CONSTRAINT Defined
INVARIANT TypeOK
INVARIANT MutualExclusion
INVARIANT RoomNotOverrun
INVARIANT ShownIsRoom
PROPERTY HistoryStable
PROPERTY Delivery
PROPERTY FirstExitCompletes
CHECK_DEADLOCK FALSE
