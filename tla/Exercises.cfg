CONSTANTS
  Blocks = 2
  Absent = Absent
  UserModes <- MCUserModes
  Threads <- MCThreads
  Rounds <- MCRounds
  Sizes = {2, 3, 4, 5, 7, 8}
  NUM_THREADS = 3
  MULTIPLICATIONS = 2
  Clients = {"c1", "c2"}
  MaxLines = 2
  CHILDREN = 3
  OFFSPRING = 3
  ITERATIONS = 12
  FailingOpens = {"a"}
SPECIFICATION AllSpec
INVARIANT InstalledIsWhole
INVARIANT NothingDangles
INVARIANT RemovedIsGone
INVARIANT ExercisesTypeOK
INVARIANT TreeAsDrawn
INVARIANT ScanIsExact
INVARIANT ValuesOnce
INVARIANT FewOvertake
INVARIANT ProductIsWhole
INVARIANT OneTurn
INVARIANT PrintsWholeFile
PROPERTY PartnersEnd
PROPERTY EndOfFileComes
PROPERTY NoZombieStays
PROPERTY Terminates
PROPERTY AppendsInTurn
CHECK_DEADLOCK FALSE
