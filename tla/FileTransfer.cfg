SPECIFICATION Spec
CONSTANTS
  Senders = {s1, s2}
  Names = {n1}
  Contents <- MCContents
  None = None
  BUF_SIZE = 7
  Window = 3
  BACKLOG = 1
CHECK_DEADLOCK FALSE
INVARIANT TypeOK
INVARIANT SavedIsPrefix
INVARIANT SavedIsWhole
PROPERTY EveryConnectionServed
