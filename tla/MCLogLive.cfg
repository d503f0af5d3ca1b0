SPECIFICATION FairSpec
CONSTANTS
  Proc = {p1, p2, p3}
  Block = {b1, b2, b3}
  Val = {v0}
  None = None
  LOGSIZE = 2
  MAXOPBLOCKS = 1
  SIZE = 4
INVARIANT Reserved
PROPERTIES SleeperWoken CommitEnds
