SPECIFICATION Spec
CONSTANTS
  Proc = {p1, p2}
  Block = {b1, b2, b3, b4}
  Val = {v0}
  None = None
  LOGSIZE = 4
  MAXOPBLOCKS = 2
  SIZE = 4
SYMMETRY Symmetry
INVARIANT LogFits
