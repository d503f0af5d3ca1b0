SPECIFICATION Spec
CONSTANTS
  Proc = {p1, p2}
  Buf = {x, y}
  Block = {k1, k2}
  Val = {v0, v1}
  None = None
  Zero = None
  Faulty = TRUE
INVARIANT ValidMeansRead
CHECK_DEADLOCK FALSE
