SPECIFICATION Spec
CONSTANTS
  Proc = {p1, p2, p3}
  Buf = {x, y}
  Block = {k1, k2, k3}
  Val = {v0, v1}
  None = None
  Zero = k1
  Faulty = FALSE
SYMMETRY Symmetry
INVARIANTS BuffersExact NoLostWrite SleeperHasWaker
CHECK_DEADLOCK FALSE
