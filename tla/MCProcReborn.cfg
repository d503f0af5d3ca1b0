SPECIFICATION Spec
CONSTANTS
  NPROC = 3
  CPU = {c1, c2}
  SIGKILL = 9
  Caught = {15}
  MaxPid = 4
SYMMETRY Symmetry
INVARIANT KilledMeansSignalled
CHECK_DEADLOCK FALSE
