SPECIFICATION Spec
CONSTANTS
  NPROC = 3
  CPU = {c1, c2}
  SIGKILL = 9
  Caught = {15}
  MaxPid = 3
SYMMETRY Symmetry
INVARIANTS OneCpuEach FamilyIntact NoMissedExit
CHECK_DEADLOCK FALSE
