SPECIFICATION Spec
CONSTANTS
  Proc = {p1, p2}
  Name = {"a", "b"}
  NInum = 3
  NINODE = 3
  Calls <- MCCalls
CONSTRAINT NoPanicYet
SYMMETRY Symmetry
INVARIANT NoDeadlock
CHECK_DEADLOCK FALSE
