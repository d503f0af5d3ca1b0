SPECIFICATION MCSpec
CONSTANTS
  Proc = {p1, p2}
  Val = {a, b}
  None = None
  PIPESIZE = 2
  Modulus = 4
  MaxCount = 2
  Reader = {r1}
  Port = {x, y}
CONSTRAINT Few
SYMMETRY Symmetry
INVARIANTS
  PipeOutlivesUse   InBounds 
    
PROPERTIES PipeIsChannel ConsoleIsTty  RingIsQueue
CHECK_DEADLOCK FALSE
