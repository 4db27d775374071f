SPECIFICATION Spec
CONSTANTS
  p1 = p1  p2 = p2  
  None = None
  Port = {p1, p2}
  Pid = {i1, i2}
  Status = {s1, s2}
  MaxChunks = 1
  EarlyExit = FALSE
  EarlyReuse = FALSE
INVARIANTS TypeOK TableExact
PROPERTIES NoZombies StatusArrives Implements
CHECK_DEADLOCK FALSE
