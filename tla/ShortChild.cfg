SPECIFICATION Spec
CONSTANTS
  p1 = p1  p2 = p2  
  None = None
  Port = {p1, p2}
  Pid = {i1, i2}
  Status = {s1, s2}
  MaxChunks = 1
  EarlyExit = TRUE
  EarlyReuse = FALSE
PROPERTIES StatusArrives
CHECK_DEADLOCK FALSE
