SPECIFICATION Spec
CONSTANTS
  t1 = t1
  t2 = t2
  f = f
  g = g
  a = a
  b = b
  Thread <- Threads
  Folder <- Folders
  Name <- Names
  MaxCounter = 2
  Denies = {"move", "swap", "replace"}
  Counted = TRUE
  Absent = Absent
  EmptyDir = EmptyDir
  FullDir = FullDir
  Leftover = Leftover
INVARIANTS SwapsApart
PROPERTIES Kept Implements
CHECK_DEADLOCK FALSE
SYMMETRY Symmetry
