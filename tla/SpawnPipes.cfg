SPECIFICATION Spec
CONSTANTS
  p1 = p1
  p2 = p2
  p3 = p3
  emulator = emulator
  Port <- Ports
  Emulator = emulator
  Serial = TRUE
INVARIANTS OnlyStderrKept OwnOutput
PROPERTIES ChildrenEnd
CHECK_DEADLOCK FALSE
