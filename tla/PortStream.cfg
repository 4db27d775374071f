SPECIFICATION Spec
CONSTANTS
  Message <- Messages
  MaxSent = 3
  Base = 2
  PB = 2
  High = 4
  Low = 2
  PipeSize = 3
  Modes = {"in", "out", "in_out"}
INVARIANTS TypeOK NothingLost QueueServed Flushed
PROPERTIES NeverStuck Implements
CHECK_DEADLOCK FALSE
