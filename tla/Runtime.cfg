SPECIFICATION Spec
CONSTANTS
  p1 = p1
  p2 = p2
  Proc = {p1, p2}
  None = None
  Corrupt = Corrupt
  Zmap = Zmap
  Disk = Disk
  DiskModel = Disk
  Window = 20
  MaxEntries = 4
  MaxName = 8
  MaxSize = 16
  Launches <- MCLaunches
  ErlArgs <- MCErlArgs
  Defaults <- MCDefaults
  ReadIovs <- MCReadIovs
  WriteIovs <- MCWriteIovs
  Offsets <- MCOffsets
  IovMax = 2
  MaxFile = 4
  Fd = {1, 2}
INVARIANTS
  TypeOK
  Booted
  TreeExact
  IoExact
  FdsAccounted
CHECK_DEADLOCK FALSE
