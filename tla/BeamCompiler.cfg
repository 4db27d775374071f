SPECIFICATION Spec
CONSTANTS
  f1 = f1  f2 = f2  f3 = f3
  d1 = d1  d2 = d2
  None = None
  Source <- MCSource
  Module <- MCSource
  Emits <- OneModuleEach
  Broken = {f2}
  MayCrash = TRUE
  Worker = {w1, w2}
  Path = {d1, d2}
  Home <- MCHome
INVARIANTS TypeOK CountAgrees PathBeforeWork NothingLost
PROPERTIES EndsWithClient Implements
CHECK_DEADLOCK FALSE
