SPECIFICATION RunsSpec
CONSTANTS
  g1 = g1  g2 = g2  g3 = g3  r1 = r1  g4 = g4  m1 = m1
  f1 = f1  f2 = f2  f3 = f3  f4 = f4  n1 = n1  n2 = n2
  None = None
  Source <- MCSource
  Module <- MCModule
  Emits <- OneModuleEach
  Broken = {f2}
  MayCrash = FALSE
  Deps <- MCDeps
  Kind <- MCKind
  Cacheable = {g1, g2, g3}
  Artefacts <- MCArtefacts
  Unbuildable = {}
  ListingMayFail = FALSE
  DiskMayFail = FALSE
  MaxRuns = 2
  Interrupted = FALSE
INVARIANTS HitMeansComplete
CHECK_DEADLOCK FALSE
