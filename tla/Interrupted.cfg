SPECIFICATION RunsSpec
CONSTANTS
  g1 = g1  g2 = g2  g3 = g3  r1 = r1  g4 = g4  m1 = m1
  f1 = f1  f2 = f2  f3 = f3  f4 = f4  n1 = n1  n2 = n2
  None = None
  Source <- MCSource
  Module <- MCModule
  Emits <- OneModuleEach
  Broken = {f2, f3}
  MayCrash = TRUE
  Deps <- SoloDeps
  Kind <- MCKind
  Cacheable = {g1, g2, g3}
  Artefacts <- MCArtefacts
  Unbuildable = {g2, r1}
  ListingMayFail = FALSE
  DiskMayFail = TRUE
  MaxRuns = 3
  Interrupted = TRUE
INVARIANTS HitMeansComplete UnfinishedHasNoKey
CHECK_DEADLOCK FALSE
