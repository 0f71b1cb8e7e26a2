SPECIFICATION Spec
CONSTANTS
  Tasks = {t1, t2}
  None = None
  Ops <- EngineOps
  MaxOutages = 1
  MaxCrashes = 1
  DbFails = TRUE
SYMMETRY TaskSymmetry
INVARIANTS PausedNoEntry AutoRespectsPause RunFlagOwned LockOrder
