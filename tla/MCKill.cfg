SPECIFICATION MCSpec
CONSTANTS
  Tasks = {t1, t2}
  None = None
  Ops <- KillOps
  MaxOutages = 1
  MaxCrashes = 2
  DbFails = FALSE
SYMMETRY TaskSymmetry
CONSTRAINT Asked
INVARIANTS NoEntryAfterKill SerialResetAccepted
