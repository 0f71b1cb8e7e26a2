SPECIFICATION Spec
CONSTANTS
  Tasks = {t1, t2}
  None = None
  Ops <- UndoOps
  MaxOutages = 0
  MaxCrashes = 0
  DbFails = FALSE
SYMMETRY TaskSymmetry
INVARIANTS NoEntryAfterKill
