SPECIFICATION Spec
CONSTANTS
  Tasks = {t1}
  None = None
  Ops <- ClearOps
  MaxOutages = 0
  MaxCrashes = 0
  DbFails = FALSE
INVARIANTS ResetAccepted
