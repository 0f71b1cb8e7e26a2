SPECIFICATION Spec
CONSTANTS
  Symbols = {s1}
  Entries = {e1, e2}
  Exits = {}
  SymbolOf <- MCSymbolOf
  RedisFails = FALSE
  Lot = 1
  None = None
VIEW MCView
SYMMETRY MCSymmetry
INVARIANTS DurableIntent
PROPERTIES SubmissionAlone RecoveryFlags ImplementsIntents
