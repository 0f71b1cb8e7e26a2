SPECIFICATION Spec
CONSTANTS
  Symbols = {s1}
  Entries = {e1}
  Exits = {x1}
  SymbolOf <- MCSymbolOf
  RedisFails = FALSE
  Lot = 2
  None = None
INVARIANTS TypeOK NoShort Accounted
