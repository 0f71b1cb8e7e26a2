SPECIFICATION Spec
CONSTANTS
  Symbols = {s1}
  Entries = {e1}
  Exits = {}
  SymbolOf <- MCSymbolOf
  Lot = 1
  RedisFails = TRUE
  None = None
VIEW MCView
PROPERTIES SentOnce
