SPECIFICATION Spec
CONSTANTS
  Symbols = {s1}
  Entries = {e1}
  Exits = {x1, x2}
  SymbolOf <- MCSymbolOf
  RedisFails = FALSE
  Lot = 1
  None = None
VIEW MCView
SYMMETRY MCSymmetry
INVARIANTS OneSell FlatNoOrders
PROPERTIES SellAfterStops
