SPECIFICATION MCSpec
CONSTANTS
  Lot = 3
  Capital = 8
  Entry = 2
  Fee = 1
  ExitPrices = {2, 4}
  MaxEntries = 1
  MaxTroubles = 2
  Names = {n1, n2}
  Account = 1100
  Signal = 200
  Stops = {180, 185}
  Targets = {204, 250}
  Prices = {170, 180, 250}
  Slips = {0, 4}
  Cost = 2
  TradeLimit = 4500
  DayLimit = 4500
  HeatLimit = 5000
  DrawdownLimit = 30000
  PositionLimit = 60000
  Reserve = 30000
  MinReward = 1500
  MaxOpen = 4
  ReduceAfter = 3
  HaltAfter = 4
  Cashes = {500, 1100}
  MaxOrders = 3
  MaxShocks = 1
INVARIANTS BackedOrHalted EquityTrue DayLossTrue BasisBacked
 HeatTrue WorstDay
PROPERTIES SizedPasses StreakLocks
CHECK_DEADLOCK FALSE
