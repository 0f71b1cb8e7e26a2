SPECIFICATION MCSpec
CONSTANTS
  Events = {a, b, c}
  None = None
  Callers = {"analysis", "request"}
  Asked = {"ACTIVE", "PAUSED", "KILLED"}
  Procs = {"p", "q"}
  Writes = {1, 2}
  Runs = {"task", "request"}
  SuiteSize = 3
  QuickSize = 2
  ReportSize = 7
  MaxTokens = 3
  Liquid <- LiquidNames
  Watchlist <- WatchedNames
  MaxQuotes = 4
  PoolSize = 3
  ScanSize = 2
  Known = {"d"}
  Capped = TRUE
  Builders = {"cycle", "request"}
  MaxDays = 2
  Names = {x, y}
  MaxEvents = 6
SYMMETRY MCSymmetry
INVARIANTS ChainSound NothingVanishes VerdictFresh
 KilledStays RestartKeeps OneWriter PatchesRemoved
 ApprovalEarned ValidatedWhatRuns TradesInSession BestFirst Balanced
PROPERTIES LostForGood
CHECK_DEADLOCK FALSE
