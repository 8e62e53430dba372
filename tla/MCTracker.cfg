SPECIFICATION TrackerFairSpec
CONSTANTS
  m1 = m1
  m2 = m2
  Message = {m1, m2}
  MaxHistory = 2
  RetentionTime = 1
  Updates = {"pending", "failed"}
  Receipts = {"success", "timeout"}
  MaxLog = 3
INVARIANTS HistoryIsRecent
PROPERTIES FinalsAreRemoved CleanerStops
CHECK_DEADLOCK FALSE
