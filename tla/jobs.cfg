SPECIFICATION FairSpec
CONSTANTS
  Stocks = {s1}
  Users = {u1, u2}
  Jobs = {j1, j2}
  None = None
  OpeningQuantity = 2
  ReorderPoint = 1
  Quantities = {1}
  MaxQuantity = 3
  WindowDays = 3
  TargetDays = 2
  Consumptions = {0, 3, 4}
  MaxRetries = 1
  MaxMoves = 3
  MaxFaults = 2
INVARIANTS DropIsAnnounced MailsTellLow NoMailStorm RestocksSettle
PROPERTIES DropIsMailed
CHECK_DEADLOCK FALSE
