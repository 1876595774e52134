SPECIFICATION FairSpec
CONSTANTS
  Users = {u1}
  Chats = {c1, c2}
  Costs = {1, 3}
  MaxIterations = 2
  MaxCostPerRequest = 3
  DailyCostPerUser = 2
  PoolSize = 1
  MaxChats = 3
  MaxDay = 1
  MaxFaults = 1
  None = None
INVARIANTS UsageAccounted QuotaOvershootBounded ModelHoldsNoConnection
PROPERTIES ChatsEnd
CHECK_DEADLOCK FALSE
