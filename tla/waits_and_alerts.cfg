SPECIFICATION FairSpec
CONSTANTS
  o1 = o1 o2 = o2 i1 = i1 i2 = i2 i3 = i3 i4 = i4 p1 = p1 p2 = p2 l1 = l1 l2 = l2
  r1 = r1 r2 = r2 r3 = r3 None = None
  Orders = {o1}
  Items = {i1, i2}
  Products = {p1, p2}
  Locations = {l1}
  Requests = {r1, r2}
  Quantities = {1}
  Ops <- OpeningAndOrders
  SerialOrders = FALSE
  Opened <- SecondOpened
  OpeningQuantity = 1
  ReorderPoint <- LowAtFirst
  MaxQuantity = 2
  MaxFaults = 0
PROPERTIES RequestsEnd LowRowIsAnnounced OnlySettlementsMiscount FlagsStrayAtOpening HoldsFollowStatus
CHECK_DEADLOCK FALSE
