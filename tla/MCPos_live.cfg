SPECIFICATION FairPosSpec
CONSTANTS
  u1 = u1
  u2 = u2
  t1 = t1
  p1 = p1
  w1 = w1
  w2 = w2
  s1 = s1
  r1 = r1
  r2 = r2
  None = None
  Uuids = {u1, u2}
  Tenants = {t1}
  Products = {p1}
  Warehouses = {w1}
  Sessions = {}
  Workers = {r1, r2}
  Order <- TwoOrders
  Batches <- Singles
  Headers = {TRUE}
  RowIds = {11, 12, 13, 14, 15}
  HandReasons = {}
  HandRefs = {}
  HandQty = {}
  MaxManual = 0
  FirstYear = 1
  LastYear = 2
  MaxRefunds = 0
  MaxFaults = 1
INVARIANTS
  NextNumberFree
PROPERTIES
  RetriesSucceed
CHECK_DEADLOCK FALSE
