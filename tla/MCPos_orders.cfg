SPECIFICATION PosSpec
CONSTANTS
  u1 = u1
  u2 = u2
  t1 = t1
  p1 = p1
  w1 = w1
  w2 = w2
  s1 = s1
  r1 = r1
  r2 = r2
  None = None
  Uuids = {u1, u2}
  Tenants = {t1}
  Products = {p1}
  Warehouses = {w1}
  Sessions = {}
  Workers = {r1, r2}
  Order <- BookOrders
  Batches <- SinglesAndBatches
  Headers = {TRUE}
  RowIds = {11, 12, 13, 14, 15, 16}
  HandReasons = {}
  HandRefs = {}
  HandQty = {}
  MaxManual = 0
  FirstYear = 1
  LastYear = 1
  MaxRefunds = 1
  MaxFaults = 1
SYMMETRY RequestSymmetry
INVARIANTS
  PosTypeOK
  OneOrderPerUuid
  NumbersUnique
  OkIsTheStoredOrder
  EventsOncePerOrder
PROPERTIES
  ImplementsBook
CHECK_DEADLOCK FALSE
