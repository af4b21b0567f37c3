SPECIFICATION PosSpec
CONSTANTS
  u1 = u1
  u2 = u2
  t1 = t1
  p1 = p1
  w1 = w1
  w2 = w2
  s1 = s1
  r1 = r1
  r2 = r2
  None = None
  Uuids = {u1, u2}
  Tenants = {t1}
  Products = {p1}
  Warehouses = {w1, w2}
  Sessions = {s1}
  Workers = {r1, r2}
  Order <- SessionOrders
  Batches <- UnderpaidFirst
  Headers = {TRUE}
  RowIds = {11, 12, 13, 14, 15, 16}
  HandReasons = {"POS_SALE", "RETURN"}
  HandRefs <- ItsNumber
  HandQty = {2}
  MaxManual = 1
  FirstYear = 1
  LastYear = 1
  MaxRefunds = 2
  MaxFaults = 1
SYMMETRY RequestSymmetry
INVARIANTS
  SaleMovesMatchOrders
  RefundsAreWhole
  TotalIsSumOfWarehouses
CHECK_DEADLOCK FALSE
