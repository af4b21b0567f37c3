SPECIFICATION FairSpec
CONSTANTS
  i1 = i1
  i2 = i2
  p1 = p1
  p2 = p2
  p3 = p3
  Invoices = {i1}
  PaymentIds = {p1, p2}
  Allocations <- Repeated
  Total <- Of4
  HasDueDate <- FirstIsDue
  Workers = {1, 2}
  PoolSize = 3
  MaxFaults = 1
  None = None
PROPERTY RetriedPaymentsSucceed
CHECK_DEADLOCK FALSE
