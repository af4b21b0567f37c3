SPECIFICATION Spec
CONSTANTS
  i1 = i1
  i2 = i2
  p1 = p1
  p2 = p2
  p3 = p3
  Invoices = {i1}
  PaymentIds = {p1, p2}
  Allocations <- Halves
  Total <- Of4
  HasDueDate <- NoneIsDue
  Workers = {1}
  PoolSize = 3
  MaxFaults = 0
  None = None
INVARIANT NoneRefused
CHECK_DEADLOCK FALSE
