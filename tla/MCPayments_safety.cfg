SPECIFICATION Spec
CONSTANTS
  i1 = i1
  i2 = i2
  p1 = p1
  p2 = p2
  p3 = p3
  Invoices = {i1, i2}
  PaymentIds = {p1, p2, p3}
  Allocations <- Crossing
  Total <- Of4
  HasDueDate <- FirstIsDue
  Workers = {1, 2, 3}
  PoolSize = 3
  MaxFaults = 1
  None = None
INVARIANT PaymentsTypeOK
INVARIANT BooksBalance
 
PROPERTY StatusCatchesUp
CHECK_DEADLOCK FALSE
