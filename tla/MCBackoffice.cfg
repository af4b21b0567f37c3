SPECIFICATION Spec
CONSTANTS
  t1 = t1
  t2 = t2
  None = None
  Nowhere = Nowhere
  SeedTenant = t1
  Tenants = {t1, t2}
  Ids = {1, 2, 3, 4, 5, 6, 7, 8, 9, 10, 11}
  Workers = {1, 2}
  Keys <- AllKeys
  ChosenNumbers = {2}
  Stories <- AllStories
  MaxFaults = 1
INVARIANTS
  BackofficeTypeOK
  NothingDangles
  OthersUntouched
  CountedNumbers
  PayrollIsComplete
  NoLostBranding
  SeedAgain
CHECK_DEADLOCK FALSE
