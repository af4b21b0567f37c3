SPECIFICATION ClientsSpec
CONSTANTS
  u1 = u1
  u2 = u2
  t1 = t1
  t2 = t2
  k1 = k1
  k2 = k2
  k3 = k3
  k4 = k4
  None = None
  Nowhere = Nowhere
  Users = {u1}
  Tenants = {t1, t2}
  RoleNames <- TwoRoles
  RoleSets <- Assigned
  TokenIds = {k1, k2, k3, k4}
  Workers = {1, 2}
  Budgets <- OneRegistered
  CallRoutes <- SomeRoutes
  MaxFaults = 0
  DeviceBudgets = {}
  MaxKills = 0
INVARIANTS
  PermissionDecides
CHECK_DEADLOCK FALSE
