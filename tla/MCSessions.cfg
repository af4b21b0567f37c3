SPECIFICATION ClientsSpec
CONSTANTS
  u1 = u1
  u2 = u2
  t1 = t1
  t2 = t2
  k1 = k1
  k2 = k2
  k3 = k3
  k4 = k4
  None = None
  Nowhere = Nowhere
  Users = {u1, u2}
  Tenants = {t1, t2}
  RoleNames <- TwoRoles
  RoleSets <- Assigned
  TokenIds = {k1, k2, k3, k4}
  Workers = {1, 2}
  Budgets <- Stories
  CallRoutes <- SomeRoutes
  MaxFaults = 1
  DeviceBudgets <- WithDevice
  MaxKills = 2
INVARIANTS
  SessionsTypeOK
  OneLivePerLogin
  LoggedOutStaysOut
  UsersCanLogIn
  PermissionsAreOfTheTenant
  NoMixedSession
CHECK_DEADLOCK FALSE
