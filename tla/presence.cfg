SPECIFICATION MCSpec
CONSTANTS
  t1 = t1
  t2 = t2
  t3 = t3
  u1 = u1
  u2 = u2
  T = T
  Sockets = {s1, s2, s3}
  Users = {u1, u2}
  Tenants = {T}
  Projects = {p1, p2}
  Tabs = {t1, t2, t3}
  NoUser = NoUser
  NoMeta = NoMeta
  NoSocket = NoSocket
  NoProject = NoProject
  UserTenant <- MCUserTenant
  TabUser <- MCTabUser
  MaxMoves = 3
  MaxFaults = 1
  MaxInFlight = 3
  pay1 = pay1
  pay2 = pay2
  r1 = r1
  r2 = r2
  Payments = {pay1, pay2}
  Requests = {r1, r2}
  Limit <- MCLimit
  Free = "FREE"
  Priced = {"PRO", "ENTERPRISE"}
  Unlimited = Unlimited
  None = None
  MaxRequests = 3
  MaxNotices = 1
  MaxRows = 2
INVARIANTS
  BillingInv
  PresenceInv
  NoGhostViewers
  ViewersShown
CHECK_DEADLOCK FALSE
PROPERTIES
  CachesSettle
  DepartedDisappear
