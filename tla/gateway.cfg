SPECIFICATION GatewaySpec
CONSTANTS
  u1 = u1
  u2 = u2
  T = T
  Sockets = {s1, s2, s3}
  Users = {u1, u2}
  Tenants = {T}
  Projects = {p1, p2}
  NoUser = NoUser
  NoMeta = NoMeta
  UserTenant <- MCUserTenant
  MaxQueued = 1
CONSTRAINT OutboxBound
SYMMETRY Symmetry
INVARIANTS
  GatewayTypeOK
  RoomBookkeeping
  RegisteredRoomsInUse
