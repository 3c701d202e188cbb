SPECIFICATION Spec
CONSTANTS
  u1 = u1
  Users = {u1}
  TokenIds = {k1, k2, k3}
  TokenUser <- MCTokenUser
  Requests = {r1, r2, r3}
  NoToken = NoToken
SYMMETRY Symmetry
INVARIANTS
  SessionsInv
  ReuseWipesSnapshot
  ExchangedOnce
PROPERTY
  SpentStaysSpent
CHECK_DEADLOCK FALSE
