SPECIFICATION Spec
CONSTANTS
  Cards = {a, b}
  Discussed = {a}
  Texts = {0, 1}
  NoText = NoText
  NoCardOpen = NoCardOpen
  Posts = {p1}
  MaxPosts = 2
  MaxEdits = 1
  MaxVisits = 2
  MaxLosses = 1
  Ids = {1, 2, 3, 4}
  Places = {1, 2, 3}
  Out = Out
  NoCursor = NoCursor
  Limit = 2
  MaxShifts = 2
  MaxCounted = 4
  Slugs = {s1, s2}
  NoSlug = NoSlug
  Regs = {r1, r2}
  Mine = r1
  MaxChecks = 2
  MaxTries = 2
  Accounts = {me, u}
  Me = me
  Gone = Gone
  Unborn = Unborn
  Asks = {k1, k2}
  NoAsk = NoAsk
  MaxAsks = 3
  MaxTurns = 2
  boss = boss
  ann = ann
  bob = bob
  Users = {boss, ann, bob}
  Managers = {boss, ann}
  Events = {1, 2}
  None = None
INVARIANTS DrawerInv EachGivenOnce RegisterInv TenantsHaveAdmins MembersInv MembersListed ToldInv
PROPERTY TypedIsSent
CONSTRAINT Bounded
SYMMETRY Symmetry
CHECK_DEADLOCK FALSE
