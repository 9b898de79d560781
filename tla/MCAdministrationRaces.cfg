SPECIFICATION Spec
CONSTANTS
  usuario = usuario
  admin = admin
  director = director
  super = super
  ana = ana
  adan = adan
  dora = dora
  sara = sara
  r1 = r1
  r2 = r2
  r3 = r3
  SystemRoles = {usuario, admin, super}
  SystemLevel <- AdminSystemLevel
  SystemCap <- AdminSystemCap
  Managers = {admin, super}
  Top = 3
  Seeded = {ana, adan, sara}
  Suspended = {}
  SeededRole <- AdminSeededRole
  Requests = {r1, r2, r3}
  Calls <- RaceCalls
  Levels = {0, 2, 3}
  Caps = {1}
  NoCap = NoCap
  NoRole = NoRole
  NoAccount = NoAccount
  Keep = Keep
INVARIANTS
  TypeOK
  AccountsKeepARole
  SystemRolesAreFixed
  NobodyReachesTheTop
  PendingAccountsDoNotAct
PROPERTIES
  ImplementsHierarchy
CHECK_DEADLOCK FALSE
