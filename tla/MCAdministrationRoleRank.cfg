SPECIFICATION FairSpec
CONSTANTS
  usuario = usuario
  admin = admin
  director = director
  super = super
  ana = ana
  adan = adan
  dora = dora
  sara = sara
  r1 = r1
  r2 = r2
  r3 = r3
  SystemRoles = {usuario, admin, director, super}
  SystemLevel <- MCSystemLevel
  SystemCap <- MCSystemCap
  Managers = {admin, director, super}
  Top = 3
  Seeded = {ana, adan, dora, sara}
  Suspended = {}
  SeededRole <- MCSeededRole
  Requests = {r1, r2}
  Calls <- RoleCalls
  Levels = {0, 2}
  Caps = {1}
  NoCap = NoCap
  NoRole = NoRole
  NoAccount = NoAccount
  Keep = Keep
PROPERTIES
  RolesAreManagedFromAbove
CHECK_DEADLOCK FALSE
