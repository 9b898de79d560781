SPECIFICATION Spec
CONSTANTS
  usuario = usuario
  admin = admin
  director = director
  super = super
  ana = ana
  adan = adan
  dora = dora
  sara = sara
  r1 = r1
  r2 = r2
  r3 = r3
  SystemRoles = {usuario, director, super}
  SystemLevel <- SmallSystemLevel
  SystemCap <- SmallSystemCap
  Managers = {director, super}
  Top = 3
  Seeded = {ana, dora, sara}
  Suspended = {dora}
  SeededRole <- SmallSeededRole
  Requests = {r1, r2}
  Calls <- AccountCalls
  Levels = {0}
  Caps = {1}
  NoCap = NoCap
  NoRole = NoRole
  NoAccount = NoAccount
  Keep = Keep
INVARIANTS
  MaxCountHolds
CHECK_DEADLOCK FALSE
