SPECIFICATION Spec
CONSTANTS
  MaxVisits = 5
  MaxChanges = 2
  alice = alice
  bob = bob
  t1 = t1
  t2 = t2
  NoRole = NoRole
  NoCookie = NoCookie
  Users = {alice, bob}
  Tabs = {t1}
  FirstRole <- Seeded
  TempPassword = {alice}
  TwoFactor = {bob}
  Administered = {alice}
  AccessTTL = 1
  RefreshTTL = 2
  MaxTime = 1
  MaxRedirects = 3
INVARIANT RefusedEndsAtTheLogin
CHECK_DEADLOCK FALSE
