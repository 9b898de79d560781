SPECIFICATION Spec
CONSTANTS
  MaxVisits = 3
  MaxChanges = 1
  alice = alice
  bob = bob
  t1 = t1
  t2 = t2
  NoRole = NoRole
  NoCookie = NoCookie
  Users = {alice, bob}
  Tabs = {t1, t2}
  FirstRole <- Seeded
  TempPassword = {alice}
  TwoFactor = {alice, bob}
  Administered = {alice}
  AccessTTL = 1
  RefreshTTL = 2
  MaxTime = 1
  MaxRedirects = 3
INVARIANTS TypeOK CookiesAgree PendingAccountsSeeOnlyTheForm RedirectsAreFew
SYMMETRY TabsAlike
CHECK_DEADLOCK FALSE
