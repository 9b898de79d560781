SPECIFICATION Spec
CONSTANTS
  r1 = r1  r2 = r2  r3 = r3  r4 = r4
  Requests = {r1, r2, r3}
  Users = {alice}
  Registered = {alice}
  TempPassword = {}
  TwoFactor = {}
  Administered = {}
  Calls <- ResetRaceCalls
  NoUser = NoUser
  NoRow = NoRow
  Grace = 0
  RefreshTTL = 1
  AccessTTL = 1
  ChallengeTTL = 1
  LinkTTL = 1
  MaxTime = 1
INVARIANTS
  LinkSetsOnePassword
CHECK_DEADLOCK FALSE
