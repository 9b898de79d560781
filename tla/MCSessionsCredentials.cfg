SPECIFICATION FairSpec
CONSTANTS
  r1 = r1  r2 = r2  r3 = r3  r4 = r4
  Requests = {r1, r2, r3, r4}
  Users = {alice, bob}
  Registered = {alice}
  TempPassword = {alice}
  TwoFactor = {alice}
  Administered = {}
  Calls <- CredentialCalls
  NoUser = NoUser
  NoRow = NoRow
  Grace = 0
  RefreshTTL = 1
  AccessTTL = 1
  ChallengeTTL = 1
  LinkTTL = 1
  MaxTime = 2
INVARIANTS
  TypeOK
  TwoFactorSessionsHaveAChallenge
  TemporaryPasswordIsReplaced
  ConsumedLinksRemain
  FoundLinksAreDead
PROPERTIES
  CallsAreAnswered
CHECK_DEADLOCK FALSE
