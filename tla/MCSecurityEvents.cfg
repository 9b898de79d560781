SPECIFICATION FairSpec
CONSTANTS
  login = login
  other = other
  reuse = reuse
  c1 = c1
  c2 = c2
  c3 = c3
  c4 = c4
  ada = ada
  bea = bea
  NoSubject = NoSubject
  Subjects = {login, other, reuse}
  Counted = {login, other}
  Reports <- MixedReports
  Records = {c1, c2, c3}
  Admins = {ada}
  Threshold = 2
  Window = 2
  MaxTime = 2
INVARIANTS
  TypeOK
  OneAlertPerFingerprint
  OccurrencesAreCounted
  RowsHaveTheirFailures
  CountersExpire
PROPERTIES
  ImplementsLog
  CreatorsAlert
CHECK_DEADLOCK FALSE
