SPECIFICATION Spec
CONSTANTS
  login = login
  other = other
  reuse = reuse
  c1 = c1
  c2 = c2
  c3 = c3
  c4 = c4
  ada = ada
  bea = bea
  NoSubject = NoSubject
  Subjects = {login, reuse}
  Counted = {login}
  Reports <- PairReports
  Records = {c1, c2, c3}
  Admins = {ada, bea}
  Threshold = 2
  Window = 1
  MaxTime = 1
PROPERTIES
  ImplementsLog
CHECK_DEADLOCK FALSE
