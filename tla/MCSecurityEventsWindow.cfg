SPECIFICATION Spec
CONSTANTS
  login = login
  other = other
  reuse = reuse
  c1 = c1
  c2 = c2
  c3 = c3
  c4 = c4
  ada = ada
  bea = bea
  NoSubject = NoSubject
  Subjects = {login}
  Counted = {login}
  Reports <- LoginReports
  Records = {c1, c2, c3, c4}
  Admins = {ada}
  Threshold = 3
  Window = 2
  MaxTime = 2
INVARIANTS
  SlidingWindow
CHECK_DEADLOCK FALSE
