SPECIFICATION Spec
CONSTANTS
  r1 = r1
  r2 = r2
  r3 = r3
  r4 = r4
  r5 = r5
  r6 = r6
  NoUser = NoUser
  NoRow = NoRow
  Users = {alice, bob}
  Requests = {r1, r2, r3, r4, r5}
  Codes = {1, 2}
  Calls <- BookCalls
PROPERTIES
  ImplementsBook
CHECK_DEADLOCK FALSE
