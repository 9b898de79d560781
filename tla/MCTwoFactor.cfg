SPECIFICATION FairSpec
CONSTANTS
  r1 = r1
  r2 = r2
  r3 = r3
  r4 = r4
  r5 = r5
  r6 = r6
  NoUser = NoUser
  NoRow = NoRow
  Users = {alice, bob}
  Requests = {r1, r2, r3, r4, r5, r6}
  Codes = {1}
  Calls <- ManagementCalls
INVARIANTS
  TypeOK
  EnabledAccountHasCodes
  ReplacedCodesStayDead
  DisableLeavesNoActivationCodes
  AdmissionSpendsItsCode
PROPERTIES
  ImplementsBook
  CallsAreAnswered
CHECK_DEADLOCK FALSE
