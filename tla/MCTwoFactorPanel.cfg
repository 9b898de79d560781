SPECIFICATION FairPanelSpec
CONSTANTS
  alice = alice
  r1 = r1
  r2 = r2
  r3 = r3
  r4 = r4
  NoUser = NoUser
  NoRow = NoRow
  Users = {alice}
  Requests = {r1, r2, r3, r4}
  Codes = {1}
  Calls <- PanelCalls
  Tabs = {t1, t2}
  Owner <- OneOwner
INVARIANTS
  PanelTypeOK
  PanelAgrees
  CodesOnScreenAreLive
PROPERTIES
  ButtonsAreFreed
CHECK_DEADLOCK FALSE
