CONSTANTS
  u1 = u1  u2 = u2  u3 = u3  m1 = m1  g1 = g1  c1 = c1  e1 = e1  e2 = e2  e3 = e3
  Users = {u1, u2, u3}
  Groups = {m1, g1}
  Connections = {c1}
  Tables = {}
  connectionOf <- OneConnection
  MainGroups = {m1}
  PermissionIds = {1, 2, 3}
  NoTable = NoTable
  NoRow = NoRow
  Requests = {r1, r2}
  Emails = {e1, e2, e3}
  Codes = {k1, k2}
  NoAccount = NoAccount
  NoUser = NoUser
  NoCode = NoCode
  InitialAccounts <- OneInactive
  InitialMembers <- SmallMain
  initialPermission <- AdminAndGroup
  initialLinks <- AdminAndGroupLinks
  Ops = {"add", "remove", "deleteGroup", "verify", "deleteAccount"}
  MaxRequests = 3
  MaxFaults = 1
  FaultsMeetOverlaps = FALSE
SPECIFICATION Spec
 
PROPERTIES ActivatedByOwnLink AddTakesEffect RemovalLeavesSomebody
CHECK_DEADLOCK FALSE
SYMMETRY Slots
