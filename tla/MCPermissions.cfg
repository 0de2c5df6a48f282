CONSTANTS
  u1 = u1  m1 = m1  g1 = g1  h1 = h1  c1 = c1  c2 = c2  t1 = t1
  Users = {u1}
  Groups = {m1, g1, h1}
  Connections = {c1, c2}
  Tables = {t1}
  connectionOf <- TwoConnections
  MainGroups = {m1}
  PermissionIds = {1, 2, 3, 4, 5, 6, 7, 8}
  NoTable = NoTable
  NoRow = NoRow
  Requests = {r1, r2}
  Wants <- GiveAndTake
  adminPermission <- AdminIds
  InitialMembers <- Everybody
  MovingUsers = {u1}
  MaxRequests = 2
  MaxFaults = 1
SPECIFICATION Spec
INVARIANTS MainMembersCanEdit RowsAreNotShared ListingAgreesWithChecks
PROPERTIES AnsweredIsInEffect
SYMMETRY Slots
