CONSTANTS
  Requests = {r1, r2}
  ConnIds = {c1}
  Hosts = {h1, h2}
  Ports = {p1, p2, p3}
  Tokens = {t1, t2, t3}
  None = None
  Undefined = Undefined
  Gone = Gone
  MaxRequests = 3
  MaxFaults = 2
SPECIFICATION Spec
INVARIANTS OrphansHaveACause   
PROPERTIES AnsweredTokenOpens
CHECK_DEADLOCK FALSE
SYMMETRY Anybody
