CONSTANTS
  Requests = {r1, r2}
  UserIds = {u1, u2}
  Emails = {e1, e2}
  Passwords = {p1, p2}
  LinkIds = {l1, l2}
  TokenIds = {k1}
  None = None
  Undefined = Undefined
  Gone = Gone
  Lost = Lost
  MaxRequests = 5
SPECIFICATION Spec
INVARIANTS ActiveWasConfirmed SpentLinksAreGone DeletedStaysDeleted AnswersAreTrue
CHECK_DEADLOCK FALSE
SYMMETRY Anybody
