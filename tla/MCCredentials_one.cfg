CONSTANTS
  p1 = p1  p2 = p2  s1 = s1  s2 = s2
  Fields = {"login", "password"}
  Secrets = {s1, s2}
  Lost = Lost
  Passwords = {p1, p2}
  NoPassword = NoPassword
  Gone = Gone
  Requests = {r1}
  Wants <- Everything
  InitialPasswords = {p1, NoPassword}
  SigningKeys = {TRUE, FALSE}
  CarefulClients = TRUE
  MaxRequests = 3
  MaxFaults = 1
SPECIFICATION Spec
INVARIANTS SomePasswordReadsAll
PROPERTIES AnswerIsStored
CHECK_DEADLOCK FALSE
