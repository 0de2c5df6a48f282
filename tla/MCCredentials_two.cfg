CONSTANTS
  p1 = p1  p2 = p2  s1 = s1  s2 = s2
  Fields = {"login", "password"}
  Secrets = {s1}
  Lost = Lost
  Passwords = {p1, p2}
  NoPassword = NoPassword
  Gone = Gone
  Requests = {r1, r2}
  Wants <- Protecting
  InitialPasswords = {p1, p2}
  SigningKeys = {TRUE}
  CarefulClients = FALSE
  MaxRequests = 4
  MaxFaults = 1
SPECIFICATION Spec
 
PROPERTIES RestoredIsReadable
SYMMETRY Slots
CHECK_DEADLOCK FALSE
