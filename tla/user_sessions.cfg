CONSTANTS
  h1 = h1
  h2 = h2
  Devices = {"d1", "d2"}
  FirstDevice = "d1"
  Passwords = {"p1", "p2"}
  FirstPassword = "p1"
  Nonces = {"n1"}
  Handlers = {h1, h2}
  MaxSessions = 2
  MaxRevision = 1
  MaxAuth = 3
  MaxRequests = 3
  Aging = {1}
SPECIFICATION Spec
INVARIANTS SessionInv SpentStaysSpent NeverStranded
SYMMETRY Symmetric
CHECK_DEADLOCK FALSE
