CONSTANTS
  Users = {1,2}
  Ghosts = {2}
  Admissions = {a1, a2}
  Repairs = {a2}
  MaxPos = 3
  MaxVersion = 2
  MaxFaults = 2
  MaxTotal = 3
  AuditLimit = 10
SPECIFICATION RepairedSpec
INVARIANTS FanoutInv AckIsDurable AtMostOnce
PROPERTIES ForgottenStaysHidden ImplementsLedger 
CHECK_DEADLOCK FALSE
