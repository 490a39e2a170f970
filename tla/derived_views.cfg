SPECIFICATION ViewsSpec
CONSTANTS
  Rooms = {r1, r2}
  Workers = {w1}
  MaxPos = 2
  MaxEvents = 3
  MaxFailures = 1
  None = None
INVARIANTS DerivedInv 
 
SYMMETRY MCSymmetry
CHECK_DEADLOCK FALSE
