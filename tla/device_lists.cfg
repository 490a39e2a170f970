SPECIFICATION ListsSpec
CONSTANTS
  p1 = p1
  p2 = p2
  r1 = r1
  r2 = r2
  h1 = h1
  h2 = h2
  Owner = Owner
  Peers = {p1, p2}
  Rooms = {r1, r2}
  Tellers = {h1, h2}
  MaxChanges = 2
  MaxMoves = 3
  MaxFailures = 1
INVARIANTS ListsInv PeersAreTold
SYMMETRY Symmetric
CHECK_DEADLOCK FALSE
