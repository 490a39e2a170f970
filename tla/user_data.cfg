SPECIFICATION DataSpec
CONSTANTS
  Rooms = {room}
  Names = {n1, n2}
  Contents = {c1}
  Tags = {t1}
  Rules <- MCRules
  Handlers = {h1, h2}
  Absent = Absent
  MaxPos = 3
  MaxVersion = 2
  MaxMoves = 1
  MaxFaults = 1
  MaxLate = 1
INVARIANTS UserDataInv SyncedIsStored
PROPERTIES PlacedAsAsked
CHECK_DEADLOCK FALSE
SYMMETRY MCSymmetry
