SPECIFICATION Spec
CONSTANTS
  s1 = s1
  s2 = s2
  c1 = c1
  c2 = c2
  h1 = h1
  h2 = h2
  Sessions = {s1, s2}
  Contents = {c1, c2}
  None = None
  Handlers = {h1, h2}
  MaxVersions = 2
  Updated = {1}
  MaxCalls = 3
  MaxFailures = 1
INVARIANTS BackupInv BackedUpIsReadable
PROPERTY DeletedForGood
SYMMETRY Symmetric
CHECK_DEADLOCK FALSE
