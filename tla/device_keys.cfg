SPECIFICATION Spec
CONSTANTS
  d1 = d1
  d2 = d2
  k1 = k1
  k2 = k2
  c1 = c1
  c2 = c2
  n1 = n1
  n2 = n2
  h1 = h1
  h2 = h2
  Devices = {d1, d2}
  KeyIds = {k1, k2}
  Contents = {c1, c2}
  Signers = {s1}
  Nonces = {n1, n2}
  Handlers = {h1, h2}
  None = None
  MaxPos = 3
INVARIANT KeysInv
PROPERTIES ReplacedWithAuth ChangesAreNamed
SYMMETRY Symmetric
CHECK_DEADLOCK FALSE
