SPECIFICATION Spec
CONSTANTS
  First = r1
  Requests = {r1}
  Consumers = {c1, c2}
  Shards = {s1, s2}
  Chunks = 2
  MaxCancels = 1
  MaxCopies = 0
  MaxFaults = 1
PROPERTY IndexComplete
SYMMETRY Symmetric
CHECK_DEADLOCK FALSE
