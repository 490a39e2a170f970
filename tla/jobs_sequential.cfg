SPECIFICATION FairSpec
CONSTANTS
  First = r1
  Requests = {r1, r2}
  Consumers = {c1}
  Shards = {s1}
  Chunks = 3
  MaxCancels = 0
  MaxCopies = 1
  MaxFaults = 1
INVARIANT JobsInv
 
 
CHECK_DEADLOCK FALSE
