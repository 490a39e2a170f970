SPECIFICATION FairSpec
CONSTANTS
  m1 = m1
  m2 = m2
  u1 = u1
  u2 = u2
  Media = {m1, m2}
  Uploads = {u1, u2}
  Create = Create
  Alarm = Alarm
  None = None
  MaxPending = 1
  MaxCrashes = 1
INVARIANTS MediaInv
PROPERTIES CompletedIsFinal  
CHECK_DEADLOCK FALSE
