CONSTANTS
  d1 = d1
  m1 = m1
  Devices = {d1}
  Messages = {m1}
  Filters <- SomeFilters
  History = "shared"
  Backfill = 2
  PageLimit = 8
  MaxLog = 5
  MaxOvertakes = 0
SPECIFICATION Spec
INVARIANTS SyncInv DeliveryInv NoSilentGap StateKept
CHECK_DEADLOCK FALSE
