SPECIFICATION SSpec
CONSTANTS
  JobRows = {1}
  ItemOf <- OneItem
  RequiredQty <- OneUnit
  JobQty = 300
  Lots = {100}
  Spare <- NoneSpare
  Slips = {1, 2}
  NoErrand = NoErrand
CHECK_DEADLOCK FALSE
INVARIANT EmptiedJobCancels
