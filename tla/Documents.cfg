SPECIFICATION DocumentsSpec
CONSTANTS
  JobRows = {1, 2}
  ItemOf <- TwoItems
  RequiredQty <- FourOfTwelve
  JobQty = 12
  Lots = {4, 9}
  Spare <- NoSpare
  Slips = {1, 2, 3, 4}
  NoErrand = NoErrand
  PlanRows = {1, 2}
  Quantities = {1, 2}
  MaxOrders = 2
  MaxEdits = 2
  Planners = {u1, u2}
  NoTask = NoTask
  ReqRows = {1, 2}
  Wanted <- MCWanted
  POs = {1, 2, 3}
  Amounts = {1}
  Bins = {b1}
  Buyers = {u1, u2}
  NoBin = NoBin
  NoDeal = NoDeal
  ForQty = 2
  Reports = {0, 1, 2}
  MaxLogs = 3
  Hands = {u1, u2}
  Free = Free
  Rates = {800, 1600}
  Percents = {2, 5}
  Drivers <- MCDrivers
  Overrides <- MCOverrides
  Default <- MCDefault
  UnitCost = 500
  Cuts = {50}
  Sales = {u1, u2}
  NoSale = NoSale
  MaxPlans = 2
  MaxScenarios = 2
  MaxChanges = 2
  Incomes = {2, 4}
  BookTaxes = {3}
  NoBook = NoBook
  LossAmounts <- OneLoss
  Credits = {1}
  Days = {1}
  MaxSheets = 2
  MaxRuns = 3
  MaxTouches = 2
  Goods = {1, 2, 3}
  Bought = {3}
  Recipes <- MCRecipes
  Operating = 1
  Values = {1, 3}
  MaxBoms = 3
  MaxMoves = 1
  MaxCost = 8
SYMMETRY Symmetry
CHECK_DEADLOCK FALSE
INVARIANTS CountersFollow MarginsHold WorksheetHolds
PROPERTIES RecomputeReachesAll NothingSubmittedBelow RunsRepeat
