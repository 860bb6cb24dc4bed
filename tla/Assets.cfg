SPECIFICATION AFairSpec
CONSTANTS
  AssetIds <- MCIds
  Cost <- MCCost
  Method <- MCMethod
  Rate <- MCRate
  Salvage <- MCSalvage
  DueOn <- MCDueOn
  ManualAmounts <- MCManual
  NewValues <- MCNewValues
  LastDay = 2
  MaxChanges <- MCMaxChanges
  Posters = {sweep, clerk}
  Sweeper = sweep
  NoAsset = NoAsset
  NoPoster = NoPoster
CHECK_DEADLOCK FALSE
INVARIANTS BookedOnce AssetAddsUp
PROPERTY DueIsBooked
