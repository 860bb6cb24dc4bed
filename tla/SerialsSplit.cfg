SPECIFICATION NSpec
CONSTANTS
  Numbers = {"n1", "n2"}
  Places = {"s1", "s2"}
  Papers = {"PR", "DN", "CR"}
  KindOf <- SplitKinds
  RowFor <- SplitRows
  Target <- SplitTarget
  Returned <- SplitReturned
  Keepers = {k1, k2}
  NoPaper = NoPaper
  NoPlace = NoPlace
  Unasked = Unasked
CHECK_DEADLOCK FALSE
INVARIANT NumbersFillBins
