CONSTANTS
  Bins = {1, 2}
  Vouchers = {v1, v2}
  Txns = {t1, t2}
  NoTxn = NoTxn
  NoRate = NoRate
  ItemRate = 2
  Drafts <- MCAllDrafts
  SameVoucherTwice = FALSE
  AllowNegative = TRUE
  Tol = 1
SPECIFICATION FairSpec
CHECK_DEADLOCK FALSE
PROPERTIES
  EveryRequestEnds
INVARIANTS
  OrderedLocks
  EmptyBinHasNoValue
  CancelledStockIsGone
