CONSTANTS
  Bins = {1, 2}
  Vouchers = {v1, v2, v3}
  Txns = {t1, t2}
  NoTxn = NoTxn
  NoRate = NoRate
  ItemRate = 2
  Drafts <- MCDrafts
  SameVoucherTwice = TRUE
  AllowNegative = FALSE
  Tol = 1
SYMMETRY Symmetric
SPECIFICATION Spec
CHECK_DEADLOCK FALSE
INVARIANTS
  TypeOK
  LedgerMatchesBin
  NoNegativeStock
PROPERTIES
  InventoryFollowsStock
