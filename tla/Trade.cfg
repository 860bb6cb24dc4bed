SPECIFICATION TradeSpec
CONSTANTS
  A = A
  B = B
  R = R
  P1 = P1
  P2 = P2
  None = None
  Idle = Idle
  Invoices <- MCInvoices
  Payments <- MCPayments
  Workers = {w1}
  Gross <- MCGross
  Withheld <- TaxKept
  Against <- MCAgainst
  Receives = FALSE
  Paid <- MCPaid
  Deducted <- OneDeducted
  Asked <- MCAsked
  Amounts = {1, 2}
  O1 = O1
  O2 = O2
  M1 = M1
  M2 = M2
  R1 = R1
  B1 = B1
  B2 = B2
  B3 = B3
  C1 = C1
  Nil = Nil
  Away = Away
  Orders = {O1, O2}
  Moves = {M1, M2, R1}
  Bills = {B1, B2, B3, C1}
  Clerks = {k1}
  Ordered <- MCOrdered
  Factor <- NoFactor
  Moving <- MCMoving
  Billing <- MCBilling
  NoPurpose = NoPurpose
  Resting = Resting
  Components = {"frame", "wheel"}
  Substitutes <- WithSubstitute
  PerUnit <- MCPerUnit
  Sample = "frame"
  Qty = 2
  Allowed = 3
  E1 = E1
  E2 = E2
  E3 = E3
  Entries = {E1, E2, E3}
  Crew = {c1}
  Numbers = {"n1", "n2"}
  Places = {"s1", "s2"}
  Papers = {"PR", "MT", "DN", "DN2", "CR", "SR", "MI"}
  KindOf <- MCKinds
  RowFor <- MCRows
  Target <- MCTarget
  Returned <- MCReturned
  Keepers = {k1, k2}
  NoPaper = NoPaper
  NoPlace = NoPlace
  Unasked = Unasked
  Lines = {1, 2}
  DateOf <- MCDateOf
  AmountOf <- MCAmountOf
  V1 = V1
  V2 = V2
  V3 = V3
  Vouchers = {V1, V2, V3}
  Dates = {1, 2}
  NoDate = NoDate
  NoVoucher = NoVoucher
  NoMatch = NoMatch
SYMMETRY TradeSymmetry
CHECK_DEADLOCK FALSE
INVARIANTS BalancesAddUp DocumentsAddUp OrderFollowsEntries StatusTellsProgress SerialsFollowVouchers BankFollowsStatement
PROPERTIES ImplementsBooks MovedDriftsUnderReturns OverrunOnlyByCancelling BackedUntilCancelled
