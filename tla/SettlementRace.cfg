SPECIFICATION Spec
CONSTANTS
  A = A
  B = B
  R = R
  P1 = P1
  P2 = P2
  None = None
  Idle = Idle
  Invoices <- MCInvoices
  Payments <- MCPayments
  Workers = {w1, w2}
  Gross <- MCGross
  Withheld <- NoTax
  Against <- MCAgainst
  Receives = TRUE
  Paid <- MCPaid
  Deducted <- NothingDeducted
  Asked <- MCAsked
  Amounts = {1}
INVARIANT
  NeverOverAllocated
CHECK_DEADLOCK FALSE
