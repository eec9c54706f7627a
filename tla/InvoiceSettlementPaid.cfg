SPECIFICATION Spec
CONSTANTS
  payLink = payLink
  s1 = s1
  s2 = s2
  NoSession = NoSession
  NoTxn = NoTxn
  NoInvoice = NoInvoice
  Txns = {payLink}
  AmountOf <- MCAmountOf
  Total = 2
  OpeningStatuses = {"SENT"}
  CashAmounts = {1}
  RefundAmounts = {2}
  CreditNotes = {TRUE}
  Ticks = {1}
  Sessions = {s1, s2}
  MaxCash = 1
  MaxRefunds = 0
  MaxFailures = 0
INVARIANTS
  PaidMatchesPayments
CHECK_DEADLOCK FALSE
