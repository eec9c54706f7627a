SPECIFICATION FairSpec
CONSTANTS
  payLink = payLink
  s1 = s1
  s2 = s2
  NoSession = NoSession
  NoTxn = NoTxn
  NoInvoice = NoInvoice
  Txns = {payLink}
  AmountOf <- MCAmountOf
  Total = 2
  OpeningStatuses = {"DRAFT"}
  CashAmounts = {1}
  RefundAmounts = {2}
  CreditNotes = {TRUE}
  Ticks = {1}
  Sessions = {s1, s2}
  MaxCash = 1
  MaxRefunds = 1
  MaxFailures = 1
INVARIANTS
  TypeOK
  BookedStaysCaptured
  SucceededOnce
  LedgerAgreesWithDocuments
  RefundsWithinPayment
PROPERTIES
  ImplementsAccount
  CapturedIsBooked
CHECK_DEADLOCK FALSE
