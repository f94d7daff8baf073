SPECIFICATION FairSpec
CONSTANTS
  w1 = w1
  w2 = w2
  l1 = l1
  NInvoices = 2
  Total <- MCTotal
  CashInvoices = {1}
  ForeignInvoices = {2}
  Tolerance = 1
  NetOrder <- MCReversed
  Lines = {l1}
  LineAmount <- MCLineAmount
  NoLine = NoLine
  Payable = 4
  Amounts = {1, 4}
  Roles = {"ACCOUNTANT"}
  Ops = {"SENT", "PAID", "MATCH", "ALLOC", "NET"}
  Workers = {w1, w2}
  MaxInFlight = 2
  MaxRequests = 4
INVARIANTS
  LedgerBacksReceivables
  RevenueBeforePayment
  OnlyTiesDeadlock
PROPERTIES
  RequestsAnswered
\* The users may have no more requests.
CHECK_DEADLOCK FALSE
