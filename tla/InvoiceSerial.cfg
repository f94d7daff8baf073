SPECIFICATION Spec
CONSTANTS
  w1 = w1
  w2 = w2
  l1 = l1
  NInvoices = 2
  Total <- MCTotal
  CashInvoices = {1}
  ForeignInvoices = {2}
  Tolerance = 1
  NetOrder <- MCDueOrder
  Lines = {l1}
  LineAmount <- MCLineAmount
  NoLine = NoLine
  Payable = 3
  Amounts = {1, 3}
  Roles = {"USER", "ACCOUNTANT"}
  Ops = {"SENT", "PAID", "PAY", "MATCH", "ALLOC", "NET", "SIGN", "CONFIRM"}
  Workers = {w1}
  MaxInFlight = 1
  MaxRequests = 5
INVARIANTS
  TypeOK
  RevenueOnce
  PaidWithinTotal
  StatusTellsMoney
  LineBookedOnce
PROPERTIES
  SignedRowIsFrozen
  ImplementsReceivable
\* The users may have no more requests.
CHECK_DEADLOCK FALSE
