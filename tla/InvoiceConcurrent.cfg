SPECIFICATION Spec
CONSTANTS
  w1 = w1
  w2 = w2
  l1 = l1
  NInvoices = 2
  Total <- MCTotal
  CashInvoices = {1}
  ForeignInvoices = {2}
  Tolerance = 1
  NetOrder <- MCDueOrder
  Lines = {l1}
  LineAmount <- MCLineAmount
  NoLine = NoLine
  Payable = 2
  Amounts = {1}
  Roles = {"ACCOUNTANT"}
  Ops = {"SENT", "PAID", "PAY", "MATCH", "SIGN", "CONFIRM"}
  Workers = {w1, w2}
  MaxInFlight = 2
  MaxRequests = 4
SYMMETRY WorkerSymmetry
INVARIANTS
  PaidIsSumOfPayments
  StatusNeverAheadOfMoney
  RegistersMatchMoney
\* The users may have no more requests.
CHECK_DEADLOCK FALSE
