SPECIFICATION Spec
CONSTANTS
  w1 = w1
  w2 = w2
  l1 = l1
  NInvoices = 2
  Total <- MCTotal
  CashInvoices = {1}
  ForeignInvoices = {2}
  Tolerance = 1
  NetOrder <- MCDueOrder
  Lines = {l1}
  LineAmount <- MCLineAmount
  NoLine = NoLine
  Payable = 2
  Amounts = {1, 3}
  Roles = {"ACCOUNTANT"}
  Ops = {"SENT"}
  Workers = {w1, w2}
  MaxInFlight = 2
  MaxRequests = 3
SYMMETRY WorkerSymmetry
INVARIANTS
  RevenueOnce
\* The users may have no more requests.
CHECK_DEADLOCK FALSE
