SPECIFICATION Spec
CONSTANTS
  a = a
  b = b
  h1 = h1
  h2 = h2
  n1 = n1
  k1 = k1
  k2 = k2
  i1 = i1
  o1 = o1
  Goods = Goods
  Made = Made
  NoDoc = NoDoc
  Warehouses = {a, b}
  Invoices = {i1}
  Quantity <- MCQuantity
  Drafts = {n1}
  DraftCell <- MCDraftCell
  DraftDate <- MCDraftDate
  CountDate <- MCCountDate
  Entry <- MCEntry
  Counts = {k1, k2}
  CountAt <- MCCountAt
  Orders = {o1}
  OrderAt <- MCOrderAt
  Lots = {2}
  Facts = {1}
  Prices = {1}
  AverageCost = 1
  Today = 2
  MaxMoves = 4
  Handlers = {h1}
SYMMETRY CountSymmetry
INVARIANTS
  TypeOK
  NeverNegative
  QuantityIsMovements
  LayersCoverStock
  BooksMatchStock
PROPERTIES
  OnlyProductionMovesCountedStock
  DocumentsSettleStock
\* Users may have nothing more to enter.
CHECK_DEADLOCK FALSE
