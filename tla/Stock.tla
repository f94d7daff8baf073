----------------------------------- MODULE Stock -----------------------------------
(***************************************************************************)
(* The stock of one organisation: warehouse documents                      *)
(* (apps/api/src/inventory/inventory.service.ts), physical counts          *)
(* (inventory-audit.service.ts) and the lock they put on a warehouse       *)
(* (inventory-reconciliation-lock.ts), production orders                   *)
(* (apps/api/src/manufacturing), the import of opening balances            *)
(* (migration/opening-balances.service.ts) and the FIFO cost of an issue   *)
(* (stock/stock.service.ts).                                               *)
(*                                                                         *)
(* A request reads what it needs, StockItem.quantity among it, and then    *)
(* writes in one transaction: the quantities it computed from what it      *)
(* read, movements, and a journal.  Between the two, other requests may    *)
(* write (READ COMMITTED, no row is locked by a read).  So a request is    *)
(* two steps: the first makes a plan of what to write, the second is the   *)
(* commit.                                                                 *)
(*                                                                         *)
(* Costs are FIFO and negative stock is not allowed, both settings of the  *)
(* organisation.  `books` keeps the accounts of the stock, 201 and 204     *)
(* together, without the purchases, which post to 201 and move no stock.   *)
(***************************************************************************)
EXTENDS Integers, FiniteSets, Sequences, SequencesExt, FiniteSetsExt

CONSTANTS
  Warehouses,
  Goods, Made,  \* a component, which is also sold, and what is made of it
  Invoices,     \* invoices whose revenue is recognised
  Quantity,     \* the goods of each invoice
  Drafts,       \* InventoryAdjustment documents
  DraftCell,    \* the warehouse and product of a draft's line
  DraftDate,
  Counts,       \* InventoryAudit documents
  CountAt,      \* the warehouse each counts
  CountDate,
  Orders,       \* ManufacturingOrders, each of one piece made of one
  OrderAt,
  Entry,        \* the cells people enter receipts and adjustments for
  Lots,         \* their quantities
  Facts,        \* quantities people count
  Prices,       \* unit costs people enter
  AverageCost,  \* StockItem.averageCost, the cost of what no receipt covers
  Today,        \* documents are dated 1..Today, the other movements Today
  MaxMoves,     \* bound: movements in a behaviour
  Handlers,     \* requests that may be in service together
  NoDoc

Products == {Goods, Made}
Cells == Warehouses \X Products
Docs == Invoices \cup Drafts \cup Counts \cup Orders

ASSUME DocumentsAssumption ==
  /\ Quantity \in [Invoices -> Nat \ {0}]
  /\ DraftCell \in [Drafts -> Cells]
  /\ DraftDate \in [Drafts -> 1..Today]
  /\ CountAt \in [Counts -> Warehouses]
  /\ CountDate \in [Counts -> 1..Today]
  /\ OrderAt \in [Orders -> Warehouses]
  /\ NoDoc \notin Docs
  /\ Goods # Made

ASSUME FinitenessAssumption == IsFiniteSet(Warehouses) /\ IsFiniteSet(Orders)

ASSUME NumbersAssumption ==
  /\ Entry \subseteq Cells
  /\ Lots \subseteq Nat \ {0}
  /\ Facts \subseteq Nat
  /\ Prices \subseteq Nat
  /\ AverageCost \in Nat
  /\ Today \in Nat \ {0}
  /\ MaxMoves \in Nat

VARIABLES
  item,     \* StockItem.quantity
  moves,    \* per cell its StockMovements, in the order of createdAt
  settled,  \* the invoices with inventorySettled
  draft,    \* InventoryAdjustment: its status, docType and quantity counted
  count,    \* InventoryAudit: its status and lines
  order,    \* ManufacturingOrder: its status and materialCost
  books,    \* the accounts of the stock, and of work in progress (203)
  opening,  \* writes of account 000, whose updatedAt an import compares
  job       \* the request each handler is serving

docs == <<settled, draft, count, order>>
stock == <<item, moves, books, opening>>
vars == <<stock, docs, job>>

--------------------------------------------------------------------------------
(* Movements and their cost                                                *)

Move == [in : BOOLEAN,
         qty : Nat \ {0},
         price : Nat,       \* unit cost of an IN; an OUT's is never read
         date : 1..Today,   \* documentDate
         doc : Docs \cup {NoDoc}]

Moved(c) == moves[c] # <<>>

\* m behind those of its date and of earlier ones.
Place(s, m) ==
  InsertAt(s, 1 + Cardinality({i \in DOMAIN s : s[i].date <= m.date}), m)

\* The order fifoIssueUnitCost reads movements in: documentDate, createdAt.
ByDate(ms) == FoldLeft(LAMBDA s, m : Place(s, m), <<>>, ms)

\* Mutant: a receipt that is used up takes a unit of the next with it.
LayersOffByOne(ms) ==
  FoldLeft(LAMBDA ls, m :
             IF m.in THEN ls \o [i \in 1..m.qty |-> m.price]
                     ELSE SubSeq(ls, m.qty + 2, Len(ls)),
           <<>>, ByDate(ms))

\* The unit costs of the units in stock, the next one to be issued first:
\* an IN adds its units, an OUT takes the oldest that are there.
Layers(ms) ==
  FoldLeft(LAMBDA ls, m :
             IF m.in THEN ls \o [i \in 1..m.qty |-> m.price]
                     ELSE SubSeq(ls, m.qty + 1, Len(ls)),
           <<>>, ByDate(ms))

SumOf(s) == FoldLeft(LAMBDA a, b : a + b, 0, s)

\* computeIssueUnitCost times the quantity
IssueCost(c, q) ==
  LET ls == Layers(moves[c])
      n == IF q < Len(ls) THEN q ELSE Len(ls)
  IN  SumOf(SubSeq(ls, 1, n)) + (q - n) * AverageCost

--------------------------------------------------------------------------------
(* Requests and their plans                                                *)

Ops == {"idle", "move", "import", "ship", "post", "start", "complete",
        "order", "finish", "cancel"}

\* What a request will write: for some cells the quantity, computed from the
\* one it read, and the movement; the changes of the accounts.
Plan(op, doc, post, stk, wip) ==
  [op |-> op, doc |-> doc, post |-> post, stock |-> stk, wip |-> wip,
   version |-> <<>>]

Idle == Plan("idle", NoDoc, <<>>, 0, 0)

\* Mutant: the quantity of an existing row is not read.
InAnew(c, q, price, d, doc) ==
  [qty |-> q,
   move |-> [in |-> TRUE, qty |-> q, price |-> price, date |-> d, doc |-> doc]]

In(c, q, price, d, doc) ==
  [qty |-> item[c] + q,
   move |-> [in |-> TRUE, qty |-> q, price |-> price, date |-> d, doc |-> doc]]

Out(c, q, d, doc) ==
  [qty |-> item[c] - q,
   move |-> [in |-> FALSE, qty |-> q, price |-> 0, date |-> d, doc |-> doc]]

One(c, p) == [x \in {c} |-> p]

DraftTypes == {"WRITE_OFF", "SURPLUS"}
CountStatuses == {"DRAFT", "COUNTING", "REVIEW", "COMPLETED", "CANCELLED"}
Active == {"COUNTING", "REVIEW"}

\* assertWarehouseNotUnderReconciliation
Frozen(w) == \E k \in Counts : CountAt[k] = w /\ count[k].status \in Active

\* The lines of a finished document are not read again, and dropped.
NoDraft == [status |-> "NONE", type |-> "SURPLUS", actual |-> 0]
Posted == [NoDraft EXCEPT !.status = "POSTED"]
Blank(status) == [status |-> status, lines |-> <<>>, classified |-> {}]
Bare(status) == [status |-> status, cost |-> 0]

Init ==
  /\ item = [c \in Cells |-> 0]
  /\ moves = [c \in Cells |-> <<>>]
  /\ settled = {}
  /\ draft = [n \in Drafts |-> NoDraft]
  /\ count = [k \in Counts |-> Blank("DRAFT")]
  /\ order = [o \in Orders |-> Bare("DRAFT")]
  /\ books = [stock |-> 0, wip |-> 0]
  /\ opening = 0
  /\ job = [h \in Handlers |-> Idle]

Entered == FoldFunction(LAMBDA ms, n : Len(ms) + n, 0, moves)

\* A request is read, checked and planned.
Begin(h, plan) ==
  /\ job[h].op = "idle"
  /\ Entered + Cardinality(DOMAIN plan.post) <= MaxMoves
  /\ job' = [job EXCEPT ![h] = plan]
  /\ UNCHANGED <<stock, docs>>

\* The commit of a plan, but for its document and account 000.
Write(h) ==
  LET j == job[h] IN
  /\ item' = [c \in Cells |-> IF c \in DOMAIN j.post THEN j.post[c].qty ELSE item[c]]
  /\ moves' = [c \in Cells |-> IF c \in DOMAIN j.post
                               THEN Append(moves[c], j.post[c].move) ELSE moves[c]]
  /\ books' = [stock |-> books.stock + j.stock, wip |-> books.wip + j.wip]
  /\ job' = [job EXCEPT ![h] = Idle]

\* A request fails before it commits: a deadlock, a timeout, a crash.
Fail(h) ==
  /\ job[h].op # "idle"
  /\ job' = [job EXCEPT ![h] = Idle]
  /\ UNCHANGED <<stock, docs>>

CommitMove(h) ==
  /\ job[h].op = "move"
  /\ Write(h)
  /\ UNCHANGED <<docs, opening>>

--------------------------------------------------------------------------------
(* Warehouse documents                                                     *)

\* recordWarehouseReceipt: units that cost nothing, and no journal.
Receive(h, c, q, d) ==
  /\ ~Frozen(c[1])
  /\ Begin(h, Plan("move", NoDoc, One(c, In(c, q, 0, d, NoDoc)), 0, 0))

\* adjustStock
AdjustIn(h, c, q, price) ==
  /\ ~Frozen(c[1])
  /\ Begin(h, Plan("move", NoDoc, One(c, In(c, q, price, Today, NoDoc)), q * price, 0))

\* Mutant: nobody looks whether the goods are there.
AdjustOutUnchecked(h, c, q) ==
  /\ ~Frozen(c[1])
  /\ Begin(h, Plan("move", NoDoc, One(c, Out(c, q, Today, NoDoc)), -IssueCost(c, q), 0))

AdjustOut(h, c, q) ==
  /\ ~Frozen(c[1])
  /\ item[c] >= q
  /\ Begin(h, Plan("move", NoDoc, One(c, Out(c, q, Today, NoDoc)), -IssueCost(c, q), 0))

\* transferStock, or a line of recordInventoryTransfers, of one unit: then
\* its unit cost is the cost of one layer.
Transfer(h, c, w, d) ==
  LET to == <<w, c[2]>> IN
  /\ w # c[1]
  /\ ~Frozen(c[1]) /\ ~Frozen(w)
  /\ item[c] >= 1
  /\ Begin(h, Plan("move", NoDoc,
                   [x \in {c, to} |-> IF x = c THEN Out(c, 1, d, NoDoc)
                                      ELSE In(to, 1, IssueCost(c, 1), d, NoDoc)],
                   0, 0))

\* recordWarehouseShipment of all goods of an invoice
Ship(h, i, w, d) ==
  LET c == <<w, Goods>>
      q == Quantity[i]
  IN
  /\ ~Frozen(w)
  /\ i \notin settled
  /\ item[c] >= q
  /\ Begin(h, Plan("ship", i, One(c, Out(c, q, d, i)), -IssueCost(c, q), 0))

CommitShipment(h) ==
  /\ job[h].op = "ship"
  /\ Write(h)
  /\ settled' = settled \cup {job[h].doc}
  /\ UNCHANGED <<draft, count, order, opening>>

\* importInventory, a line; it remembers the versions it read.
Import(h, c, q, price) ==
  /\ ~Frozen(c[1])
  /\ Begin(h, [Plan("import", NoDoc, One(c, In(c, q, price, Today, NoDoc)),
                    q * price, 0)
                 EXCEPT !.version = <<c, Len(moves[c]), opening>>])

\* Both optimistic locks hold, or the import fails.
CommitImport(h) ==
  LET v == job[h].version IN
  /\ job[h].op = "import"
  /\ Len(moves[v[1]]) = v[2]
  /\ opening = v[3]
  /\ opening' = opening + 1
  /\ Write(h)
  /\ UNCHANGED docs

--------------------------------------------------------------------------------
(* Physical adjustments                                                    *)

CreateDraft(n, type, actual) ==
  /\ draft[n].status = "NONE"
  /\ draft' = [draft EXCEPT ![n] =
                 [status |-> "DRAFT", type |-> type, actual |-> actual]]
  /\ UNCHANGED <<stock, settled, count, order, job>>

\* What brings a cell that is off by delta to the quantity counted.
Correction(c, delta, price, d, doc) ==
  IF delta > 0 THEN In(c, delta, price, d, doc) ELSE Out(c, -delta, d, doc)

CorrectionCost(c, delta, price) ==
  IF delta > 0 THEN delta * price ELSE -IssueCost(c, -delta)

\* postAdjustment: the difference is taken from the stock as it is now.
PostDraft(h, n, price) ==
  LET c == DraftCell[n]
      delta == draft[n].actual - item[c]
  IN
  /\ draft[n].status = "DRAFT"
  /\ ~Frozen(c[1])
  /\ IF draft[n].type = "WRITE_OFF" THEN delta <= 0 ELSE delta >= 0
  /\ Begin(h, Plan("post", n,
                   [x \in {c} \ {y \in {c} : delta = 0} |-> Correction(c, delta, price, DraftDate[n], n)],
                   CorrectionCost(c, delta, price), 0))

CommitDraft(h) ==
  /\ job[h].op = "post"
  /\ Write(h)
  /\ draft' = [draft EXCEPT ![job[h].doc] = Posted]
  /\ UNCHANGED <<settled, count, order, opening>>

--------------------------------------------------------------------------------
(* Counts (reconciliations)                                                *)

\* startCounting: the check, and the statement that locks the warehouse.
StartCounting(h, k) ==
  /\ count[k].status = "DRAFT"
  /\ ~Frozen(CountAt[k])
  /\ Begin(h, Plan("start", k, <<>>, 0, 0))

\* The lines are the rows of StockItem in the warehouse; `since` stands for
\* startedAt.
CommitCounting(h) ==
  LET k == job[h].doc
      rows == {p \in Products : Moved(<<CountAt[k], p>>)}
  IN
  /\ job[h].op = "start"
  /\ count' = [count EXCEPT ![k] =
                 [status |-> "COUNTING",
                  lines |-> [p \in rows |->
                               LET c == <<CountAt[k], p>> IN
                               [system |-> item[c], fact |-> item[c],
                                since |-> Len(moves[c])]],
                  classified |-> {}]]
  /\ Write(h)
  /\ UNCHANGED <<settled, draft, order, opening>>

SetFact(k, p, fact) ==
  /\ count[k].status = "COUNTING"
  /\ p \in DOMAIN count[k].lines
  /\ count' = [count EXCEPT ![k].lines[p].fact = fact]
  /\ UNCHANGED <<stock, settled, draft, order, job>>

Submit(k) ==
  /\ count[k].status = "COUNTING"
  /\ DOMAIN count[k].lines # {}
  /\ count' = [count EXCEPT ![k].status = "REVIEW"]
  /\ UNCHANGED <<stock, settled, draft, order, job>>

Delta(k, p) == count[k].lines[p].fact - count[k].lines[p].system

\* classifyLine: SURPLUS or a SHORTAGE, as the difference requires.
Classify(k, p) ==
  /\ count[k].status = "REVIEW"
  /\ p \in DOMAIN count[k].lines
  /\ Delta(k, p) # 0
  /\ count' = [count EXCEPT ![k].classified = @ \cup {p}]
  /\ UNCHANGED <<stock, settled, draft, order, job>>

Differing(k) == {p \in DOMAIN count[k].lines : Delta(k, p) # 0}

Corrected(k) == {<<CountAt[k], p>> : p \in Differing(k)}

\* Mutant: the quantity counted is written, as if nothing had moved since.
CompleteAsCounted(h, k, price) ==
  /\ count[k].status = "REVIEW"
  /\ Differing(k) \subseteq count[k].classified
  /\ \A c \in Corrected(k) : item[c] + Delta(k, c[2]) >= 0
  /\ Begin(h, Plan("complete", k,
                   [c \in Corrected(k) |->
                      [Correction(c, Delta(k, c[2]), price, CountDate[k], k)
                         EXCEPT !.qty = count[k].lines[c[2]].fact]],
                   MapThenSumSet(LAMBDA c : CorrectionCost(c, Delta(k, c[2]), price),
                                 Corrected(k)),
                   0))

\* complete: the differences are applied to the stock there is now, whatever
\* moved since the count began; a shortage must be in stock.
Complete(h, k, price) ==
  /\ count[k].status = "REVIEW"
  /\ Differing(k) \subseteq count[k].classified
  /\ \A c \in Corrected(k) : item[c] + Delta(k, c[2]) >= 0
  /\ Begin(h, Plan("complete", k,
                   [c \in Corrected(k) |-> Correction(c, Delta(k, c[2]), price, CountDate[k], k)],
                   MapThenSumSet(LAMBDA c : CorrectionCost(c, Delta(k, c[2]), price),
                                 Corrected(k)),
                   0))

\* Mutant: the classes of lines outlive the lines.
CommitCountKeepsClasses(h) ==
  /\ job[h].op = "complete"
  /\ Write(h)
  /\ count' = [count EXCEPT ![job[h].doc].status = "COMPLETED",
                            ![job[h].doc].lines = <<>>]
  /\ UNCHANGED <<settled, draft, order, opening>>

CommitCount(h) ==
  /\ job[h].op = "complete"
  /\ Write(h)
  /\ count' = [count EXCEPT ![job[h].doc] = Blank("COMPLETED")]
  /\ UNCHANGED <<settled, draft, order, opening>>

CancelCount(k) ==
  /\ count[k].status \in {"DRAFT"} \cup Active
  /\ count' = [count EXCEPT ![k] = Blank("CANCELLED")]
  /\ UNCHANGED <<stock, settled, draft, order, job>>

--------------------------------------------------------------------------------
(* Production: one piece is made of one component                          *)

\* startOrder
StartOrder(h, o) ==
  LET c == <<OrderAt[o], Goods>>
      cost == IssueCost(c, 1)
  IN
  /\ order[o].status = "DRAFT"
  /\ ~Frozen(OrderAt[o])
  /\ item[c] >= 1
  /\ Begin(h, Plan("order", o, One(c, Out(c, 1, Today, o)), -cost, cost))

CommitOrder(h) ==
  /\ job[h].op = "order"
  /\ Write(h)
  /\ order' = [order EXCEPT ![job[h].doc] =
                 [status |-> "IN_PROGRESS", cost |-> job[h].wip]]
  /\ UNCHANGED <<settled, draft, count, opening>>

\* completeOrder does not look whether the warehouse is being counted.
FinishOrder(h, o) ==
  LET c == <<OrderAt[o], Made>>
      cost == order[o].cost
  IN
  /\ order[o].status = "IN_PROGRESS"
  /\ Begin(h, Plan("finish", o, One(c, In(c, 1, cost, Today, o)), cost, -cost))

CommitFinish(h) ==
  /\ job[h].op = "finish"
  /\ Write(h)
  /\ order' = [order EXCEPT ![job[h].doc] = Bare("COMPLETED")]
  /\ UNCHANGED <<settled, draft, count, opening>>

\* Mutant: the component is returned, and its cost stays in production.
CancelOrderKeepsCost(h, o) ==
  LET c == <<OrderAt[o], Goods>> IN
  \/ /\ order[o].status = "DRAFT"
     /\ Begin(h, Plan("cancel", o, <<>>, 0, 0))
  \/ /\ order[o].status = "IN_PROGRESS"
     /\ Begin(h, Plan("cancel", o, One(c, In(c, 1, order[o].cost, Today, o)), 0, 0))

\* cancelOrder does not either; it returns the component.
CancelOrder(h, o) ==
  LET c == <<OrderAt[o], Goods>>
      cost == order[o].cost
  IN
  \/ /\ order[o].status = "DRAFT"
     /\ Begin(h, Plan("cancel", o, <<>>, 0, 0))
  \/ /\ order[o].status = "IN_PROGRESS"
     /\ Begin(h, Plan("cancel", o, One(c, In(c, 1, cost, Today, o)), cost, -cost))

CommitCancel(h) ==
  /\ job[h].op = "cancel"
  /\ Write(h)
  /\ order' = [order EXCEPT ![job[h].doc] = Bare("CANCELLED")]
  /\ UNCHANGED <<settled, draft, count, opening>>

\* Mutant: production is released in a warehouse that is being counted.
ReleaseIntoCount(h, w) ==
  LET c == <<w, Goods>>
      made == <<w, Made>>
  IN
  /\ item[c] >= 1
  /\ Begin(h, Plan("move", NoDoc,
                   [x \in {c, made} |->
                      IF x = c THEN Out(c, 1, Today, NoDoc)
                      ELSE In(made, 1, IssueCost(c, 1), Today, NoDoc)],
                   0, 0))

\* releaseProduction: both halves of an order at once.
Release(h, w) ==
  LET c == <<w, Goods>>
      made == <<w, Made>>
  IN
  /\ ~Frozen(w)
  /\ item[c] >= 1
  /\ Begin(h, Plan("move", NoDoc,
                   [x \in {c, made} |->
                      IF x = c THEN Out(c, 1, Today, NoDoc)
                      ELSE In(made, 1, IssueCost(c, 1), Today, NoDoc)],
                   0, 0))

--------------------------------------------------------------------------------
Dates == 1..Today

Commit(h) ==
  \/ CommitMove(h) \/ CommitShipment(h) \/ CommitImport(h) \/ CommitDraft(h)
  \/ CommitCounting(h) \/ CommitCount(h)
  \/ CommitOrder(h) \/ CommitFinish(h) \/ CommitCancel(h)

Next ==
  \/ \E h \in Handlers, c \in Entry, q \in Lots, d \in Dates : Receive(h, c, q, d)
  \/ \E h \in Handlers, c \in Entry, q \in Lots, price \in Prices :
       AdjustIn(h, c, q, price) \/ Import(h, c, q, price)
  \/ \E h \in Handlers, c \in Entry, q \in Lots : AdjustOut(h, c, q)
  \/ \E h \in Handlers, c \in Cells, w \in Warehouses, d \in Dates : Transfer(h, c, w, d)
  \/ \E h \in Handlers, i \in Invoices, w \in Warehouses, d \in Dates : Ship(h, i, w, d)
  \/ \E n \in Drafts, type \in DraftTypes, actual \in Facts :
       CreateDraft(n, type, actual)
  \/ \E h \in Handlers, n \in Drafts, price \in Prices :
       PostDraft(h, n, price)
  \/ \E h \in Handlers, k \in Counts : StartCounting(h, k)
  \/ \E k \in Counts, p \in Products, fact \in Facts : SetFact(k, p, fact)
  \/ \E k \in Counts : Submit(k) \/ CancelCount(k)
  \/ \E k \in Counts, p \in Products : Classify(k, p)
  \/ \E h \in Handlers, k \in Counts, price \in Prices :
       Complete(h, k, price)
  \/ \E h \in Handlers, o \in Orders :
       StartOrder(h, o) \/ FinishOrder(h, o) \/ CancelOrder(h, o)
  \/ \E h \in Handlers, w \in Warehouses : Release(h, w)
  \/ \E h \in Handlers : Commit(h) \/ Fail(h)

Spec == Init /\ [][Next]_vars

--------------------------------------------------------------------------------
(* Properties                                                              *)

Line == [system : Nat, fact : Nat, since : Nat]

TypeOK ==
  /\ item \in [Cells -> Int]
  /\ moves \in [Cells -> Seq(Move)]
  /\ settled \subseteq Invoices
  /\ draft \in [Drafts -> [status : {"NONE", "DRAFT", "POSTED"},
                           type : DraftTypes, actual : Nat]]
  /\ DOMAIN count = Counts
  /\ \A k \in Counts :
       /\ count[k].status \in CountStatuses
       /\ DOMAIN count[k].lines \subseteq Products
       /\ \A p \in DOMAIN count[k].lines : count[k].lines[p] \in Line
       /\ count[k].classified \subseteq DOMAIN count[k].lines
  /\ order \in [Orders -> [status : {"DRAFT", "IN_PROGRESS", "COMPLETED", "CANCELLED"},
                           cost : Nat]]
  /\ books \in [stock : Int, wip : Int]
  /\ opening \in Nat

\* Stock is never negative: whoever takes goods out has looked, and writes
\* the quantity computed from the one looked at.
NeverNegative == \A c \in Cells : item[c] >= 0

Net(ms) == FoldLeft(LAMBDA n, m : IF m.in THEN n + m.qty ELSE n - m.qty, 0, ms)

\* The stock of a product is what its movements add up to.
QuantityIsMovements == \A c \in Cells : item[c] = Net(moves[c])

\* An issue that passed the check of the quantity is costed from receipts to
\* its last unit, in whatever order documents were dated.
LayersCoverStock == \A c \in Cells : Len(Layers(moves[c])) >= item[c]

InProgress == {o \in Orders : order[o].status = "IN_PROGRESS"}

Ordered(ms) == \A i, j \in 1..Len(ms) : i < j => ms[i].date <= ms[j].date

\* The accounts of the stock hold the cost of what is in stock, and the
\* account of work in progress that of the orders in progress, as long as
\* every document was dated after those entered before it.
BooksMatchStock ==
  (\A c \in Cells : Ordered(moves[c])) =>
    /\ books.stock = MapThenSumSet(LAMBDA c : SumOf(Layers(moves[c])), Cells)
    /\ books.wip = MapThenSumSet(LAMBDA o : order[o].cost, InProgress)

\* While a warehouse is counted no movement of its stock is made but those of
\* the count's end, as the header of inventory-reconciliation-lock.ts has it.
CountedStockRests ==
  [][\A c \in Cells :
       Frozen(c[1]) /\ moves'[c] # moves[c] =>
         LET doc == moves'[c][Len(moves'[c])].doc IN
           doc \in Counts /\ count'[doc].status = "COMPLETED"]_vars

\* What is left of it, one request at a time: the stock of a warehouse that is
\* counted is also moved by the orders in production, whose completion and
\* cancellation do not ask, and by nothing else.
OnlyProductionMovesCountedStock ==
  [][\A c \in Cells :
       Frozen(c[1]) /\ moves'[c] # moves[c] =>
         LET doc == moves'[c][Len(moves'[c])].doc IN
           \/ doc \in Counts /\ count'[doc].status = "COMPLETED"
           \/ doc \in Orders /\ order[doc].status = "IN_PROGRESS"]_vars

\* When a draft is posted the stock is what its line counted; when a count is
\* completed it is what was counted and what production moved since.
DocumentsSettleStock ==
  [][/\ \A n \in Drafts :
          draft'[n].status = "POSTED" /\ draft[n].status # "POSTED" =>
            item'[DraftCell[n]] = draft[n].actual
     /\ \A k \in Counts :
          count'[k].status = "COMPLETED" /\ count[k].status # "COMPLETED" =>
            \A p \in DOMAIN count[k].lines :
              LET c == <<CountAt[k], p>>
                  l == count[k].lines[p]
              IN  item'[c] = l.fact + Net(SubSeq(moves[c], l.since + 1, Len(moves[c])))]_vars
================================================================================
