------------------------- MODULE InvoicePaymentsProofs -------------------------
(***************************************************************************)
(* Theorems about InvoicePayments that hold for every number of invoices,  *)
(* workers and requests, with their proofs.                                *)
(***************************************************************************)
EXTENDS InvoicePayments, TLAPS

(* What a request in service knows about itself.                            *)
TxOK(t) ==
  /\ t.pc # "idle" => t.req.op \in Ops
  /\ t.req.op = "MATCH" => t.req.line \in Lines
  /\ t.pc = "write" /\ t.req.op = "PAY"
       => Payment(t.req.inv, t.seen, t.req.amount) > 0
  /\ t.pc = "write" /\ t.req.op = "MATCH"
       => Payment(t.req.inv, t.seen, LineAmount[t.req.line]) > 0
  /\ t.pc = "bucketWrite" => t.pos \in Invoices
  /\ t.pc = "bucketRead" => t.pos > 0

TxInv ==
  /\ tx \in [Workers -> Tx]
  /\ \A w \in Workers : TxOK(tx[w])
  /\ \A v, w \in Workers : v # w => tx[v].held \cap tx[w].held = {}

RowsInv ==
  /\ inv \in [Invoices -> Row]
  /\ payRows \in [Invoices -> Nat]
  /\ allocRows \in [Invoices -> Nat]
  /\ mirror \in [Invoices -> Nat]
  /\ kmo \in [Invoices -> Nat]
  /\ revPosted \in [Invoices -> Nat]
  /\ gl \in [ar : Int, revenue : Nat, cash : Nat, bank : Nat, fx : Nat,
             payable : Int]
  /\ matched \in [Lines -> Invoices \cup {0}]
  /\ booked \in [Lines -> Nat]
  /\ logs \in [Invoices -> [pending : Nat, completed : Nat]]
  /\ served \in Nat

IInv == TxInv /\ RowsInv

--------------------------------------------------------------------------------
LEMMA IdleFacts == Idle \in Tx /\ TxOK(Idle) /\ Idle.held = {}
BY InvoicesAssumption, LinesAssumption
   DEF Idle, Tx, TxOK, NoRequest, Request, Pcs, AbsentRow, Row, Status, NoPlan,
       NoRows, Invoices, OpNames

(* A step of one worker keeps TxInv when the new record of that worker is   *)
(* well formed and holds no row that another worker holds.                  *)
LEMMA TxStep ==
  ASSUME TxInv, NEW w \in Workers, NEW t \in Tx, TxOK(t),
         tx' = [tx EXCEPT ![w] = t],
         \A v \in Workers : v # w => tx[v].held \cap t.held = {}
  PROVE  TxInv'
<1>1. tx' \in [Workers -> Tx]
  BY DEF TxInv
<1>2. \A v \in Workers : tx'[v] = IF v = w THEN t ELSE tx[v]
  BY DEF TxInv
<1>3. \A v \in Workers : TxOK(tx'[v])
  BY <1>2 DEF TxInv
<1>4. \A u, v \in Workers : u # v => tx'[u].held \cap tx'[v].held = {}
  BY <1>2 DEF TxInv
<1> QED BY <1>1, <1>3, <1>4 DEF TxInv, TxOK, Payment, Remaining, LeastOf

LEMMA FinishTx == ASSUME TxInv, NEW w \in Workers, Finish(w) PROVE TxInv'
BY IdleFacts, TxStep DEF Finish

LEMMA RejectInv == ASSUME IInv, NEW w \in Workers, Reject(w) PROVE IInv'
BY FinishTx DEF IInv, RowsInv, Reject, books, otherRows, lineVars

(* Moving on, with or without a row just read.                              *)
LEMMA GotoTx ==
  ASSUME TxInv, NEW w \in Workers, NEW pc \in Pcs, tx[w].pc # "idle",
         pc \notin {"write", "bucketRead", "bucketWrite"}, Goto(w, pc)
  PROVE  TxInv'
<1> DEFINE t == [tx[w] EXCEPT !.pc = pc]
<1>1. tx[w] \in Tx /\ TxOK(tx[w])
  BY DEF TxInv
<1>2. t \in Tx /\ TxOK(t) /\ t.held = tx[w].held
  BY <1>1 DEF Tx, TxOK
<1>3. tx' = [tx EXCEPT ![w] = t]
  BY DEF Goto
<1>4. \A v \in Workers : v # w => tx[v].held \cap t.held = {}
  BY <1>2 DEF TxInv
<1> QED BY <1>2, <1>3, <1>4, TxStep

LEMMA ReadThenTx ==
  ASSUME TxInv, NEW w \in Workers, NEW row \in Row, NEW pc \in Pcs,
         tx[w].pc # "idle", ReadThen(w, row, pc),
         pc = "write" /\ tx[w].req.op = "PAY"
           => Payment(tx[w].req.inv, row, tx[w].req.amount) > 0,
         pc = "write" /\ tx[w].req.op = "MATCH"
           => Payment(tx[w].req.inv, row, LineAmount[tx[w].req.line]) > 0,
         pc # "bucketRead", pc = "bucketWrite" => tx[w].pos \in Invoices
  PROVE  TxInv'
<1> DEFINE t == [tx[w] EXCEPT !.pc = pc, !.seen = row]
<1>1. tx[w] \in Tx /\ TxOK(tx[w])
  BY DEF TxInv
<1>2. /\ t \in Tx
      /\ t.held = tx[w].held /\ t.req = tx[w].req /\ t.pos = tx[w].pos
      /\ t.pc = pc /\ t.seen = row
  BY <1>1 DEF Tx
<1>3. TxOK(t)
  BY <1>1, <1>2 DEF TxOK
<1>4. tx' = [tx EXCEPT ![w] = t]
  BY <1>1 DEF ReadThen, Tx, TxInv
<1>5. \A v \in Workers : v # w => tx[v].held \cap t.held = {}
  BY <1>2 DEF TxInv
<1> QED BY <1>2, <1>3, <1>4, <1>5, TxStep

LEMMA ProceedRows == ASSUME RowsInv, Proceed PROVE RowsInv'
BY DEF RowsInv, Proceed, books, otherRows, lineVars

(* The parameters of a request in service.                                  *)
LEMMA Parameters ==
  ASSUME IInv, NEW w \in Workers
  PROVE  /\ tx[w] \in Tx /\ TxOK(tx[w])
         /\ tx[w].req.inv \in Invoices /\ tx[w].req.amount \in Nat
         /\ tx[w].req.cash \in BOOLEAN
         /\ tx[w].seen \in Row
         /\ inv[tx[w].req.inv] \in Row
         /\ tx[w].req.op = "MATCH"
              => /\ tx[w].req.line \in Lines
                 /\ LineAmount[tx[w].req.line] \in Nat \ {0}
BY LinesAssumption DEF IInv, TxInv, RowsInv, TxOK, Tx, Request

(* What the helpers compute from a row and an amount.                       *)
LEMMA PaymentType ==
  ASSUME NEW i \in Invoices, NEW row \in Row, NEW a \in Nat
  PROVE  /\ Remaining(i, row) \in Int
         /\ Payment(i, row, a) \in Int
         /\ Rounding(i, row, a) \in Nat
BY InvoicesAssumption DEF Remaining, Payment, Rounding, LeastOf, Row

LEMMA DerivedType ==
  ASSUME NEW i \in Invoices, NEW row \in Row, NEW paid \in Nat
  PROVE  /\ Derived(i, row, paid) \in Row
         /\ Derived(i, row, paid).paid = row.paid
         /\ Derived(i, row, paid).rev = row.rev
<1> DEFINE st == PaymentStatus(i, paid, row.status)
           rc == PaymentReceived(i, paid)
<1>1. st \in Status
  BY DEF PaymentStatus, Row, Status
<1>2. rc \in BOOLEAN
  BY DEF PaymentReceived
<1> HIDE DEF st, rc
<1>3. [row EXCEPT !.status = st, !.recv = rc] \in Row
  BY <1>1, <1>2 DEF Row
<1>4. Derived(i, row, paid) = [row EXCEPT !.status = st, !.recv = rc]
  BY DEF Derived, st, rc
<1> QED BY <1>3, <1>4 DEF Row

LEMMA PaidType ==
  ASSUME NEW i \in Invoices, NEW row \in Row, NEW a \in Nat
  PROVE  /\ Paid(i, row, a) \in Row
         /\ Paid(i, row, a).paid = row.paid + a
         /\ Paid(i, row, a).rev = row.rev
<1> DEFINE r == [row EXCEPT !.paid = @ + a]
<1>1. r \in Row /\ r.paid = row.paid + a /\ r.rev = row.rev /\ row.paid + a \in Nat
  BY DEF Row
<1> QED BY <1>1, DerivedType DEF Paid

LEMMA BookRows ==
  ASSUME RowsInv, NEW i \in Invoices, NEW a \in Nat, NEW c, NEW m,
         BookPayment(i, a, c, m)
  PROVE  /\ payRows' \in [Invoices -> Nat]
         /\ payRows' = [payRows EXCEPT ![i] = @ + a]
         /\ allocRows' \in [Invoices -> Nat]
         /\ mirror' \in [Invoices -> Nat]
         /\ kmo' \in [Invoices -> Nat]
BY DEF RowsInv, BookPayment

LEMMA PostRows ==
  ASSUME RowsInv, NEW i \in Invoices, NEW rec, NEW a \in Nat,
         NEW r \in Nat, NEW c, Post(i, rec, a, r, c)
  PROVE  /\ revPosted' \in [Invoices -> Nat]
         /\ gl' \in [ar : Int, revenue : Nat, cash : Nat, bank : Nat, fx : Nat,
                      payable : Int]
<1> DEFINE t == IF rec THEN Total[i] ELSE 0
           g == [gl EXCEPT !.ar = @ + t - a, !.revenue = @ + t, !.fx = @ + r]
           GL == [ar : Int, revenue : Nat, cash : Nat, bank : Nat, fx : Nat,
                  payable : Int]
<1>1. t \in Nat
  BY InvoicesAssumption
<1>2. gl \in GL
  BY DEF RowsInv
<1>3. g \in GL
  <2>1. gl.ar + t - a \in Int /\ gl.revenue + t \in Nat /\ gl.fx + r \in Nat
    BY <1>1, <1>2
  <2> HIDE DEF t
  <2>2. [gl EXCEPT !.ar = gl.ar + t - a, !.revenue = gl.revenue + t,
                   !.fx = gl.fx + r] \in GL
    BY <2>1, <1>2
  <2> QED BY <2>2
<1> HIDE DEF g
<1>4. Debit(g, c, a + r) \in GL
  BY <1>3 DEF Debit
<1>5. gl' = Debit(g, c, a + r)
  BY DEF Post, g
<1>6. revPosted' \in [Invoices -> Nat]
  BY DEF Post, RowsInv
<1> QED BY <1>4, <1>5, <1>6

--------------------------------------------------------------------------------
(* Type correctness, action by action                                      *)

LEMMA CreateInv == ASSUME IInv, NEW i \in Invoices, Create(i) PROVE IInv'
<1>1. RowsInv'
  BY DEF IInv, RowsInv, Create, Row, Status, books, otherRows, lineVars
<1>2. TxInv'
  BY DEF IInv, TxInv, Create
<1> QED BY <1>1, <1>2 DEF IInv

(* The requests users send are well formed.                                 *)
LEMMA RequestFacts ==
  ASSUME NEW r \in Requests
  PROVE  /\ r \in Request
         /\ r.op \in Ops
         /\ r.op = "MATCH" => r.line \in Lines
<1> DEFINE Fields == [op : Ops, inv : Invoices, amount : Amounts \cup {0},
                      cash : BOOLEAN, role : Roles \cup {"ACCOUNTANT"},
                      line : Lines \cup {NoLine}]
<1>1. r \in Fields /\ (r.op = "MATCH" <=> r.line # NoLine)
  BY DEF Requests
<1>2. /\ Ops \subseteq OpNames
      /\ Amounts \cup {0} \subseteq Nat
      /\ Roles \cup {"ACCOUNTANT"} \subseteq {"USER", "ACCOUNTANT"}
  BY RequestsAssumption
<1>3. r \in Request
  BY <1>1, <1>2 DEF Request
<1> QED BY <1>1, <1>3

LEMMA ArriveInv ==
  ASSUME IInv, NEW w \in Workers, NEW r \in Requests, Arrive(w, r)
  PROVE  IInv'
<1>1. /\ r \in Request
      /\ r.op \in Ops
      /\ r.op = "MATCH" => r.line \in Lines
  BY RequestFacts
<1> DEFINE t == [tx[w] EXCEPT !.pc = FirstPc(r.op), !.req = r]
<1>2. FirstPc(r.op) \in Pcs \ {"write", "bucketRead", "bucketWrite"}
  BY <1>1 DEF FirstPc, Pcs, Request, OpNames
<1>3. tx[w] \in Tx
  BY DEF IInv, TxInv
<1>4. /\ t \in Tx /\ t.pc = FirstPc(r.op) /\ t.req = r
      /\ t.held = tx[w].held
  BY <1>1, <1>2, <1>3 DEF Tx
<1>5. TxOK(t)
  BY <1>1, <1>2, <1>4 DEF TxOK
<1>6. tx' = [tx EXCEPT ![w] = t]
  BY DEF Arrive
<1>7. TxInv'
  BY <1>4, <1>5, <1>6, TxStep DEF IInv, TxInv
<1>8. RowsInv'
  BY DEF IInv, RowsInv, Arrive, books, otherRows, lineVars
<1> QED BY <1>7, <1>8 DEF IInv

LEMMA AbortInv == ASSUME IInv, NEW w \in Workers, Abort(w) PROVE IInv'
BY RejectInv DEF Abort

LEMMA ReadHeadInv == ASSUME IInv, NEW w \in Workers, ReadHead(w) PROVE IInv'
<1>1. CASE Reject(w)
  BY <1>1, RejectInv
<1>2. CASE Goto(w, "read") /\ Proceed
  <2>1. TxInv'
    BY <1>2, GotoTx DEF IInv, ReadHead, At, Pcs
  <2>2. RowsInv'
    BY <1>2, ProceedRows DEF IInv
  <2> QED BY <2>1, <2>2 DEF IInv
<1> QED BY <1>1, <1>2 DEF ReadHead

LEMMA ReadForSentInv ==
  ASSUME IInv, NEW w \in Workers, ReadForSent(w) PROVE IInv'
<1> DEFINE row == inv[tx[w].req.inv]
<1>1. CASE Reject(w)
  BY <1>1, RejectInv
<1>2. CASE ReadThen(w, row, "write") /\ Proceed
  <2>1. TxInv'
    BY <1>2, ReadThenTx, Parameters DEF IInv, ReadForSent, At, Pcs
  <2>2. RowsInv'
    BY <1>2, ProceedRows DEF IInv
  <2> QED BY <2>1, <2>2 DEF IInv
<1> QED BY <1>1, <1>2 DEF ReadForSent

LEMMA WriteSentInv ==
  ASSUME IInv, NEW w \in Workers, WriteSent(w) PROVE IInv'
<1> DEFINE i == tx[w].req.inv
           rec == ~tx[w].seen.rev
<1>1. TxInv'
  BY FinishTx DEF WriteSent, IInv
<1>2. i \in Invoices /\ inv[i] \in Row
  BY Parameters
<1>3. inv' \in [Invoices -> Row]
  <2>1. [inv[i] EXCEPT !.status = "SENT", !.rev = @ \/ rec] \in Row
    BY <1>2 DEF Row, Status
  <2>2. inv' = [inv EXCEPT ![i] =
                  [inv[i] EXCEPT !.status = "SENT", !.rev = @ \/ rec]]
    BY <1>2 DEF WriteSent, IInv, RowsInv, Row
  <2> QED BY <2>1, <2>2 DEF IInv, RowsInv
<1>4. Post(i, rec, 0, 0, FALSE)
  BY DEF WriteSent
<1>5. /\ revPosted' \in [Invoices -> Nat]
      /\ gl' \in [ar : Int, revenue : Nat, cash : Nat, bank : Nat, fx : Nat,
                   payable : Int]
  <2> HIDE DEF rec, i
  <2> QED BY <1>2, <1>4, PostRows DEF IInv
<1>6. RowsInv'
  BY <1>3, <1>5 DEF WriteSent, IInv, RowsInv, otherRows, lineVars
<1> QED BY <1>1, <1>6 DEF IInv

LEMMA ReadForPaidInv ==
  ASSUME IInv, NEW w \in Workers, ReadForPaid(w) PROVE IInv'
<1> DEFINE row == inv[tx[w].req.inv]
           pc == IF row.rev /\ Remaining(tx[w].req.inv, row) <= 0
                 THEN "refresh" ELSE "write"
<1>1. CASE Reject(w)
  BY <1>1, RejectInv
<1>2. CASE ReadThen(w, row, pc) /\ Proceed
  <2>1. row \in Row /\ pc \in Pcs /\ pc \notin {"bucketRead", "bucketWrite"}
    BY Parameters DEF Pcs
  <2>2. tx[w].pc # "idle" /\ tx[w].req.op = "PAID"
    BY DEF ReadForPaid, At
  <2>3. TxInv'
    <3> HIDE DEF row, pc
    <3> QED BY <1>2, <2>1, <2>2, ReadThenTx DEF IInv
  <2>4. RowsInv'
    BY <1>2, ProceedRows DEF IInv
  <2> QED BY <2>3, <2>4 DEF IInv
<1> QED BY <1>1, <1>2 DEF ReadForPaid

LEMMA WritePaidInv ==
  ASSUME IInv, NEW w \in Workers, WritePaid(w) PROVE IInv'
<1> DEFINE i == tx[w].req.inv
           rest == Remaining(i, tx[w].seen)
           a == IF rest > 0 THEN rest ELSE 0
           rec == ~tx[w].seen.rev
           c == i \in CashInvoices
<1>1. TxInv'
  BY FinishTx DEF WritePaid, IInv
<1>2. /\ i \in Invoices /\ inv[i] \in Row /\ tx[w].seen \in Row
      /\ a \in Nat
  BY Parameters, PaymentType
<1>3. /\ inv' = [inv EXCEPT ![i] = [Paid(i, inv[i], a) EXCEPT !.rev = TRUE]]
      /\ BookPayment(i, a, c, TRUE)
      /\ Post(i, rec, a, 0, c)
      /\ UNCHANGED <<otherRows, served>>
  BY <1>2 DEF WritePaid, IInv, RowsInv
<1> HIDE DEF i, a, rec, c
<1>4. inv' \in [Invoices -> Row]
  <2>1. Paid(i, inv[i], a) \in Row
    BY <1>2, PaidType
  <2>2. [Paid(i, inv[i], a) EXCEPT !.rev = TRUE] \in Row
    BY <2>1 DEF Row
  <2> QED BY <1>3, <2>2 DEF IInv, RowsInv
<1>5. RowsInv'
  BY <1>2, <1>3, <1>4, BookRows, PostRows
     DEF IInv, RowsInv, otherRows, lineVars
<1> QED BY <1>1, <1>5 DEF IInv

LEMMA RefreshPaidInv ==
  ASSUME IInv, NEW w \in Workers, RefreshPaid(w) PROVE IInv'
<1>1. TxInv'
  BY ReadThenTx, Parameters DEF IInv, RefreshPaid, At, Pcs
<1>2. RowsInv'
  BY ProceedRows DEF IInv, RefreshPaid
<1> QED BY <1>1, <1>2 DEF IInv

LEMMA RewritePaidInv ==
  ASSUME IInv, NEW w \in Workers, RewritePaid(w) PROVE IInv'
<1> DEFINE i == tx[w].req.inv
           row == Derived(i, tx[w].seen, tx[w].seen.paid)
<1>1. TxInv'
  BY FinishTx DEF RewritePaid, IInv
<1>2. i \in Invoices /\ inv[i] \in Row /\ tx[w].seen \in Row
  BY Parameters
<1>3. row \in Row
  BY <1>2, DerivedType DEF Row
<1>4. /\ inv' = [inv EXCEPT ![i].status = row.status, ![i].recv = row.recv,
                           ![i].rev = TRUE]
      /\ UNCHANGED <<books, otherRows, served>>
  BY DEF RewritePaid
<1> HIDE DEF i, row
<1>5. inv' \in [Invoices -> Row]
  <2>1. [inv[i] EXCEPT !.status = row.status, !.recv = row.recv, !.rev = TRUE]
          \in Row
    BY <1>2, <1>3 DEF Row
  <2>2. inv' = [inv EXCEPT ![i] = [inv[i] EXCEPT !.status = row.status,
                                     !.recv = row.recv, !.rev = TRUE]]
    BY <1>2, <1>4 DEF IInv, RowsInv, Row
  <2> QED BY <2>1, <2>2 DEF IInv, RowsInv
<1>6. RowsInv'
  BY <1>4, <1>5 DEF IInv, RowsInv, books, otherRows, lineVars
<1> QED BY <1>1, <1>6 DEF IInv

LEMMA ReadForPaymentInv ==
  ASSUME IInv, NEW w \in Workers, ReadForPayment(w) PROVE IInv'
<1> DEFINE row == inv[tx[w].req.inv]
<1>1. CASE Reject(w)
  BY <1>1, RejectInv
<1>2. CASE /\ Acceptable(tx[w].req.inv, row, tx[w].req.amount)
           /\ ReadThen(w, row, "write")
           /\ Proceed
  <2>1. tx[w].req.op = "PAY" /\ tx[w].pc # "idle" /\ row \in Row
    BY Parameters DEF ReadForPayment, At
  <2>2. Payment(tx[w].req.inv, row, tx[w].req.amount) > 0
    BY <1>2 DEF Acceptable
  <2>3. TxInv'
    <3> HIDE DEF row
    <3> QED BY <1>2, <2>1, <2>2, ReadThenTx DEF IInv, Pcs
  <2>4. RowsInv'
    BY <1>2, ProceedRows DEF IInv
  <2> QED BY <2>3, <2>4 DEF IInv
<1> QED BY <1>1, <1>2 DEF ReadForPayment

LEMMA WritePaymentInv ==
  ASSUME IInv, NEW w \in Workers, WritePayment(w) PROVE IInv'
<1> DEFINE i == tx[w].req.inv
           a == Payment(i, tx[w].seen, tx[w].req.amount)
           r == Rounding(i, tx[w].seen, tx[w].req.amount)
           c == tx[w].req.cash
<1>1. TxInv'
  BY FinishTx DEF WritePayment, IInv
<1>2. /\ i \in Invoices /\ inv[i] \in Row
      /\ a \in Nat /\ r \in Nat
  <2>1. /\ i \in Invoices /\ inv[i] \in Row /\ tx[w].seen \in Row
        /\ tx[w].req.amount \in Nat /\ TxOK(tx[w])
    BY Parameters
  <2>2. a > 0
    BY <2>1 DEF WritePayment, At, TxOK
  <2>3. a \in Int /\ r \in Nat
    BY <2>1, PaymentType
  <2> QED BY <2>1, <2>2, <2>3
<1>3. /\ inv' = [inv EXCEPT ![i] = Paid(i, inv[i], a)]
      /\ BookPayment(i, a, c, TRUE)
      /\ Post(i, FALSE, a, r, c)
      /\ UNCHANGED <<otherRows, served>>
  BY <1>2 DEF WritePayment, IInv, RowsInv
<1> HIDE DEF i, a, r, c
<1>4. inv' \in [Invoices -> Row]
  BY <1>2, <1>3, PaidType DEF IInv, RowsInv
<1>5. RowsInv'
  BY <1>2, <1>3, <1>4, BookRows, PostRows
     DEF IInv, RowsInv, otherRows, lineVars
<1> QED BY <1>1, <1>5 DEF IInv

LEMMA ReadLineInv == ASSUME IInv, NEW w \in Workers, ReadLine(w) PROVE IInv'
<1>1. CASE Reject(w)
  BY <1>1, RejectInv
<1>2. CASE Goto(w, "matchInvoice") /\ Proceed
  <2>1. TxInv'
    BY <1>2, GotoTx DEF IInv, ReadLine, At, Pcs
  <2>2. RowsInv'
    BY <1>2, ProceedRows DEF IInv
  <2> QED BY <2>1, <2>2 DEF IInv
<1> QED BY <1>1, <1>2 DEF ReadLine

LEMMA ReadMatchInvoiceInv ==
  ASSUME IInv, NEW w \in Workers, ReadMatchInvoice(w) PROVE IInv'
<1> DEFINE pc == IF inv[tx[w].req.inv].status = "PAID" THEN "mark" ELSE "apply"
<1>1. CASE Reject(w)
  BY <1>1, RejectInv
<1>2. CASE Goto(w, pc) /\ Proceed
  <2>1. pc \in Pcs /\ pc \notin {"write", "bucketRead", "bucketWrite"} /\ tx[w].pc # "idle"
    BY DEF Pcs, ReadMatchInvoice, At
  <2>2. TxInv'
    <3> HIDE DEF pc
    <3> QED BY <1>2, <2>1, GotoTx DEF IInv
  <2>3. RowsInv'
    BY <1>2, ProceedRows DEF IInv
  <2> QED BY <2>2, <2>3 DEF IInv
<1> QED BY <1>1, <1>2 DEF ReadMatchInvoice

LEMMA MarkLineInv == ASSUME IInv, NEW w \in Workers, MarkLine(w) PROVE IInv'
<1>1. TxInv'
  BY FinishTx DEF MarkLine, IInv
<1>2. tx[w].req.line \in Lines /\ tx[w].req.inv \in Invoices
  BY Parameters DEF MarkLine, At
<1>3. RowsInv'
  BY <1>2 DEF MarkLine, IInv, RowsInv, books
<1> QED BY <1>1, <1>3 DEF IInv

LEMMA ReadForBankInv ==
  ASSUME IInv, NEW w \in Workers, ReadForBank(w) PROVE IInv'
<1> DEFINE row == inv[tx[w].req.inv]
           pc == IF row.rev THEN "remaining" ELSE "recognise"
<1>1. CASE Reject(w)
  BY <1>1, RejectInv
<1>2. CASE ReadThen(w, row, pc) /\ Proceed
  <2>1. /\ row \in Row /\ pc \in Pcs /\ pc \notin {"write", "bucketRead", "bucketWrite"}
        /\ tx[w].pc # "idle"
    BY Parameters DEF Pcs, ReadForBank, At
  <2>2. TxInv'
    <3> HIDE DEF row, pc
    <3> QED BY <1>2, <2>1, ReadThenTx DEF IInv
  <2>3. RowsInv'
    BY <1>2, ProceedRows DEF IInv
  <2> QED BY <2>2, <2>3 DEF IInv
<1> QED BY <1>1, <1>2 DEF ReadForBank

LEMMA ReadRemainingInv ==
  ASSUME IInv, NEW w \in Workers, ReadRemaining(w) PROVE IInv'
<1> DEFINE row == inv[tx[w].req.inv]
           amount == LineAmount[tx[w].req.line]
<1>1. CASE Reject(w)
  BY <1>1, RejectInv
<1>2. CASE /\ Acceptable(tx[w].req.inv, row, amount)
           /\ ReadThen(w, row, "write")
           /\ Proceed
  <2>1. tx[w].req.op = "MATCH" /\ tx[w].pc # "idle" /\ row \in Row
    BY Parameters DEF ReadRemaining, At
  <2>2. Payment(tx[w].req.inv, row, amount) > 0
    BY <1>2 DEF Acceptable
  <2>3. TxInv'
    <3> HIDE DEF row
    <3> QED BY <1>2, <2>1, <2>2, ReadThenTx DEF IInv, Pcs
  <2>4. RowsInv'
    BY <1>2, ProceedRows DEF IInv
  <2> QED BY <2>3, <2>4 DEF IInv
<1> QED BY <1>1, <1>2 DEF ReadRemaining

LEMMA SettleLineInv ==
  ASSUME IInv, NEW w \in Workers, NEW before \in Row, NEW read \in Row,
         NEW rec \in BOOLEAN, tx[w].req.op = "MATCH",
         Payment(tx[w].req.inv, read, LineAmount[tx[w].req.line]) > 0,
         SettleLine(w, before, read, rec)
  PROVE  IInv'
<1> DEFINE i == tx[w].req.inv
           l == tx[w].req.line
           a == Payment(i, read, LineAmount[l])
           r == Rounding(i, read, LineAmount[l])
           c == i \in CashInvoices
<1>1. TxInv'
  BY FinishTx DEF SettleLine, IInv
<1>2. /\ i \in Invoices /\ l \in Lines
      /\ a \in Nat /\ r \in Nat
  BY Parameters, PaymentType
<1>3. /\ inv' = [inv EXCEPT ![i] = Paid(i, before, a)]
      /\ BookPayment(i, a, c, FALSE)
      /\ Post(i, rec, a, r, c)
      /\ matched' = [matched EXCEPT ![l] = i]
      /\ booked' = [booked EXCEPT ![l] = @ + 1]
      /\ UNCHANGED <<logs, served>>
  BY DEF SettleLine
<1> HIDE DEF i, l, a, r, c
<1>4. inv' \in [Invoices -> Row]
  BY <1>2, <1>3, PaidType DEF IInv, RowsInv
<1>5. matched' \in [Lines -> Invoices \cup {0}] /\ booked' \in [Lines -> Nat]
  BY <1>2, <1>3 DEF IInv, RowsInv
<1>6. RowsInv'
  BY <1>2, <1>3, <1>4, <1>5, BookRows, PostRows DEF IInv, RowsInv
<1> QED BY <1>1, <1>6 DEF IInv

LEMMA WriteBankInv ==
  ASSUME IInv, NEW w \in Workers, WriteBank(w) PROVE IInv'
BY SettleLineInv, Parameters DEF WriteBank, At, TxOK

LEMMA RecogniseInv ==
  ASSUME IInv, NEW w \in Workers, RecogniseAndWriteBank(w) PROVE IInv'
<1> DEFINE i == tx[w].req.inv
           row == [inv[i] EXCEPT !.rev = TRUE, !.status = "SENT"]
<1>1. row \in Row /\ tx[w].req.op = "MATCH"
  BY Parameters DEF Row, Status, RecogniseAndWriteBank, At
<1>2. CASE Reject(w)
  BY <1>2, RejectInv
<1>3. CASE /\ Acceptable(i, row, LineAmount[tx[w].req.line])
           /\ SettleLine(w, row, row, TRUE)
  <2>1. Payment(i, row, LineAmount[tx[w].req.line]) > 0
    BY <1>3 DEF Acceptable
  <2> HIDE DEF row
  <2> QED BY <1>1, <1>3, <2>1, SettleLineInv
<1> QED BY <1>2, <1>3 DEF RecogniseAndWriteBank

LEMMA PlanTx ==
  ASSUME IInv, NEW w \in Workers, tx[w].pc # "idle", NEW open,
         PlanBuckets(w, open)
  PROVE  TxInv'
<1>1. PICK applied \in 0..tx[w].req.amount,
           plan \in [Invoices -> 0..tx[w].req.amount] :
        tx' = [tx EXCEPT ![w].pc = "bucketRead", ![w].plan = plan,
                         ![w].applied = applied, ![w].pos = 1]
  BY DEF PlanBuckets
<1> DEFINE t == [tx[w] EXCEPT !.pc = "bucketRead", !.plan = plan,
                              !.applied = applied, !.pos = 1]
<1>2. tx[w] \in Tx /\ TxOK(tx[w]) /\ tx[w].req.amount \in Nat
  BY Parameters
<1>3. applied \in Nat /\ plan \in [Invoices -> Nat]
  BY <1>2
<1>4. /\ t \in Tx /\ t.pc = "bucketRead" /\ t.req = tx[w].req
      /\ t.held = tx[w].held
  BY <1>2, <1>3 DEF Tx, Pcs
<1>5. TxOK(t)
  BY <1>2, <1>4 DEF TxOK
<1>6. tx' = [tx EXCEPT ![w] = t]
  BY <1>1, <1>2 DEF IInv, TxInv, Tx
<1> QED BY <1>4, <1>5, <1>6, TxStep DEF IInv, TxInv

LEMMA ReadCandidatesInv ==
  ASSUME IInv, NEW w \in Workers, ReadCandidates(w) PROVE IInv'
<1>1. CASE Reject(w)
  BY <1>1, RejectInv
<1>2. CASE PlanBuckets(w, OpenForAllocation) /\ Proceed
  <2>1. TxInv'
    BY <1>2, PlanTx DEF ReadCandidates, At
  <2>2. RowsInv'
    BY <1>2, ProceedRows DEF IInv
  <2> QED BY <2>1, <2>2 DEF IInv
<1> QED BY <1>1, <1>2 DEF ReadCandidates

LEMMA CheckNettingInv ==
  ASSUME IInv, NEW w \in Workers, CheckNetting(w) PROVE IInv'
<1>1. CASE Reject(w)
  BY <1>1, RejectInv
<1>2. CASE Goto(w, "snapshot") /\ Proceed
  <2>1. TxInv'
    BY <1>2, GotoTx DEF IInv, CheckNetting, At, Pcs
  <2>2. RowsInv'
    BY <1>2, ProceedRows DEF IInv
  <2> QED BY <2>1, <2>2 DEF IInv
<1> QED BY <1>1, <1>2 DEF CheckNetting

LEMMA ReadNettingInv ==
  ASSUME IInv, NEW w \in Workers, ReadNettingInvoices(w) PROVE IInv'
<1>1. TxInv'
  BY PlanTx DEF ReadNettingInvoices, At
<1>2. RowsInv'
  BY ProceedRows DEF IInv, ReadNettingInvoices
<1> QED BY <1>1, <1>2 DEF IInv

LEMMA BucketType ==
  ASSUME IInv, NEW w \in Workers, tx[w].pos \in Invoices
  PROVE  Bucket(w) \in Invoices
BY InvoicesAssumption DEF Bucket, Order

LEMMA ReadBucketInv ==
  ASSUME IInv, NEW w \in Workers, ReadBucket(w) PROVE IInv'
<1> DEFINE i == Bucket(w)
           sum == IF tx[w].req.op = "NET" THEN payRows[i] + tx[w].plan[i]
                                          ELSE inv[i].paid + tx[w].plan[i]
           row == Derived(i, [inv[i] EXCEPT !.paid = sum], sum)
<1>1. /\ tx[w] \in Tx /\ TxOK(tx[w]) /\ tx[w].pc = "bucketRead"
      /\ tx[w].req.op \in {"ALLOC", "NET"}
  BY Parameters DEF ReadBucket, At
<1>2. RowsInv'
  BY ProceedRows DEF ReadBucket, IInv
<1>3. CASE tx[w].pos > NInvoices
  BY <1>1, <1>2, <1>3, GotoTx DEF ReadBucket, IInv, Pcs
<1>4. CASE ~(tx[w].pos > NInvoices) /\ tx[w].plan[i] = 0
  <2> DEFINE t == [tx[w] EXCEPT !.pos = @ + 1]
  <2>1. /\ t \in Tx /\ t.pc = tx[w].pc /\ t.req = tx[w].req
        /\ t.held = tx[w].held
    BY <1>1 DEF Tx
  <2>2. TxOK(t)
    <3>1. tx[w].pos \in Nat /\ t.pos = tx[w].pos + 1
      BY <1>1 DEF Tx
    <3> QED BY <1>1, <2>1, <3>1 DEF TxOK
  <2>3. tx' = [tx EXCEPT ![w] = t]
    BY <1>1, <1>4 DEF ReadBucket, Tx
  <2>4. TxInv'
    BY <2>1, <2>2, <2>3, TxStep DEF IInv, TxInv
  <2> QED BY <1>2, <2>4 DEF IInv
<1>5. CASE ~(tx[w].pos > NInvoices) /\ tx[w].plan[i] # 0
  <2>1. ReadThen(w, row, "bucketWrite")
    BY <1>5 DEF ReadBucket
  <2>2. CASE tx[w].pos \in Invoices
    <3>1. i \in Invoices
      BY <2>2, BucketType
    <3>2. sum \in Nat /\ inv[i] \in Row
      BY <1>1, <3>1 DEF IInv, RowsInv, Row, Tx
    <3>3. [inv[i] EXCEPT !.paid = sum] \in Row
      BY <3>2 DEF Row
    <3>4. row \in Row
      BY <3>1, <3>2, <3>3, DerivedType
    <3> HIDE DEF i, sum, row
    <3>5. TxInv'
      BY <1>1, <2>1, <2>2, <3>4, ReadThenTx DEF IInv, Pcs
    <3> QED BY <1>2, <3>5 DEF IInv
  <2>3. tx[w].pos \in Invoices
    <3>1. tx[w].pos \in Nat /\ tx[w].pos > 0
      BY <1>1 DEF Tx, TxOK
    <3> QED BY <1>5, <3>1, InvoicesAssumption DEF Invoices
  <2> QED BY <2>2, <2>3
<1> QED BY <1>3, <1>4, <1>5

LEMMA WriteBucketInv ==
  ASSUME IInv, NEW w \in Workers, WriteBucket(w) PROVE IInv'
<1> DEFINE i == Bucket(w)
           seen == tx[w].seen
           row == [inv[i] EXCEPT !.status = seen.status, !.recv = seen.recv,
                     !.paid = IF tx[w].req.op = "NET" THEN @ ELSE seen.paid]
           t == [tx[w] EXCEPT !.pc = "bucketRead", !.pos = @ + 1,
                    !.seen = AbsentRow, !.held = @ \cup {i}, !.fresh[i] = row]
<1>1. /\ tx[w] \in Tx /\ TxOK(tx[w]) /\ tx[w].pc = "bucketWrite"
      /\ seen \in Row /\ tx[w].pos \in Nat
  BY Parameters DEF WriteBucket, At, Tx
<1>2. i \in Invoices /\ inv[i] \in Row /\ tx[w].pos > 0
  <2>1. tx[w].pos \in Invoices
    BY <1>1 DEF TxOK
  <2>2. i \in Invoices
    BY <2>1, BucketType
  <2>3. tx[w].pos > 0
    <3>1. tx[w].pos \in 1..NInvoices
      BY <2>1 DEF Invoices
    <3> HIDE DEF i
    <3>2. NInvoices \in Nat
      BY InvoicesAssumption
    <3> QED BY <3>1, <3>2
  <2> HIDE DEF i
  <2> QED BY <2>2, <2>3 DEF IInv, RowsInv
<1>3. ~Locked(i)
  BY DEF WriteBucket
<1>4. tx' = [tx EXCEPT ![w] = t]
  BY <1>1 DEF WriteBucket, IInv, TxInv, Tx
<1>5. row \in Row
  BY <1>1, <1>2 DEF Row
<1> HIDE DEF i, row
<1>6. AbsentRow \in Row
  BY DEF AbsentRow, Row, Status
<1>7. /\ t \in Tx /\ t.pc = "bucketRead" /\ t.req = tx[w].req
      /\ t.pos = tx[w].pos + 1 /\ t.held = tx[w].held \cup {i}
  <2> DEFINE rows == [tx[w].fresh EXCEPT ![i] = row]
             held == tx[w].held \cup {i}
  <2>1. rows \in [Invoices -> Row] /\ held \in SUBSET Invoices
    BY <1>1, <1>2, <1>5 DEF Tx
  <2>2. t = [tx[w] EXCEPT !.pc = "bucketRead", !.pos = tx[w].pos + 1,
               !.seen = AbsentRow, !.held = held, !.fresh = rows]
    BY <1>1, <1>2 DEF Tx
  <2>3. tx[w].pos + 1 \in Nat /\ "bucketRead" \in Pcs
    BY <1>1 DEF Pcs
  <2> HIDE DEF rows, t
  <2>4. t \in Tx
    BY <1>1, <1>6, <2>1, <2>2, <2>3 DEF Tx
  <2> QED BY <1>1, <2>2, <2>4 DEF Tx
<1>8. TxOK(t)
  BY <1>1, <1>7 DEF TxOK
<1>9. \A v \in Workers : v # w => tx[v].held \cap t.held = {}
  BY <1>3, <1>7 DEF IInv, TxInv, Locked
<1> HIDE DEF t
<1>10. TxInv'
  BY <1>4, <1>7, <1>8, <1>9, TxStep DEF IInv
<1>11. RowsInv'
  BY ProceedRows DEF IInv, WriteBucket
<1> QED BY <1>10, <1>11 DEF IInv

(* The commit of several invoices.                                          *)
LEMMA PublishType ==
  ASSUME IInv, NEW w \in Workers, PublishRows(w)
  PROVE  inv' \in [Invoices -> Row]
BY Parameters DEF PublishRows, IInv, RowsInv, Tx

LEMMA AddPlanType ==
  ASSUME IInv, NEW w \in Workers, NEW rows \in [Invoices -> Nat]
  PROVE  AddPlan(w, rows) \in [Invoices -> Nat]
BY Parameters DEF AddPlan, Tx

LEMMA CommitAllocationInv ==
  ASSUME IInv, NEW w \in Workers, CommitAllocation(w) PROVE IInv'
<1> DEFINE sum == tx[w].applied
           g == [gl EXCEPT !.ar = @ - sum]
           GL == [ar : Int, revenue : Nat, cash : Nat, bank : Nat, fx : Nat,
                  payable : Int]
<1>1. TxInv'
  BY FinishTx DEF CommitAllocation, IInv
<1>2. sum \in Nat /\ gl \in GL
  BY Parameters DEF Tx, IInv, RowsInv
<1>3. g \in GL
  BY <1>2
<1>4. gl' = Debit(g, tx[w].req.cash, sum)
  BY DEF CommitAllocation
<1> HIDE DEF g, sum
<1>5. gl' \in GL
  BY <1>2, <1>3, <1>4 DEF Debit
<1>6. inv' \in [Invoices -> Row]
  BY PublishType DEF CommitAllocation
<1>7. payRows' \in [Invoices -> Nat] /\ allocRows' \in [Invoices -> Nat]
  BY AddPlanType DEF CommitAllocation, IInv, RowsInv
<1>8. RowsInv'
  BY <1>5, <1>6, <1>7 DEF CommitAllocation, IInv, RowsInv, otherRows, lineVars
<1> QED BY <1>1, <1>8 DEF IInv

LEMMA CommitNettingInv ==
  ASSUME IInv, NEW w \in Workers, CommitNetting(w) PROVE IInv'
<1> DEFINE a == tx[w].req.amount
           GL == [ar : Int, revenue : Nat, cash : Nat, bank : Nat, fx : Nat,
                  payable : Int]
<1>1. CASE Reject(w)
  BY <1>1, RejectInv
<1>2. CASE /\ PublishRows(w)
           /\ payRows' = AddPlan(w, payRows)
           /\ gl' = [gl EXCEPT !.ar = @ - a, !.payable = @ - a]
           /\ Finish(w)
           /\ UNCHANGED <<allocRows, mirror, kmo, revPosted, otherRows, served>>
  <2>1. TxInv'
    BY <1>2, FinishTx DEF IInv
  <2>2. a \in Nat /\ gl \in GL
    BY Parameters DEF IInv, RowsInv
  <2> HIDE DEF a
  <2>3. gl' \in GL
    <3>1. gl.ar - a \in Int /\ gl.payable - a \in Int
      BY <2>2
    <3> QED BY <1>2, <2>2, <3>1
  <2>4. inv' \in [Invoices -> Row] /\ payRows' \in [Invoices -> Nat]
    BY <1>2, PublishType, AddPlanType DEF IInv, RowsInv
  <2>5. RowsInv'
    BY <1>2, <2>3, <2>4 DEF IInv, RowsInv, otherRows, lineVars
  <2> QED BY <2>1, <2>5 DEF IInv
<1> QED BY <1>1, <1>2 DEF CommitNetting

LEMMA ReadForSignatureInv ==
  ASSUME IInv, NEW w \in Workers, ReadForSignature(w) PROVE IInv'
<1>1. CASE Reject(w)
  BY <1>1, RejectInv
<1>2. CASE Goto(w, "signed") /\ Proceed
  <2>1. TxInv'
    BY <1>2, GotoTx DEF IInv, ReadForSignature, At, Pcs
  <2>2. RowsInv'
    BY <1>2, ProceedRows DEF IInv
  <2> QED BY <2>1, <2>2 DEF IInv
<1> QED BY <1>1, <1>2 DEF ReadForSignature

LEMMA ReadCompletedLogInv ==
  ASSUME IInv, NEW w \in Workers, ReadCompletedLog(w) PROVE IInv'
<1>1. CASE Reject(w)
  BY <1>1, RejectInv
<1>2. CASE Goto(w, "clear") /\ Proceed
  <2>1. TxInv'
    BY <1>2, GotoTx DEF IInv, ReadCompletedLog, At, Pcs
  <2>2. RowsInv'
    BY <1>2, ProceedRows DEF IInv
  <2> QED BY <2>1, <2>2 DEF IInv
<1> QED BY <1>1, <1>2 DEF ReadCompletedLog

LEMMA ClearPendingLogsInv ==
  ASSUME IInv, NEW w \in Workers, ClearPendingLogs(w) PROVE IInv'
<1> DEFINE i == tx[w].req.inv
<1>1. TxInv'
  BY GotoTx DEF IInv, ClearPendingLogs, At, Pcs
<1>2. i \in Invoices /\ logs' = [logs EXCEPT ![i].pending = 0]
  BY Parameters DEF ClearPendingLogs
<1> HIDE DEF i
<1>3. logs' \in [Invoices -> [pending : Nat, completed : Nat]]
  BY <1>2 DEF IInv, RowsInv
<1>4. RowsInv'
  BY <1>3 DEF ClearPendingLogs, IInv, RowsInv, books, lineVars
<1> QED BY <1>1, <1>4 DEF IInv

LEMMA CreatePendingLogInv ==
  ASSUME IInv, NEW w \in Workers, CreatePendingLog(w) PROVE IInv'
<1> DEFINE i == tx[w].req.inv
<1>1. TxInv'
  BY FinishTx DEF IInv, CreatePendingLog
<1>2. i \in Invoices /\ logs' = [logs EXCEPT ![i].pending = @ + 1]
  BY Parameters DEF CreatePendingLog
<1> HIDE DEF i
<1>3. logs' \in [Invoices -> [pending : Nat, completed : Nat]]
  BY <1>2 DEF IInv, RowsInv
<1>4. RowsInv'
  BY <1>3 DEF CreatePendingLog, IInv, RowsInv, books, lineVars
<1> QED BY <1>1, <1>4 DEF IInv

LEMMA ConfirmSignatureInv ==
  ASSUME IInv, NEW w \in Workers, ConfirmSignature(w) PROVE IInv'
<1> DEFINE i == tx[w].req.inv
<1>1. CASE Reject(w)
  BY <1>1, RejectInv
<1>2. CASE /\ logs[i].pending # 0
           /\ logs' = [logs EXCEPT ![i].pending = @ - 1, ![i].completed = @ + 1]
           /\ inv' = [inv EXCEPT ![i].status = "LOCKED_BY_SIGNATURE"]
           /\ Finish(w)
           /\ UNCHANGED <<books, lineVars, served>>
  <2>1. TxInv'
    BY <1>2, FinishTx DEF IInv
  <2>2. i \in Invoices
    BY Parameters
  <2> HIDE DEF i
  <2>3. inv' \in [Invoices -> Row]
    <3>1. [inv[i] EXCEPT !.status = "LOCKED_BY_SIGNATURE"] \in Row
      <4>1. inv[i] \in Row
        BY <2>2 DEF IInv, RowsInv
      <4> QED BY <4>1 DEF Row, Status
    <3>2. inv' = [inv EXCEPT ![i] =
                    [inv[i] EXCEPT !.status = "LOCKED_BY_SIGNATURE"]]
      BY <1>2, <2>2 DEF IInv, RowsInv, Row
    <3> QED BY <3>1, <3>2 DEF IInv, RowsInv
  <2>4. logs' \in [Invoices -> [pending : Nat, completed : Nat]]
    <3> DEFINE Log == [pending : Nat, completed : Nat]
    <3>1. logs[i] \in Log
      BY <2>2 DEF IInv, RowsInv
    <3>2. logs[i].pending - 1 \in Nat /\ logs[i].completed + 1 \in Nat
      BY <1>2, <3>1
    <3>3. [logs[i] EXCEPT !.pending = logs[i].pending - 1,
                          !.completed = logs[i].completed + 1] \in Log
      BY <3>1, <3>2
    <3>4. logs' = [logs EXCEPT ![i] =
                     [logs[i] EXCEPT !.pending = logs[i].pending - 1,
                                     !.completed = logs[i].completed + 1]]
      BY <1>2, <2>2 DEF IInv, RowsInv
    <3> QED BY <2>2, <3>3, <3>4 DEF IInv, RowsInv
  <2>5. RowsInv'
    BY <1>2, <2>3, <2>4 DEF IInv, RowsInv, books, lineVars
  <2> QED BY <2>1, <2>5 DEF IInv
<1> QED BY <1>1, <1>2 DEF ConfirmSignature

--------------------------------------------------------------------------------
LEMMA InitInv == Init => IInv
<1> SUFFICES ASSUME Init PROVE IInv
  OBVIOUS
<1>1. RowsInv
  BY RequestsAssumption
     DEF Init, RowsInv, NoRows, NoPlan, AbsentRow, Row, Status
<1>2. TxInv
  BY IdleFacts DEF Init, TxInv
<1> QED BY <1>1, <1>2 DEF IInv

LEMMA StepInv == IInv /\ [Next]_vars => IInv'
<1> SUFFICES ASSUME IInv, [Next]_vars PROVE IInv'
  OBVIOUS
<1>1. CASE \E i \in Invoices : Create(i)
  BY <1>1, CreateInv
<1>2. CASE \E w \in Workers : \E r \in Requests : Arrive(w, r)
  BY <1>2, ArriveInv
<1>3. CASE \E w \in Workers : Serve(w)
  <2> PICK w \in Workers : Serve(w)
    BY <1>3
  <2>1. CASE ReadHead(w)
    BY <2>1, ReadHeadInv
  <2>2. CASE UpdateStatus(w)
    BY <2>2, ReadForSentInv, WriteSentInv, ReadForPaidInv, WritePaidInv,
       RefreshPaidInv, RewritePaidInv DEF UpdateStatus
  <2>3. CASE RecordPayment(w)
    BY <2>3, ReadForPaymentInv, WritePaymentInv DEF RecordPayment
  <2>4. CASE ConfirmMatch(w)
    BY <2>4, ReadLineInv, ReadMatchInvoiceInv, MarkLineInv, ReadForBankInv,
       ReadRemainingInv, WriteBankInv, RecogniseInv DEF ConfirmMatch
  <2>5. CASE SettleMany(w)
    BY <2>5, ReadCandidatesInv, CheckNettingInv, ReadNettingInv, ReadBucketInv,
       WriteBucketInv, CommitAllocationInv, CommitNettingInv DEF SettleMany
  <2>6. CASE Sign(w)
    BY <2>6, ReadForSignatureInv, ReadCompletedLogInv, ClearPendingLogsInv,
       CreatePendingLogInv, ConfirmSignatureInv DEF Sign
  <2> QED BY <2>1, <2>2, <2>3, <2>4, <2>5, <2>6 DEF Serve
<1>4. CASE \E w \in Workers : Abort(w)
  BY <1>4, AbortInv
<1>5. CASE UNCHANGED vars
  BY <1>5 DEF vars, books, lineVars, IInv, TxInv, RowsInv
<1> QED BY <1>1, <1>2, <1>3, <1>4, <1>5 DEF Next

(* Every reachable state is well typed, and rows written by a transaction   *)
(* that has not committed belong to it alone: two allocations or nettings   *)
(* never hold the row of the same invoice, whatever their number.           *)
THEOREM TypeCorrect == Spec => []TypeOK
<1>1. IInv => TypeOK
  BY DEF IInv, TxInv, RowsInv, TypeOK
<1> QED BY <1>1, InitInv, StepInv, PTL DEF Spec
================================================================================
