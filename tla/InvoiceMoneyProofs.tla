--------------------------- MODULE InvoiceMoneyProofs ---------------------------
(***************************************************************************)
(* What the concurrent requests of InvoicePayments never do to the money,  *)
(* for every number of invoices, workers and requests: the cached sum and  *)
(* the status of an invoice against its payment rows, the revenue against  *)
(* the status, the ledger and the registers against the rows, and who      *)
(* waits for whose rows.                                                   *)
(***************************************************************************)
EXTENDS InvoicePaymentsProofs, SumTheorems

(* What StatusNeverAheadOfMoney says of one invoice.                        *)
RowTells(i, row, paid) ==
  /\ row.status = "PAID" => paid >= Total[i]
  /\ row.status = "PARTIALLY_PAID" => paid \in 1..(Total[i] - 1)
  /\ row.recv = (paid >= Total[i])

(* A request that skips the payment saw an invoice with nothing to pay.     *)
NothingToPay(t) ==
  /\ t.pc \in {"refresh", "rewrite"}
       => inv[t.req.inv].paid >= Total[t.req.inv]
  /\ t.pc = "rewrite" => t.seen.paid >= Total[t.req.inv]

PayInv ==
  /\ \A i \in Invoices : inv[i].paid = payRows[i]
  /\ \A i \in Invoices : RowTells(i, inv[i], payRows[i])
  /\ \A w \in Workers : NothingToPay(tx[w])

NoBatches == Ops \cap {"ALLOC", "NET"} = {}

--------------------------------------------------------------------------------
(* A row whose payment state is derived from its payments tells the truth,  *)
(* whatever its status was.                                                 *)
LEMMA DerivedTells ==
  ASSUME NEW i \in Invoices, NEW row \in Row, NEW paid \in Nat
  PROVE  RowTells(i, Derived(i, row, paid), paid)
<1> DEFINE st == PaymentStatus(i, paid, row.status)
           rc == PaymentReceived(i, paid)
<1>1. Total[i] \in Nat \ {0}
  BY InvoicesAssumption
<1>2. /\ st = "PAID" => paid >= Total[i]
      /\ st = "PARTIALLY_PAID" => paid \in 1..(Total[i] - 1)
      /\ rc = (paid >= Total[i])
  BY <1>1 DEF PaymentStatus, PaymentReceived
<1> HIDE DEF st, rc
<1>3. Derived(i, row, paid).status = st /\ Derived(i, row, paid).recv = rc
  BY DEF Derived, Row, st, rc
<1> QED BY <1>2, <1>3 DEF RowTells

(* The other requests are not disturbed by a step of w that takes no money  *)
(* back.                                                                    *)
LEMMA OthersUndisturbed ==
  ASSUME IInv, PayInv, NEW w \in Workers,
         \A v \in Workers : v # w => tx'[v] = tx[v],
         \A i \in Invoices : inv'[i].paid >= inv[i].paid,
         \A i \in Invoices : inv'[i].paid \in Nat,
         NothingToPay(tx[w])'
  PROVE  (\A v \in Workers : NothingToPay(tx[v]))'
<1> SUFFICES ASSUME NEW v \in Workers, v # w PROVE NothingToPay(tx[v])'
  OBVIOUS
<1>1. tx'[v] = tx[v] /\ NothingToPay(tx[v])
  BY DEF PayInv
<1>2. tx[v].req.inv \in Invoices /\ Total[tx[v].req.inv] \in Nat
  BY Parameters, InvoicesAssumption
<1>3. inv[tx[v].req.inv].paid \in Nat
  BY Parameters DEF Row
<1>4. inv'[tx[v].req.inv].paid >= inv[tx[v].req.inv].paid
      /\ inv'[tx[v].req.inv].paid \in Nat
  BY <1>2
<1> QED BY <1>1, <1>2, <1>3, <1>4 DEF NothingToPay

(* A step that leaves the invoices and their payments alone.                *)
LEMMA ReadKeepsPay ==
  ASSUME IInv, PayInv, NEW w \in Workers, UNCHANGED <<inv, payRows>>,
         \A v \in Workers : v # w => tx'[v] = tx[v],
         NothingToPay(tx[w])'
  PROVE  PayInv'
<1>1. \A i \in Invoices : inv'[i].paid >= inv[i].paid /\ inv'[i].paid \in Nat
  BY DEF IInv, RowsInv, Row
<1>2. (\A v \in Workers : NothingToPay(tx[v]))'
  BY <1>1, OthersUndisturbed
<1>3. /\ (\A i \in Invoices : inv[i].paid = payRows[i])'
      /\ (\A i \in Invoices : RowTells(i, inv[i], payRows[i]))'
  BY DEF PayInv, RowTells
<1> QED BY <1>2, <1>3 DEF PayInv

(* Invoice i gets a new row that tells the truth about a more payments.     *)
LEMMA RowKeepsPay ==
  ASSUME IInv, PayInv, NEW w \in Workers, NEW i \in Invoices,
         NEW row \in Row, NEW a \in Nat,
         inv' = [inv EXCEPT ![i] = row],
         payRows' = [payRows EXCEPT ![i] = @ + a],
         row.paid = inv[i].paid + a,
         RowTells(i, row, row.paid),
         \A v \in Workers : v # w => tx'[v] = tx[v],
         tx'[w].pc = "idle"
  PROVE  PayInv'
<1>1. \A j \in Invoices : inv[j].paid \in Nat /\ inv[j].paid = payRows[j]
  BY DEF IInv, RowsInv, Row, PayInv
<1>2. \A j \in Invoices : inv'[j] = IF j = i THEN row ELSE inv[j]
  BY DEF IInv, RowsInv
<1>3. \A j \in Invoices :
        payRows'[j] = IF j = i THEN payRows[j] + a ELSE payRows[j]
  BY DEF IInv, RowsInv
<1>4. (\A j \in Invoices : inv[j].paid = payRows[j])'
  BY <1>1, <1>2, <1>3
<1>5. (\A j \in Invoices : RowTells(j, inv[j], payRows[j]))'
  <2> SUFFICES ASSUME NEW j \in Invoices
               PROVE  RowTells(j, inv'[j], payRows'[j])
    BY DEF RowTells
  <2>1. CASE j = i
    BY <1>1, <1>2, <1>3, <2>1
  <2>2. CASE j # i
    BY <1>2, <1>3, <2>2 DEF PayInv
  <2> QED BY <2>1, <2>2
<1>6. \A j \in Invoices : inv'[j].paid >= inv[j].paid /\ inv'[j].paid \in Nat
  BY <1>1, <1>2
<1>7. NothingToPay(tx[w])'
  BY DEF NothingToPay
<1>8. (\A v \in Workers : NothingToPay(tx[v]))'
  BY <1>6, <1>7, OthersUndisturbed
<1> QED BY <1>4, <1>5, <1>8 DEF PayInv

(* A payment on a row whose paidAmount is the committed one.                *)
LEMMA PaymentKeepsPay ==
  ASSUME IInv, PayInv, NEW w \in Workers, NEW i \in Invoices,
         NEW before \in Row, before.paid = inv[i].paid, NEW a \in Nat,
         NEW row \in Row,
         row.paid = Paid(i, before, a).paid,
         row.status = Paid(i, before, a).status,
         row.recv = Paid(i, before, a).recv,
         inv' = [inv EXCEPT ![i] = row],
         payRows' = [payRows EXCEPT ![i] = @ + a],
         \A v \in Workers : v # w => tx'[v] = tx[v],
         tx'[w].pc = "idle"
  PROVE  PayInv'
<1>1. Paid(i, before, a).paid = before.paid + a /\ before.paid \in Nat
  BY PaidType DEF Row
<1> DEFINE r == [before EXCEPT !.paid = @ + a]
<1>2. r \in Row
  BY DEF Row
<1>3. RowTells(i, Derived(i, r, before.paid + a), before.paid + a)
  BY <1>1, <1>2, DerivedTells
<1>4. RowTells(i, Paid(i, before, a), before.paid + a)
  BY <1>3 DEF Paid
<1>5. RowTells(i, row, row.paid)
  BY <1>1, <1>4 DEF RowTells
<1>6. row.paid = inv[i].paid + a
  BY <1>1
<1> QED BY <1>5, <1>6, RowKeepsPay

LEMMA FinishedIdle ==
  ASSUME IInv, NEW w \in Workers, Finish(w)
  PROVE  tx'[w].pc = "idle" /\ \A v \in Workers : v # w => tx'[v] = tx[v]
BY DEF IInv, TxInv, Finish, Idle

LEMMA RejectPay ==
  ASSUME IInv, PayInv, NEW w \in Workers, Reject(w) PROVE PayInv'
<1>1. tx'[w].pc = "idle" /\ \A v \in Workers : v # w => tx'[v] = tx[v]
  BY FinishedIdle DEF Reject
<1>2. NothingToPay(tx[w])'
  BY <1>1 DEF NothingToPay
<1> QED BY <1>1, <1>2, ReadKeepsPay DEF Reject, books

(* A read that moves on to a step other than those that skip the payment.   *)
LEMMA MovePay ==
  ASSUME IInv, PayInv, NEW w \in Workers, UNCHANGED <<inv, payRows>>,
         \A v \in Workers : v # w => tx'[v] = tx[v],
         tx'[w].pc \notin {"refresh", "rewrite"}
  PROVE  PayInv'
BY ReadKeepsPay DEF NothingToPay

LEMMA GotoFacts ==
  ASSUME IInv, NEW w \in Workers, NEW pc, Goto(w, pc)
  PROVE  tx'[w].pc = pc /\ \A v \in Workers : v # w => tx'[v] = tx[v]
BY DEF IInv, TxInv, Tx, Goto

LEMMA ReadThenFacts ==
  ASSUME IInv, NEW w \in Workers, NEW row, NEW pc, ReadThen(w, row, pc)
  PROVE  /\ tx'[w].pc = pc /\ tx'[w].seen = row /\ tx'[w].req = tx[w].req
         /\ \A v \in Workers : v # w => tx'[v] = tx[v]
BY DEF IInv, TxInv, Tx, ReadThen

--------------------------------------------------------------------------------
LEMMA CreatePay ==
  ASSUME IInv, PayInv, NEW i \in Invoices, Create(i) PROVE PayInv'
<1> DEFINE row == [inv[i] EXCEPT !.status = "DRAFT"]
<1>1. inv[i] \in Row
  BY DEF IInv, RowsInv
<1>2. inv' = [inv EXCEPT ![i] = row] /\ payRows' = payRows /\ tx' = tx
  BY <1>1 DEF Create, IInv, RowsInv, Row, books
<1>3. row.paid = inv[i].paid /\ row.recv = inv[i].recv /\ row.status = "DRAFT"
  BY <1>1 DEF Row
<1>4. \A j \in Invoices : inv'[j] = IF j = i THEN row ELSE inv[j]
  BY <1>2 DEF IInv, RowsInv
<1> HIDE DEF row
<1>5. \A j \in Invoices : inv'[j].paid = inv[j].paid
  BY <1>3, <1>4
<1>6. (\A j \in Invoices : inv[j].paid = payRows[j])'
  BY <1>2, <1>5 DEF PayInv
<1>7. (\A j \in Invoices : RowTells(j, inv[j], payRows[j]))'
  BY <1>2, <1>3, <1>4 DEF PayInv, RowTells
<1>8. \A v \in Workers : tx[v].req.inv \in Invoices
  BY Parameters
<1>9. (\A v \in Workers : NothingToPay(tx[v]))'
  BY <1>2, <1>5, <1>8 DEF PayInv, NothingToPay
<1> QED BY <1>6, <1>7, <1>9 DEF PayInv

LEMMA ArrivePay ==
  ASSUME IInv, PayInv, NEW w \in Workers, NEW r \in Requests, Arrive(w, r)
  PROVE  PayInv'
<1>1. r.op \in OpNames
  BY RequestFacts DEF Request
<1>2. FirstPc(r.op) \notin {"refresh", "rewrite"}
  BY <1>1 DEF FirstPc, OpNames
<1>3. tx'[w].pc = FirstPc(r.op) /\ \A v \in Workers : v # w => tx'[v] = tx[v]
  BY DEF Arrive, IInv, TxInv, Tx
<1> QED BY <1>2, <1>3, MovePay DEF Arrive, books

LEMMA ReadHeadPay ==
  ASSUME IInv, PayInv, NEW w \in Workers, ReadHead(w) PROVE PayInv'
<1>1. CASE Reject(w)
  BY <1>1, RejectPay
<1>2. CASE Goto(w, "read") /\ Proceed
  BY <1>2, GotoFacts, MovePay DEF Proceed, books
<1> QED BY <1>1, <1>2 DEF ReadHead

LEMMA ReadForSentPay ==
  ASSUME IInv, PayInv, NEW w \in Workers, ReadForSent(w) PROVE PayInv'
<1>1. CASE Reject(w)
  BY <1>1, RejectPay
<1>2. CASE ReadThen(w, inv[tx[w].req.inv], "write") /\ Proceed
  BY <1>2, ReadThenFacts, MovePay DEF Proceed, books
<1> QED BY <1>1, <1>2 DEF ReadForSent

LEMMA WriteSentPay ==
  ASSUME IInv, PayInv, NEW w \in Workers, WriteSent(w) PROVE PayInv'
<1> DEFINE i == tx[w].req.inv
           row == [inv[i] EXCEPT !.status = "SENT", !.rev = @ \/ ~tx[w].seen.rev]
<1>1. i \in Invoices /\ inv[i] \in Row /\ inv[i].paid \in Nat
  BY Parameters DEF Row
<1>2. inv' = [inv EXCEPT ![i] = row] /\ payRows' = payRows /\ Finish(w)
  BY <1>1 DEF WriteSent, IInv, RowsInv, Row
<1>3. /\ row \in Row /\ row.paid = inv[i].paid + 0
      /\ row.recv = inv[i].recv /\ row.status = "SENT"
  <2>1. /\ row \in Row /\ row.paid = inv[i].paid
        /\ row.recv = inv[i].recv /\ row.status = "SENT"
    BY <1>1 DEF Row, Status
  <2> HIDE DEF row
  <2> QED BY <1>1, <2>1
<1> HIDE DEF i, row
<1>4. RowTells(i, row, row.paid)
  BY <1>1, <1>3 DEF PayInv, RowTells
<1>5. payRows' = [payRows EXCEPT ![i] = @ + 0]
  BY <1>1, <1>2 DEF IInv, RowsInv
<1> QED BY <1>1, <1>2, <1>3, <1>4, <1>5, RowKeepsPay, FinishedIdle

LEMMA ReadForPaidPay ==
  ASSUME IInv, PayInv, NEW w \in Workers, ReadForPaid(w) PROVE PayInv'
<1> DEFINE i == tx[w].req.inv
           row == inv[i]
           pc == IF row.rev /\ Remaining(i, row) <= 0
                 THEN "refresh" ELSE "write"
<1>1. CASE Reject(w)
  BY <1>1, RejectPay
<1>2. CASE ReadThen(w, row, pc) /\ Proceed
  <2>1. i \in Invoices /\ row.paid \in Nat /\ Total[i] \in Nat
    BY Parameters, InvoicesAssumption DEF Row
  <2>2. pc = "refresh" => row.paid >= Total[i]
    BY <2>1 DEF Remaining
  <2>3. pc # "rewrite"
    OBVIOUS
  <2>4. UNCHANGED <<inv, payRows>>
    BY <1>2 DEF Proceed, books
  <2> HIDE DEF pc
  <2>5. /\ tx'[w].pc = pc /\ tx'[w].req = tx[w].req
        /\ \A v \in Workers : v # w => tx'[v] = tx[v]
    BY <1>2, ReadThenFacts
  <2>6. NothingToPay(tx[w])'
    BY <2>2, <2>3, <2>4, <2>5 DEF NothingToPay
  <2> QED BY <2>4, <2>5, <2>6, ReadKeepsPay
<1> QED BY <1>1, <1>2 DEF ReadForPaid

LEMMA WritePaidPay ==
  ASSUME IInv, PayInv, NEW w \in Workers, WritePaid(w) PROVE PayInv'
<1> DEFINE i == tx[w].req.inv
           rest == Remaining(i, tx[w].seen)
           a == IF rest > 0 THEN rest ELSE 0
           row == [Paid(i, inv[i], a) EXCEPT !.rev = TRUE]
<1>1. i \in Invoices /\ inv[i] \in Row /\ tx[w].seen \in Row /\ a \in Nat
  BY Parameters, PaymentType
<1>2. /\ inv' = [inv EXCEPT ![i] = row]
      /\ BookPayment(i, a, i \in CashInvoices, TRUE)
      /\ Finish(w)
  BY <1>1 DEF WritePaid, IInv, RowsInv
<1> HIDE DEF i, a
<1>3. Paid(i, inv[i], a) \in Row
  BY <1>1, PaidType
<1>4. /\ row \in Row
      /\ row.paid = Paid(i, inv[i], a).paid
      /\ row.status = Paid(i, inv[i], a).status
      /\ row.recv = Paid(i, inv[i], a).recv
  BY <1>3 DEF Row
<1> HIDE DEF row
<1>5. payRows' = [payRows EXCEPT ![i] = @ + a]
  BY <1>2 DEF BookPayment
<1> QED BY <1>1, <1>2, <1>4, <1>5, PaymentKeepsPay, FinishedIdle

LEMMA RefreshPaidPay ==
  ASSUME IInv, PayInv, NEW w \in Workers, RefreshPaid(w) PROVE PayInv'
<1> DEFINE row == inv[tx[w].req.inv]
<1>1. row.paid >= Total[tx[w].req.inv]
  BY DEF RefreshPaid, At, PayInv, NothingToPay
<1>2. UNCHANGED <<inv, payRows>>
  BY DEF RefreshPaid, Proceed, books
<1>3. /\ tx'[w].pc = "rewrite" /\ tx'[w].seen = row /\ tx'[w].req = tx[w].req
      /\ \A v \in Workers : v # w => tx'[v] = tx[v]
  BY ReadThenFacts DEF RefreshPaid
<1>4. NothingToPay(tx[w])'
  BY <1>1, <1>2, <1>3 DEF NothingToPay
<1> QED BY <1>2, <1>3, <1>4, ReadKeepsPay

LEMMA RewritePaidPay ==
  ASSUME IInv, PayInv, NEW w \in Workers, RewritePaid(w) PROVE PayInv'
<1> DEFINE i == tx[w].req.inv
           d == Derived(i, tx[w].seen, tx[w].seen.paid)
           row == [inv[i] EXCEPT !.status = d.status, !.recv = d.recv, !.rev = TRUE]
<1>1. /\ i \in Invoices /\ inv[i] \in Row /\ inv[i].paid \in Nat
      /\ tx[w].seen \in Row /\ tx[w].seen.paid \in Nat
      /\ Total[i] \in Nat \ {0}
  BY Parameters, InvoicesAssumption DEF Row
<1>2. inv[i].paid >= Total[i] /\ tx[w].seen.paid >= Total[i]
  BY DEF RewritePaid, At, PayInv, NothingToPay
<1>3. d \in Row /\ d.status \in {"PAID", "LOCKED_BY_SIGNATURE"} /\ d.recv = TRUE
  <2>1. d \in Row
    BY <1>1, DerivedType
  <2>2. /\ d.status = PaymentStatus(i, tx[w].seen.paid, tx[w].seen.status)
        /\ d.recv = PaymentReceived(i, tx[w].seen.paid)
    BY <1>1 DEF Derived, Row
  <2> HIDE DEF d
  <2> QED BY <1>2, <2>1, <2>2 DEF PaymentStatus, PaymentReceived
<1>4. inv' = [inv EXCEPT ![i] = row] /\ payRows' = payRows /\ Finish(w)
  BY <1>1 DEF RewritePaid, IInv, RowsInv, Row, books
<1> HIDE DEF d, i
<1>5. /\ row \in Row /\ row.paid = inv[i].paid
      /\ row.status = d.status /\ row.recv = TRUE
  BY <1>1, <1>3 DEF Row
<1> HIDE DEF row
<1>6. RowTells(i, row, row.paid)
  <2>1. (row.paid >= Total[i]) = TRUE
    BY <1>1, <1>2, <1>5
  <2> QED BY <1>3, <1>5, <2>1 DEF RowTells
<1>7. payRows' = [payRows EXCEPT ![i] = @ + 0]
  BY <1>1, <1>4 DEF IInv, RowsInv
<1>8. row.paid = inv[i].paid + 0
  BY <1>1, <1>5
<1> QED BY <1>1, <1>4, <1>5, <1>6, <1>7, <1>8, RowKeepsPay, FinishedIdle

LEMMA ReadForPaymentPay ==
  ASSUME IInv, PayInv, NEW w \in Workers, ReadForPayment(w) PROVE PayInv'
<1>1. CASE Reject(w)
  BY <1>1, RejectPay
<1>2. CASE ReadThen(w, inv[tx[w].req.inv], "write") /\ Proceed
  BY <1>2, ReadThenFacts, MovePay DEF Proceed, books
<1> QED BY <1>1, <1>2 DEF ReadForPayment

LEMMA WritePaymentPay ==
  ASSUME IInv, PayInv, NEW w \in Workers, WritePayment(w) PROVE PayInv'
<1> DEFINE i == tx[w].req.inv
           a == Payment(i, tx[w].seen, tx[w].req.amount)
<1>1. i \in Invoices /\ inv[i] \in Row /\ a \in Nat
  <2>1. /\ i \in Invoices /\ inv[i] \in Row /\ tx[w].seen \in Row
        /\ tx[w].req.amount \in Nat /\ TxOK(tx[w])
    BY Parameters
  <2>2. a > 0
    BY <2>1 DEF WritePayment, At, TxOK
  <2>3. a \in Int
    BY <2>1, PaymentType
  <2> QED BY <2>1, <2>2, <2>3
<1>2. /\ inv' = [inv EXCEPT ![i] = Paid(i, inv[i], a)]
      /\ BookPayment(i, a, tx[w].req.cash, TRUE)
      /\ Finish(w)
  BY <1>1 DEF WritePayment, IInv, RowsInv
<1> HIDE DEF i, a
<1>3. Paid(i, inv[i], a) \in Row
  BY <1>1, PaidType
<1>4. payRows' = [payRows EXCEPT ![i] = @ + a]
  BY <1>2 DEF BookPayment
<1> QED BY <1>1, <1>2, <1>3, <1>4, PaymentKeepsPay, FinishedIdle

LEMMA SettleLinePay ==
  ASSUME IInv, PayInv, NEW w \in Workers, NEW before \in Row, NEW read \in Row,
         NEW rec \in BOOLEAN, tx[w].req.op = "MATCH",
         before.paid = inv[tx[w].req.inv].paid,
         Payment(tx[w].req.inv, read, LineAmount[tx[w].req.line]) > 0,
         SettleLine(w, before, read, rec)
  PROVE  PayInv'
<1> DEFINE i == tx[w].req.inv
           a == Payment(i, read, LineAmount[tx[w].req.line])
<1>1. i \in Invoices /\ inv[i] \in Row /\ a \in Nat
  BY Parameters, PaymentType
<1>2. /\ inv' = [inv EXCEPT ![i] = Paid(i, before, a)]
      /\ BookPayment(i, a, i \in CashInvoices, FALSE)
      /\ Finish(w)
  BY DEF SettleLine
<1> HIDE DEF a
<1>3. Paid(i, before, a) \in Row
  BY <1>1, PaidType
<1>4. payRows' = [payRows EXCEPT ![i] = @ + a]
  BY <1>2 DEF BookPayment
<1> HIDE DEF i
<1>5. before.paid = inv[i].paid
  BY DEF i
<1> QED BY <1>1, <1>2, <1>3, <1>4, <1>5, PaymentKeepsPay, FinishedIdle

LEMMA ConfirmMatchPay ==
  ASSUME IInv, PayInv, NEW w \in Workers, ConfirmMatch(w) PROVE PayInv'
<1> DEFINE i == tx[w].req.inv
<1>1. CASE ReadLine(w)
  <2>1. CASE Reject(w)
    BY <2>1, RejectPay
  <2>2. CASE Goto(w, "matchInvoice") /\ Proceed
    BY <2>2, GotoFacts, MovePay DEF Proceed, books
  <2> QED BY <1>1, <2>1, <2>2 DEF ReadLine
<1>2. CASE ReadMatchInvoice(w)
  <2> DEFINE pc == IF inv[i].status = "PAID" THEN "mark" ELSE "apply"
  <2>1. CASE Reject(w)
    BY <2>1, RejectPay
  <2>2. CASE Goto(w, pc) /\ Proceed
    <3>1. pc \notin {"refresh", "rewrite"}
      OBVIOUS
    <3> HIDE DEF pc
    <3> QED BY <2>2, <3>1, GotoFacts, MovePay DEF Proceed, books
  <2> QED BY <1>2, <2>1, <2>2 DEF ReadMatchInvoice
<1>3. CASE MarkLine(w)
  BY <1>3, FinishedIdle, MovePay DEF MarkLine, books
<1>4. CASE ReadForBank(w)
  <2> DEFINE pc == IF inv[i].rev THEN "remaining" ELSE "recognise"
  <2>1. CASE Reject(w)
    BY <2>1, RejectPay
  <2>2. CASE ReadThen(w, inv[i], pc) /\ Proceed
    <3>1. pc \notin {"refresh", "rewrite"}
      OBVIOUS
    <3> HIDE DEF pc
    <3> QED BY <2>2, <3>1, ReadThenFacts, MovePay DEF Proceed, books
  <2> QED BY <1>4, <2>1, <2>2 DEF ReadForBank
<1>5. CASE ReadRemaining(w)
  <2>1. CASE Reject(w)
    BY <2>1, RejectPay
  <2>2. CASE ReadThen(w, inv[i], "write") /\ Proceed
    BY <2>2, ReadThenFacts, MovePay DEF Proceed, books
  <2> QED BY <1>5, <2>1, <2>2 DEF ReadRemaining
<1>6. CASE WriteBank(w)
  BY <1>6, SettleLinePay, Parameters DEF WriteBank, At, TxOK
<1>7. CASE RecogniseAndWriteBank(w)
  <2> DEFINE row == [inv[i] EXCEPT !.rev = TRUE, !.status = "SENT"]
  <2>1. row \in Row /\ row.paid = inv[i].paid /\ tx[w].req.op = "MATCH"
    BY <1>7, Parameters DEF Row, Status, RecogniseAndWriteBank, At
  <2>2. CASE Reject(w)
    BY <2>2, RejectPay
  <2>3. CASE /\ Acceptable(i, row, LineAmount[tx[w].req.line])
             /\ SettleLine(w, row, row, TRUE)
    <3>1. Payment(i, row, LineAmount[tx[w].req.line]) > 0
      BY <2>3 DEF Acceptable
    <3> HIDE DEF row
    <3> QED BY <2>1, <2>3, <3>1, SettleLinePay
  <2> QED BY <1>7, <2>2, <2>3 DEF RecogniseAndWriteBank
<1> QED BY <1>1, <1>2, <1>3, <1>4, <1>5, <1>6, <1>7 DEF ConfirmMatch

LEMMA SignPay ==
  ASSUME IInv, PayInv, NEW w \in Workers, Sign(w) PROVE PayInv'
<1> DEFINE i == tx[w].req.inv
<1>1. CASE Reject(w)
  BY <1>1, RejectPay
<1>2. CASE /\ \E pc \in {"signed", "clear", "create"} : Goto(w, pc)
           /\ UNCHANGED <<inv, payRows>>
  BY <1>2, GotoFacts, MovePay
<1>3. CASE CreatePendingLog(w)
  BY <1>3, FinishedIdle, MovePay DEF CreatePendingLog, books
<1>4. CASE /\ inv' = [inv EXCEPT ![i].status = "LOCKED_BY_SIGNATURE"]
           /\ payRows' = payRows
           /\ Finish(w)
  <2> DEFINE row == [inv[i] EXCEPT !.status = "LOCKED_BY_SIGNATURE"]
  <2>1. i \in Invoices /\ inv[i] \in Row /\ inv[i].paid \in Nat
    BY Parameters DEF Row
  <2>2. inv' = [inv EXCEPT ![i] = row]
    BY <1>4, <2>1 DEF IInv, RowsInv, Row
  <2>3. /\ row \in Row /\ row.paid = inv[i].paid + 0
        /\ row.recv = inv[i].recv /\ row.status = "LOCKED_BY_SIGNATURE"
    BY <2>1 DEF Row, Status
  <2> HIDE DEF i, row
  <2>4. RowTells(i, row, row.paid)
    BY <2>1, <2>3 DEF PayInv, RowTells
  <2>5. payRows' = [payRows EXCEPT ![i] = @ + 0]
    BY <1>4, <2>1 DEF IInv, RowsInv
  <2>6. tx'[w].pc = "idle" /\ \A v \in Workers : v # w => tx'[v] = tx[v]
    BY <1>4, FinishedIdle
  <2> QED BY <2>1, <2>2, <2>3, <2>4, <2>5, <2>6, RowKeepsPay
<1>5. CASE ReadForSignature(w)
  BY <1>1, <1>2, <1>5 DEF ReadForSignature, Proceed, books
<1>6. CASE ReadCompletedLog(w)
  BY <1>1, <1>2, <1>6 DEF ReadCompletedLog, Proceed, books
<1>7. CASE ClearPendingLogs(w)
  BY <1>2, <1>7 DEF ClearPendingLogs, books
<1>8. CASE ConfirmSignature(w)
  BY <1>1, <1>4, <1>8 DEF ConfirmSignature, books
<1> QED BY <1>3, <1>5, <1>6, <1>7, <1>8 DEF Sign

--------------------------------------------------------------------------------
LEMMA InitPay == Init => PayInv
<1> SUFFICES ASSUME Init PROVE PayInv
  OBVIOUS
<1>1. \A i \in Invoices : Total[i] \in Nat \ {0}
  BY InvoicesAssumption
<1>2. \A i \in Invoices : inv[i] = AbsentRow /\ payRows[i] = 0
  BY DEF Init, NoRows, NoPlan
<1>3. \A i \in Invoices : RowTells(i, inv[i], payRows[i])
  <2>1. AbsentRow.status = "ABSENT" /\ AbsentRow.recv = FALSE
    BY DEF AbsentRow
  <2>2. \A i \in Invoices : (0 >= Total[i]) = FALSE
    BY <1>1
  <2> QED BY <1>2, <2>1, <2>2 DEF RowTells
<1>4. \A w \in Workers : NothingToPay(tx[w])
  BY DEF Init, Idle, NothingToPay
<1> QED BY <1>2, <1>3, <1>4 DEF PayInv, AbsentRow

LEMMA StepPay ==
  ASSUME NoBatches, IInv, PayInv, [Next]_vars PROVE PayInv'
<1>1. CASE \E i \in Invoices : Create(i)
  BY <1>1, CreatePay
<1>2. CASE \E w \in Workers : \E r \in Requests : Arrive(w, r)
  BY <1>2, ArrivePay
<1>3. CASE \E w \in Workers : Serve(w)
  <2> PICK w \in Workers : Serve(w)
    BY <1>3
  <2>1. CASE ReadHead(w)
    BY <2>1, ReadHeadPay
  <2>2. CASE UpdateStatus(w)
    BY <2>2, ReadForSentPay, WriteSentPay, ReadForPaidPay, WritePaidPay,
       RefreshPaidPay, RewritePaidPay DEF UpdateStatus
  <2>3. CASE RecordPayment(w)
    BY <2>3, ReadForPaymentPay, WritePaymentPay DEF RecordPayment
  <2>4. CASE ConfirmMatch(w)
    BY <2>4, ConfirmMatchPay
  <2>5. CASE SettleMany(w)
    <3>1. tx[w].pc # "idle" /\ tx[w].req.op \in {"ALLOC", "NET"}
      BY <2>5 DEF SettleMany, ReadCandidates, CheckNetting, ReadNettingInvoices,
           ReadBucket, WriteBucket, CommitAllocation, CommitNetting, At
    <3>2. tx[w].req.op \in Ops
      BY <3>1, Parameters DEF TxOK
    <3> QED BY <3>1, <3>2 DEF NoBatches
  <2>6. CASE Sign(w)
    BY <2>6, SignPay
  <2> QED BY <2>1, <2>2, <2>3, <2>4, <2>5, <2>6 DEF Serve
<1>4. CASE \E w \in Workers : Abort(w)
  BY <1>4, RejectPay DEF Abort
<1>5. CASE UNCHANGED vars
  BY <1>5 DEF vars, books, PayInv, NothingToPay, RowTells
<1> QED BY <1>1, <1>2, <1>3, <1>4, <1>5 DEF Next

(* As long as nobody allocates or nets, concurrent payments and statement   *)
(* matches never make paidAmount differ from the payment rows, though each  *)
(* is checked against a balance that may be stale: they increment it.       *)
THEOREM PaymentsAreNeverLost ==
  ASSUME NoBatches PROVE Spec => []PaidIsSumOfPayments
<1>1. PayInv => PaidIsSumOfPayments
  BY DEF PayInv, PaidIsSumOfPayments
<1>2. IInv /\ PayInv /\ [Next]_vars => (IInv /\ PayInv)'
  BY StepInv, StepPay
<1> QED BY <1>1, <1>2, InitInv, InitPay, PTL DEF Spec

(* Under the same condition no invoice is shown as more paid than it is,    *)
(* and paymentReceived is exact, signed invoices included.                  *)
THEOREM StatusIsHonest ==
  ASSUME NoBatches PROVE Spec => []StatusNeverAheadOfMoney
<1>1. PayInv => StatusNeverAheadOfMoney
  BY DEF PayInv, RowTells, StatusNeverAheadOfMoney
<1>2. IInv /\ PayInv /\ [Next]_vars => (IInv /\ PayInv)'
  BY StepInv, StepPay
<1> QED BY <1>1, <1>2, InitInv, InitPay, PTL DEF Spec
--------------------------------------------------------------------------------
(* What a step does to the books                                           *)

(* The write of one invoice: its revenue is recognised or not, a is paid and *)
(* r is posted as rounding; a payment is mirrored in the bank register or    *)
(* books a statement line.                                                   *)
OneInvoice(i, rec, a, r, c) ==
  /\ Post(i, rec, a, r, c)
  /\ \/ BookPayment(i, a, c, TRUE) /\ UNCHANGED booked
     \/ /\ BookPayment(i, a, c, FALSE)
        /\ \E l \in Lines : /\ a + r = LineAmount[l]
                            /\ booked' = [booked EXCEPT ![l] = @ + 1]

SomeInvoice == \E i \in Invoices, rec \in BOOLEAN, a \in Nat, r \in Nat,
                  c \in BOOLEAN : OneInvoice(i, rec, a, r, c)

Quiet == UNCHANGED <<books, booked>>

LEMMA RejectQuiet == ASSUME NEW w, Reject(w) PROVE Quiet
BY DEF Reject, Quiet, otherRows, lineVars

LEMMA ProceedQuiet == ASSUME Proceed PROVE Quiet
BY DEF Proceed, Quiet, otherRows, lineVars

LEMMA WriteSentEffect ==
  ASSUME IInv, NEW w \in Workers, WriteSent(w)
  PROVE  OneInvoice(tx[w].req.inv, ~tx[w].seen.rev, 0, 0, FALSE)
<1> DEFINE i == tx[w].req.inv
<1>1. i \in Invoices
  BY Parameters
<1>2. /\ UNCHANGED <<payRows, allocRows, mirror, kmo, booked>>
      /\ Post(i, ~tx[w].seen.rev, 0, 0, FALSE)
  BY DEF WriteSent, otherRows, lineVars
<1> HIDE DEF i
<1>3. BookPayment(i, 0, FALSE, TRUE)
  BY <1>1, <1>2 DEF BookPayment, IInv, RowsInv
<1>4. OneInvoice(i, ~tx[w].seen.rev, 0, 0, FALSE)
  BY <1>2, <1>3 DEF OneInvoice
<1> QED BY <1>4 DEF i

(* The amount that updateStatus to PAID pays.                                *)
Rest(w) == LET rest == Remaining(tx[w].req.inv, tx[w].seen)
           IN  IF rest > 0 THEN rest ELSE 0

LEMMA WritePaidEffect ==
  ASSUME IInv, NEW w \in Workers, WritePaid(w)
  PROVE  /\ Rest(w) \in Nat
         /\ \E c \in BOOLEAN :
              OneInvoice(tx[w].req.inv, ~tx[w].seen.rev, Rest(w), 0, c)
<1> DEFINE c == tx[w].req.inv \in CashInvoices
<1>1. Rest(w) \in Nat
  <2>1. tx[w].req.inv \in Invoices /\ tx[w].seen \in Row
    BY Parameters
  <2>2. Remaining(tx[w].req.inv, tx[w].seen) \in Int
    BY <2>1, PaymentType
  <2> QED BY <2>2 DEF Rest
<1>2. /\ BookPayment(tx[w].req.inv, Rest(w), c, TRUE)
      /\ Post(tx[w].req.inv, ~tx[w].seen.rev, Rest(w), 0, c)
      /\ UNCHANGED booked
  BY DEF WritePaid, Rest, otherRows, lineVars
<1>3. c \in BOOLEAN
  OBVIOUS
<1> HIDE DEF c
<1> QED BY <1>1, <1>2, <1>3 DEF OneInvoice

LEMMA WritePaymentEffect ==
  ASSUME IInv, NEW w \in Workers, WritePayment(w)
  PROVE  \E a \in Nat, r \in Nat :
           OneInvoice(tx[w].req.inv, FALSE, a, r, tx[w].req.cash)
<1> DEFINE i == tx[w].req.inv
           a == Payment(i, tx[w].seen, tx[w].req.amount)
           r == Rounding(i, tx[w].seen, tx[w].req.amount)
<1>1. a \in Nat /\ r \in Nat
  <2>1. /\ i \in Invoices /\ tx[w].seen \in Row
        /\ tx[w].req.amount \in Nat /\ TxOK(tx[w])
    BY Parameters
  <2>2. a > 0
    BY <2>1 DEF WritePayment, At, TxOK
  <2>3. a \in Int /\ r \in Nat
    BY <2>1, PaymentType
  <2> QED BY <2>2, <2>3
<1>2. /\ BookPayment(i, a, tx[w].req.cash, TRUE)
      /\ Post(i, FALSE, a, r, tx[w].req.cash)
      /\ UNCHANGED booked
  BY DEF WritePayment, otherRows, lineVars
<1> HIDE DEF a, r
<1> QED BY <1>1, <1>2 DEF OneInvoice

LEMMA SettleLineEffect ==
  ASSUME IInv, NEW w \in Workers, NEW before, NEW read \in Row, NEW rec,
         tx[w].req.op = "MATCH",
         Payment(tx[w].req.inv, read, LineAmount[tx[w].req.line]) > 0,
         SettleLine(w, before, read, rec)
  PROVE  \E a \in Nat, r \in Nat, c \in BOOLEAN :
           OneInvoice(tx[w].req.inv, rec, a, r, c)
<1> DEFINE i == tx[w].req.inv
           l == tx[w].req.line
           a == Payment(i, read, LineAmount[l])
           r == Rounding(i, read, LineAmount[l])
           c == i \in CashInvoices
<1>1. i \in Invoices /\ l \in Lines /\ LineAmount[l] \in Nat
  BY Parameters
<1>2. a \in Nat /\ r \in Nat
  <2>1. a \in Int /\ r \in Nat /\ a > 0
    BY <1>1, PaymentType
  <2> QED BY <2>1
<1>3. a + r = LineAmount[l]
  BY <1>1, <1>2 DEF Rounding
<1>4. /\ BookPayment(i, a, c, FALSE)
      /\ Post(i, rec, a, r, c)
      /\ booked' = [booked EXCEPT ![l] = @ + 1]
  BY DEF SettleLine
<1>5. c \in BOOLEAN
  OBVIOUS
<1> HIDE DEF a, r, c
<1> QED BY <1>1, <1>2, <1>3, <1>4, <1>5 DEF OneInvoice

LEMMA WriteBankEffect ==
  ASSUME IInv, NEW w \in Workers, WriteBank(w)
  PROVE  \E a \in Nat, r \in Nat, c \in BOOLEAN :
           OneInvoice(tx[w].req.inv, FALSE, a, r, c)
<1>1. /\ SettleLine(w, inv[tx[w].req.inv], tx[w].seen, FALSE)
      /\ tx[w].req.op = "MATCH" /\ tx[w].pc = "write"
  BY DEF WriteBank, At
<1>2. /\ tx[w].seen \in Row
      /\ Payment(tx[w].req.inv, tx[w].seen, LineAmount[tx[w].req.line]) > 0
  BY <1>1, Parameters DEF TxOK
<1> QED BY <1>1, <1>2, SettleLineEffect

LEMMA RecogniseEffect ==
  ASSUME IInv, NEW w \in Workers, RecogniseAndWriteBank(w)
  PROVE  \/ Reject(w)
         \/ \E a \in Nat, r \in Nat, c \in BOOLEAN :
              OneInvoice(tx[w].req.inv, TRUE, a, r, c)
<1> DEFINE i == tx[w].req.inv
           row == [inv[i] EXCEPT !.rev = TRUE, !.status = "SENT"]
<1>1. row \in Row /\ tx[w].req.op = "MATCH"
  BY Parameters DEF Row, Status, RecogniseAndWriteBank, At
<1>2. CASE /\ Acceptable(i, row, LineAmount[tx[w].req.line])
           /\ SettleLine(w, row, row, TRUE)
  <2>1. Payment(i, row, LineAmount[tx[w].req.line]) > 0
    BY <1>2 DEF Acceptable
  <2> HIDE DEF row
  <2> QED BY <1>1, <1>2, <2>1, SettleLineEffect
<1> QED BY <1>2 DEF RecogniseAndWriteBank

(* Whatever the step, the books are left alone, or one invoice is written,   *)
(* or an allocation or a netting commits.                                    *)
LEMMA StepEffect ==
  ASSUME IInv, [Next]_vars
  PROVE  \/ Quiet
         \/ SomeInvoice
         \/ \E w \in Workers : CommitAllocation(w) \/ CommitNetting(w)
<1>1. CASE \E i \in Invoices : Create(i)
  BY <1>1 DEF Create, Quiet, otherRows, lineVars
<1>2. CASE \E w \in Workers : \E r \in Requests : Arrive(w, r)
  BY <1>2 DEF Arrive, Quiet, otherRows, lineVars
<1>3. CASE \E w \in Workers : Serve(w)
  <2> PICK w \in Workers : Serve(w)
    BY <1>3
  <2>0. /\ tx[w].req.inv \in Invoices /\ tx[w].req.cash \in BOOLEAN
        /\ tx[w].seen.rev \in BOOLEAN
    BY Parameters DEF Row
  <2>1. CASE ReadHead(w)
    BY <2>1, RejectQuiet, ProceedQuiet DEF ReadHead
  <2>2. CASE UpdateStatus(w)
    <3>1. CASE WriteSent(w)
      BY <2>0, <3>1, WriteSentEffect DEF SomeInvoice
    <3>2. CASE WritePaid(w)
      BY <2>0, <3>2, WritePaidEffect DEF SomeInvoice
    <3>3. CASE ReadForSent(w) \/ ReadForPaid(w)
      <4>1. Reject(w) \/ Proceed
        BY <3>3 DEF ReadForSent, ReadForPaid
      <4> QED BY <4>1, RejectQuiet, ProceedQuiet
    <3>4. CASE RefreshPaid(w)
      BY <3>4, ProceedQuiet DEF RefreshPaid
    <3>5. CASE RewritePaid(w)
      BY <3>5 DEF RewritePaid, Quiet, otherRows, lineVars
    <3> QED BY <2>2, <3>1, <3>2, <3>3, <3>4, <3>5 DEF UpdateStatus
  <2>3. CASE RecordPayment(w)
    <3>1. CASE ReadForPayment(w)
      BY <3>1, RejectQuiet, ProceedQuiet DEF ReadForPayment
    <3>2. CASE WritePayment(w)
      BY <2>0, <3>2, WritePaymentEffect DEF SomeInvoice
    <3> QED BY <2>3, <3>1, <3>2 DEF RecordPayment
  <2>4. CASE ConfirmMatch(w)
    <3>1. CASE WriteBank(w)
      BY <2>0, <3>1, WriteBankEffect DEF SomeInvoice
    <3>2. CASE RecogniseAndWriteBank(w)
      BY <2>0, <3>2, RecogniseEffect, RejectQuiet DEF SomeInvoice
    <3>3. CASE MarkLine(w)
      BY <3>3 DEF MarkLine, Quiet
    <3>4. CASE ReadLine(w) \/ ReadMatchInvoice(w)
      <4>1. Reject(w) \/ Proceed
        BY <3>4 DEF ReadLine, ReadMatchInvoice
      <4> QED BY <4>1, RejectQuiet, ProceedQuiet
    <3>5. CASE ReadForBank(w) \/ ReadRemaining(w)
      <4>1. Reject(w) \/ Proceed
        BY <3>5 DEF ReadForBank, ReadRemaining
      <4> QED BY <4>1, RejectQuiet, ProceedQuiet
    <3> QED BY <2>4, <3>1, <3>2, <3>3, <3>4, <3>5 DEF ConfirmMatch
  <2>5. CASE SettleMany(w)
    <3>1. CASE ReadCandidates(w) \/ CheckNetting(w)
      BY <3>1, RejectQuiet, ProceedQuiet DEF ReadCandidates, CheckNetting
    <3>2. CASE ReadNettingInvoices(w) \/ ReadBucket(w) \/ WriteBucket(w)
      BY <3>2, ProceedQuiet DEF ReadNettingInvoices, ReadBucket, WriteBucket
    <3> QED BY <2>5, <3>1, <3>2 DEF SettleMany
  <2>6. CASE Sign(w)
    <3>1. CASE ReadForSignature(w) \/ ReadCompletedLog(w)
      BY <3>1, RejectQuiet, ProceedQuiet DEF ReadForSignature, ReadCompletedLog
    <3>2. CASE ClearPendingLogs(w) \/ CreatePendingLog(w)
      BY <3>2 DEF ClearPendingLogs, CreatePendingLog, Quiet, lineVars
    <3>3. CASE ConfirmSignature(w)
      BY <3>3, RejectQuiet DEF ConfirmSignature, Quiet, lineVars
    <3> QED BY <2>6, <3>1, <3>2, <3>3 DEF Sign
  <2> QED BY <2>1, <2>2, <2>3, <2>4, <2>5, <2>6 DEF Serve
<1>4. CASE \E w \in Workers : Abort(w)
  BY <1>4, RejectQuiet DEF Abort
<1>5. CASE UNCHANGED vars
  BY <1>5 DEF vars, Quiet, books
<1> QED BY <1>1, <1>2, <1>3, <1>4, <1>5 DEF Next

--------------------------------------------------------------------------------
(* The account of receivables                                              *)

Owed == [i \in Invoices |-> revPosted[i] * Total[i] - payRows[i]]

LEMMA InvoicesFinite == IsFiniteSet(Invoices)
BY InvoicesAssumption, FS_Interval DEF Invoices

LEMMA SumOverIs ==
  ASSUME NEW S, IsFiniteSet(S), NEW f \in [S -> Int]
  PROVE  SumOver(f) = SumOn(f, S)
<1>1. Values(f, S) /\ DOMAIN f = S
  BY DEF Values
<1>2. FoldSum(0, f, S) = 0 + SumOn(f, S)
  BY <1>1, FoldIsSum
<1>3. SumOn(f, S) \in Int
  BY <1>1, SumType
<1>4. SumOver(f) = FoldSum(0, f, S)
  BY <1>1 DEF SumOver, FoldFunction, FoldFunctionOnSet, MapThenFoldSet, FoldSum
<1> QED BY <1>2, <1>3, <1>4

LEMMA OwedType ==
  ASSUME NEW posted \in [Invoices -> Nat], NEW paid \in [Invoices -> Nat]
  PROVE  [i \in Invoices |-> posted[i] * Total[i] - paid[i]] \in [Invoices -> Int]
<1>1. ASSUME NEW i \in Invoices PROVE posted[i] * Total[i] - paid[i] \in Int
  <2>1. posted[i] \in Nat /\ Total[i] \in Nat /\ paid[i] \in Nat
    BY InvoicesAssumption
  <2> QED BY <2>1
<1> QED BY <1>1

(* The journals of one invoice move the account by what it owes.             *)
LEMMA OneInvoiceBalances ==
  ASSUME RowsInv, RowsInv', gl.ar = SumOver(Owed),
         NEW i \in Invoices, NEW rec \in BOOLEAN, NEW a \in Nat, NEW r \in Nat,
         NEW c \in BOOLEAN, OneInvoice(i, rec, a, r, c)
  PROVE  (gl.ar = SumOver(Owed))'
<1> DEFINE t == IF rec THEN Total[i] ELSE 0
<1>1. /\ Total[i] \in Nat /\ t \in Nat
      /\ revPosted[i] \in Nat /\ payRows[i] \in Nat /\ gl.ar \in Int
  BY InvoicesAssumption DEF RowsInv
<1>2. gl'.ar = gl.ar + t - a
  BY DEF OneInvoice, Post, Debit, RowsInv
<1>3. /\ revPosted' = IF rec THEN [revPosted EXCEPT ![i] = @ + 1] ELSE revPosted
      /\ payRows' = [payRows EXCEPT ![i] = @ + a]
  BY DEF OneInvoice, Post, BookPayment
<1>4. Owed'[i] = Owed[i] + t - a
  <2>1. Owed'[i] = revPosted'[i] * Total[i] - payRows'[i]
    BY DEF Owed
  <2>2. Owed[i] = revPosted[i] * Total[i] - payRows[i]
    BY DEF Owed
  <2>3. payRows'[i] = payRows[i] + a
    BY <1>3 DEF RowsInv
  <2>4. revPosted'[i] * Total[i] = revPosted[i] * Total[i] + t
    <3>1. CASE rec
      <4>1. revPosted'[i] = revPosted[i] + 1
        BY <1>3, <3>1 DEF RowsInv
      <4>2. (revPosted[i] + 1) * Total[i] = revPosted[i] * Total[i] + Total[i]
        BY <1>1
      <4> QED BY <3>1, <4>1, <4>2
    <3>2. CASE ~rec
      <4>1. revPosted'[i] = revPosted[i]
        BY <1>3, <3>2
      <4>2. revPosted[i] * Total[i] \in Int
        BY <1>1
      <4> QED BY <3>2, <4>1, <4>2
    <3> QED BY <3>1, <3>2
  <2>5. revPosted[i] * Total[i] \in Int
    BY <1>1
  <2> HIDE DEF t
  <2> QED BY <1>1, <2>1, <2>2, <2>3, <2>4, <2>5
<1>5. \A j \in Invoices \ {i} : Owed'[j] = Owed[j]
  BY <1>3 DEF Owed, RowsInv
<1>6. Owed \in [Invoices -> Int] /\ Owed' \in [Invoices -> Int]
  BY OwedType DEF RowsInv, Owed
<1>7. SumOn(Owed', Invoices) = SumOn(Owed, Invoices) + Owed'[i] - Owed[i]
  BY <1>5, <1>6, InvoicesFinite, SumPoint DEF Values
<1>8. /\ SumOver(Owed) = SumOn(Owed, Invoices)
      /\ SumOver(Owed') = SumOn(Owed', Invoices)
  BY <1>6, InvoicesFinite, SumOverIs
<1>9. Owed[i] \in Int
  BY <1>6
<1> HIDE DEF t
<1> QED BY <1>1, <1>2, <1>4, <1>7, <1>8, <1>9

(* The rows of a batch move it by the sum of its buckets.                    *)
LEMMA BatchBalances ==
  ASSUME RowsInv, RowsInv', gl.ar = SumOver(Owed), NEW w \in Workers,
         tx[w].plan \in [Invoices -> Nat],
         payRows' = AddPlan(w, payRows), revPosted' = revPosted,
         gl'.ar = gl.ar - SumOver(tx[w].plan)
  PROVE  (gl.ar = SumOver(Owed))'
<1> DEFINE p == tx[w].plan
           d == [i \in Invoices |-> Owed'[i]]
<1>1. Owed \in [Invoices -> Int] /\ Owed' \in [Invoices -> Int]
  BY OwedType DEF RowsInv, Owed
<1>2. \A i \in Invoices : Owed[i] = Owed'[i] + p[i]
  <2> SUFFICES ASSUME NEW i \in Invoices PROVE Owed[i] = Owed'[i] + p[i]
    OBVIOUS
  <2>1. payRows'[i] = payRows[i] + p[i]
    BY DEF AddPlan
  <2>2. /\ Owed[i] = revPosted[i] * Total[i] - payRows[i]
        /\ Owed'[i] = revPosted[i] * Total[i] - payRows'[i]
    BY DEF Owed
  <2>3. /\ revPosted[i] \in Nat /\ Total[i] \in Nat
        /\ payRows[i] \in Nat /\ p[i] \in Nat
    BY InvoicesAssumption DEF RowsInv
  <2>4. revPosted[i] * Total[i] \in Int
    BY <2>3
  <2> QED BY <2>1, <2>2, <2>3, <2>4
<1>3. Values(Owed', Invoices) /\ Values(p, Invoices)
  BY <1>1 DEF Values
<1>4. SumOn(Owed, Invoices) = SumOn(Owed', Invoices) + SumOn(p, Invoices)
  BY <1>2, <1>3, InvoicesFinite, SumAdd
<1>5. p \in [Invoices -> Int]
  OBVIOUS
<1>6. /\ SumOver(Owed) = SumOn(Owed, Invoices)
      /\ SumOver(Owed') = SumOn(Owed', Invoices)
      /\ SumOver(p) = SumOn(p, Invoices)
  BY <1>1, <1>5, InvoicesFinite, SumOverIs
<1>7. /\ SumOn(Owed', Invoices) \in Int /\ SumOn(p, Invoices) \in Int
  BY <1>3, InvoicesFinite, SumType
<1> QED BY <1>4, <1>6, <1>7

--------------------------------------------------------------------------------
(* Revenue before payment, and buckets that add up                         *)

(* From the plan of the buckets to the commit.                               *)
BatchPcs == {"bucketRead", "bucketWrite", "commit"}

(* What a request knows of the revenue it relies on.                         *)
SawRevenue(t) ==
  /\ \/ t.pc \in {"refresh", "rewrite", "remaining"}
     \/ t.pc = "write" /\ (t.req.op \in {"PAY", "MATCH"} \/ t.seen.rev)
     => revPosted[t.req.inv] > 0
  /\ t.pc \in BatchPcs =>
       \A i \in Invoices : /\ t.plan[i] > 0 => revPosted[i] > 0
                           /\ i \in t.held /\ t.fresh[i].rev => revPosted[i] > 0

(* What an allocation or a netting plans: buckets that add up.               *)
PlanAddsUp(t) ==
  IF t.pc \in BatchPcs
  THEN t.applied = SumOver(t.plan) /\ t.applied <= t.req.amount
  ELSE t.held = {}

RevInv ==
  /\ \A i \in Invoices : inv[i].rev => revPosted[i] > 0
  /\ RevenueBeforePayment
  /\ \A w \in Workers : SawRevenue(tx[w]) /\ PlanAddsUp(tx[w])

(* A request at another step relies on nothing.                              *)
Plain(t) == /\ t.pc \notin BatchPcs \cup {"refresh", "rewrite", "remaining", "write"}
            /\ t.held = {}

LEMMA GotoFields ==
  ASSUME IInv, NEW w \in Workers, NEW pc, Goto(w, pc)
  PROVE  /\ tx'[w].pc = pc
         /\ tx'[w].req = tx[w].req
         /\ tx'[w].seen = tx[w].seen
         /\ tx'[w].plan = tx[w].plan
         /\ tx'[w].applied = tx[w].applied
         /\ tx'[w].held = tx[w].held
         /\ tx'[w].fresh = tx[w].fresh
         /\ \A v \in Workers : v # w => tx'[v] = tx[v]
BY DEF IInv, TxInv, Tx, Goto

LEMMA ReadThenFields ==
  ASSUME IInv, NEW w \in Workers, NEW row, NEW pc, ReadThen(w, row, pc)
  PROVE  /\ tx'[w].pc = pc
         /\ tx'[w].req = tx[w].req
         /\ tx'[w].seen = row
         /\ tx'[w].plan = tx[w].plan
         /\ tx'[w].applied = tx[w].applied
         /\ tx'[w].held = tx[w].held
         /\ tx'[w].fresh = tx[w].fresh
         /\ \A v \in Workers : v # w => tx'[v] = tx[v]
BY DEF IInv, TxInv, Tx, ReadThen

(* Revenue is never taken back, so what the other requests know stays true.  *)
LEMMA RevKept ==
  ASSUME RowsInv, RowsInv', RevInv, NEW w \in Workers,
         \A v \in Workers : v # w => tx'[v] = tx[v],
         \A v \in Workers : tx[v].req.inv \in Invoices,
         \A i \in Invoices : revPosted'[i] >= revPosted[i],
         \A i \in Invoices : inv'[i].rev => inv[i].rev \/ revPosted'[i] > 0,
         \A i \in Invoices : payRows'[i] > 0 => payRows[i] > 0 \/ revPosted'[i] > 0,
         SawRevenue(tx[w])', PlanAddsUp(tx[w])'
  PROVE  RevInv'
<1>1. \A i \in Invoices : revPosted[i] > 0 => revPosted'[i] > 0
  BY DEF RowsInv
<1>2. (\A i \in Invoices : inv[i].rev => revPosted[i] > 0)'
  BY <1>1 DEF RevInv
<1>3. RevenueBeforePayment'
  BY <1>1 DEF RevInv, RevenueBeforePayment
<1>4. ASSUME NEW v \in Workers, v # w
      PROVE  (SawRevenue(tx[v]) /\ PlanAddsUp(tx[v]))'
  <2>1. SawRevenue(tx[v]) /\ PlanAddsUp(tx[v])
    BY DEF RevInv
  <2>2. tx'[v] = tx[v] /\ tx[v].req.inv \in Invoices
    BY <1>4
  <2>3. SawRevenue(tx[v])'
    BY <1>1, <2>1, <2>2 DEF SawRevenue
  <2> QED BY <2>1, <2>2, <2>3 DEF PlanAddsUp
<1> QED BY <1>2, <1>3, <1>4 DEF RevInv

LEMMA QuietRev ==
  ASSUME IInv, IInv', RevInv, NEW w \in Workers,
         UNCHANGED <<inv, payRows, revPosted>>,
         \A v \in Workers : v # w => tx'[v] = tx[v],
         SawRevenue(tx[w])', PlanAddsUp(tx[w])'
  PROVE  RevInv'
<1>1. \A i \in Invoices : revPosted'[i] >= revPosted[i]
  BY DEF IInv, RowsInv
<1>2. \A v \in Workers : tx[v].req.inv \in Invoices
  BY Parameters
<1> QED BY <1>1, <1>2, RevKept DEF IInv

LEMMA PlainRev ==
  ASSUME IInv, IInv', RevInv, NEW w \in Workers,
         UNCHANGED <<inv, payRows, revPosted>>,
         \A v \in Workers : v # w => tx'[v] = tx[v],
         Plain(tx'[w])
  PROVE  RevInv'
<1>1. SawRevenue(tx[w])' /\ PlanAddsUp(tx[w])'
  BY DEF Plain, SawRevenue, PlanAddsUp, BatchPcs
<1> QED BY <1>1, QuietRev

LEMMA FinishPlain ==
  ASSUME IInv, NEW w \in Workers, Finish(w)
  PROVE  Plain(tx'[w]) /\ \A v \in Workers : v # w => tx'[v] = tx[v]
BY DEF IInv, TxInv, Finish, Idle, Plain, BatchPcs

LEMMA RejectRev ==
  ASSUME IInv, IInv', RevInv, NEW w \in Workers, Reject(w) PROVE RevInv'
BY FinishPlain, PlainRev DEF Reject, books

(* A step to where nothing is relied on, from where no row is held.          *)
LEMMA GotoRev ==
  ASSUME IInv, IInv', RevInv, NEW w \in Workers,
         UNCHANGED <<inv, payRows, revPosted>>,
         tx[w].pc \notin BatchPcs,
         NEW pc, pc \notin BatchPcs \cup {"refresh", "rewrite", "remaining", "write"},
         Goto(w, pc)
  PROVE  RevInv'
<1>1. tx[w].held = {}
  BY DEF RevInv, PlanAddsUp
<1>2. Plain(tx'[w])
  BY <1>1, GotoFields DEF Plain
<1> QED BY <1>2, GotoFields, PlainRev

(* A read of an invoice whose revenue, if the next step needs it, is posted. *)
LEMMA ReadRev ==
  ASSUME IInv, IInv', RevInv, NEW w \in Workers, Proceed,
         tx[w].pc \notin BatchPcs,
         NEW row, NEW pc, pc \notin BatchPcs, ReadThen(w, row, pc),
         \/ revPosted[tx[w].req.inv] > 0
         \/ pc \in {"write", "recognise"} /\ tx[w].req.op \notin {"PAY", "MATCH"} /\ ~row.rev
         \/ pc = "recognise"
  PROVE  RevInv'
<1>1. tx[w].held = {}
  BY DEF RevInv, PlanAddsUp
<1>2. UNCHANGED <<inv, payRows, revPosted>>
  BY DEF Proceed, books
<1>3. SawRevenue(tx[w])' /\ PlanAddsUp(tx[w])'
  BY <1>1, <1>2, ReadThenFields DEF SawRevenue, PlanAddsUp, BatchPcs
<1> QED BY <1>2, <1>3, ReadThenFields, QuietRev

(* The write of an invoice whose revenue is posted, or posted with it.       *)
LEMMA OneInvoiceRev ==
  ASSUME IInv, IInv', RevInv, NEW w \in Workers,
         NEW i \in Invoices, NEW rec \in BOOLEAN, NEW a \in Nat, NEW r \in Nat,
         NEW c \in BOOLEAN, OneInvoice(i, rec, a, r, c),
         rec \/ revPosted[i] > 0,
         NEW row, inv' = [inv EXCEPT ![i] = row], Finish(w)
  PROVE  RevInv'
<1>1. /\ revPosted' = IF rec THEN [revPosted EXCEPT ![i] = @ + 1] ELSE revPosted
      /\ payRows' = [payRows EXCEPT ![i] = @ + a]
  BY DEF OneInvoice, Post, BookPayment
<1>2. \A j \in Invoices : revPosted'[j] >= revPosted[j]
  BY <1>1 DEF IInv, RowsInv
<1>3. revPosted'[i] > 0
  BY <1>1 DEF IInv, RowsInv
<1>4. \A j \in Invoices : j # i => inv'[j] = inv[j] /\ payRows'[j] = payRows[j]
  BY <1>1 DEF IInv, RowsInv
<1>5. /\ \A j \in Invoices : inv'[j].rev => inv[j].rev \/ revPosted'[j] > 0
      /\ \A j \in Invoices : payRows'[j] > 0 => payRows[j] > 0 \/ revPosted'[j] > 0
  BY <1>3, <1>4
<1>6. SawRevenue(tx[w])' /\ PlanAddsUp(tx[w])'
  BY FinishPlain DEF Plain, SawRevenue, PlanAddsUp, BatchPcs
<1>7. \A v \in Workers : tx[v].req.inv \in Invoices
  BY Parameters
<1> QED BY <1>2, <1>5, <1>6, <1>7, FinishPlain, RevKept DEF IInv

LEMMA UpdateStatusRev ==
  ASSUME IInv, IInv', RevInv, NEW w \in Workers, UpdateStatus(w) PROVE RevInv'
<1> DEFINE i == tx[w].req.inv
           row == inv[i]
<1>0. /\ i \in Invoices /\ inv[i] \in Row /\ tx[w].seen \in Row
      /\ row.rev => revPosted[i] > 0
  BY Parameters DEF RevInv
<1>1. CASE ReadForSent(w)
  <2>1. CASE Reject(w)
    BY <2>1, RejectRev
  <2>2. CASE ReadThen(w, row, "write") /\ Proceed
    <3>1. tx[w].pc \notin BatchPcs /\ tx[w].req.op \notin {"PAY", "MATCH"}
      BY <1>1 DEF ReadForSent, At, BatchPcs
    <3>2. "write" \notin BatchPcs
      BY DEF BatchPcs
    <3> HIDE DEF row
    <3> QED BY <1>0, <2>2, <3>1, <3>2, ReadRev
  <2> QED BY <1>1, <2>1, <2>2 DEF ReadForSent
<1>2. CASE WriteSent(w)
  <2> DEFINE rec == ~tx[w].seen.rev
             new == [row EXCEPT !.status = "SENT", !.rev = @ \/ rec]
  <2>1. OneInvoice(i, rec, 0, 0, FALSE) /\ rec \in BOOLEAN
    BY <1>2, WriteSentEffect
  <2>2. rec \/ revPosted[i] > 0
    BY <1>2 DEF WriteSent, At, RevInv, SawRevenue
  <2>3. inv' = [inv EXCEPT ![i] = new] /\ Finish(w)
    BY <1>0, <1>2 DEF WriteSent, IInv, RowsInv, Row
  <2> HIDE DEF rec, new
  <2> QED BY <1>0, <2>1, <2>2, <2>3, OneInvoiceRev
<1>3. CASE ReadForPaid(w)
  <2> DEFINE pc == IF row.rev /\ Remaining(i, row) <= 0 THEN "refresh" ELSE "write"
  <2>1. CASE Reject(w)
    BY <2>1, RejectRev
  <2>2. CASE ReadThen(w, row, pc) /\ Proceed
    <3>1. tx[w].pc \notin BatchPcs /\ tx[w].req.op \notin {"PAY", "MATCH"}
      BY <1>3 DEF ReadForPaid, At, BatchPcs
    <3>2. pc \notin BatchPcs /\ (~row.rev => pc = "write")
      BY DEF BatchPcs
    <3> HIDE DEF row, pc
    <3> QED BY <1>0, <2>2, <3>1, <3>2, ReadRev
  <2> QED BY <1>3, <2>1, <2>2 DEF ReadForPaid
<1>4. CASE WritePaid(w)
  <2> DEFINE rec == ~tx[w].seen.rev
             new == [Paid(i, row, Rest(w)) EXCEPT !.rev = TRUE]
  <2>1. PICK c \in BOOLEAN : OneInvoice(i, rec, Rest(w), 0, c)
    BY <1>4, WritePaidEffect
  <2>2. rec \/ revPosted[i] > 0
    BY <1>4 DEF WritePaid, At, RevInv, SawRevenue
  <2>3. inv' = [inv EXCEPT ![i] = new] /\ Finish(w)
    BY <1>0, <1>4 DEF WritePaid, Rest, IInv, RowsInv
  <2>4. rec \in BOOLEAN /\ Rest(w) \in Nat
    BY <1>4, WritePaidEffect
  <2> HIDE DEF rec, new
  <2> QED BY <1>0, <2>1, <2>2, <2>3, <2>4, OneInvoiceRev
<1>5. CASE RefreshPaid(w)
  <2>1. revPosted[i] > 0 /\ tx[w].pc \notin BatchPcs
    BY <1>5 DEF RefreshPaid, At, RevInv, SawRevenue, BatchPcs
  <2>2. ReadThen(w, row, "rewrite") /\ Proceed /\ "rewrite" \notin BatchPcs
    BY <1>5 DEF RefreshPaid, BatchPcs
  <2> HIDE DEF row
  <2> QED BY <2>1, <2>2, ReadRev
<1>6. CASE RewritePaid(w)
  <2>1. revPosted[i] > 0
    BY <1>6 DEF RewritePaid, At, RevInv, SawRevenue
  <2>2. /\ UNCHANGED <<payRows, revPosted>> /\ Finish(w)
        /\ \A j \in Invoices : j # i => inv'[j] = inv[j]
    BY <1>6 DEF RewritePaid, books, IInv, RowsInv
  <2>3. \A j \in Invoices : inv'[j].rev => inv[j].rev \/ revPosted'[j] > 0
    BY <2>1, <2>2
  <2>4. \A j \in Invoices : revPosted'[j] >= revPosted[j]
    BY <2>2 DEF IInv, RowsInv
  <2>5. SawRevenue(tx[w])' /\ PlanAddsUp(tx[w])'
    BY <2>2, FinishPlain DEF Plain, SawRevenue, PlanAddsUp, BatchPcs
  <2>6. \A v \in Workers : tx[v].req.inv \in Invoices
    BY Parameters
  <2> QED BY <2>2, <2>3, <2>4, <2>5, <2>6, FinishPlain, RevKept DEF IInv
<1> QED BY <1>1, <1>2, <1>3, <1>4, <1>5, <1>6 DEF UpdateStatus

LEMMA RecordPaymentRev ==
  ASSUME IInv, IInv', RevInv, NEW w \in Workers, RecordPayment(w) PROVE RevInv'
<1> DEFINE i == tx[w].req.inv
           row == inv[i]
<1>0. /\ i \in Invoices /\ inv[i] \in Row /\ tx[w].req.cash \in BOOLEAN
      /\ row.rev => revPosted[i] > 0
  BY Parameters DEF RevInv
<1>1. CASE ReadForPayment(w)
  <2>1. CASE Reject(w)
    BY <2>1, RejectRev
  <2>2. CASE row.rev /\ ReadThen(w, row, "write") /\ Proceed
    <3>1. tx[w].pc \notin BatchPcs /\ "write" \notin BatchPcs
      BY <1>1 DEF ReadForPayment, At, BatchPcs
    <3>2. revPosted[i] > 0
      BY <1>0, <2>2
    <3> HIDE DEF row
    <3> QED BY <2>2, <3>1, <3>2, ReadRev
  <2> QED BY <1>1, <2>1, <2>2 DEF ReadForPayment
<1>2. CASE WritePayment(w)
  <2>1. PICK a \in Nat, r \in Nat : OneInvoice(i, FALSE, a, r, tx[w].req.cash)
    BY <1>2, WritePaymentEffect
  <2>2. revPosted[i] > 0
    BY <1>2 DEF WritePayment, At, RevInv, SawRevenue
  <2> DEFINE new == Paid(i, row, Payment(i, tx[w].seen, tx[w].req.amount))
  <2>3. inv' = [inv EXCEPT ![i] = new] /\ Finish(w)
    BY <1>0, <1>2 DEF WritePayment, IInv, RowsInv
  <2> HIDE DEF new
  <2> QED BY <1>0, <2>1, <2>2, <2>3, OneInvoiceRev
<1> QED BY <1>1, <1>2 DEF RecordPayment

LEMMA ConfirmMatchRev ==
  ASSUME IInv, IInv', RevInv, NEW w \in Workers, ConfirmMatch(w) PROVE RevInv'
<1> DEFINE i == tx[w].req.inv
           row == inv[i]
<1>0. /\ i \in Invoices /\ inv[i] \in Row
      /\ row.rev => revPosted[i] > 0
  BY Parameters DEF RevInv
<1>1. CASE ReadLine(w)
  <2>1. CASE Reject(w)
    BY <2>1, RejectRev
  <2>2. CASE Goto(w, "matchInvoice") /\ Proceed
    BY <1>1, <2>2, GotoRev DEF ReadLine, At, Proceed, books, BatchPcs
  <2> QED BY <1>1, <2>1, <2>2 DEF ReadLine
<1>2. CASE ReadMatchInvoice(w)
  <2> DEFINE pc == IF inv[i].status = "PAID" THEN "mark" ELSE "apply"
  <2>1. CASE Reject(w)
    BY <2>1, RejectRev
  <2>2. CASE Goto(w, pc) /\ Proceed
    <3>1. pc \in {"mark", "apply"}
      OBVIOUS
    <3>2. tx[w].pc \notin BatchPcs /\ UNCHANGED <<inv, payRows, revPosted>>
      BY <1>2, <2>2 DEF ReadMatchInvoice, At, BatchPcs, Proceed, books
    <3> HIDE DEF pc
    <3> QED BY <2>2, <3>1, <3>2, GotoRev DEF BatchPcs
  <2> QED BY <1>2, <2>1, <2>2 DEF ReadMatchInvoice
<1>3. CASE MarkLine(w)
  BY <1>3, FinishPlain, PlainRev DEF MarkLine, books
<1>4. CASE ReadForBank(w)
  <2> DEFINE pc == IF row.rev THEN "remaining" ELSE "recognise"
  <2>1. CASE Reject(w)
    BY <2>1, RejectRev
  <2>2. CASE ReadThen(w, row, pc) /\ Proceed
    <3>1. /\ pc \notin BatchPcs /\ tx[w].pc \notin BatchPcs
          /\ revPosted[i] > 0 \/ pc = "recognise"
      BY <1>0, <1>4 DEF ReadForBank, At, BatchPcs
    <3> HIDE DEF row, pc
    <3> QED BY <2>2, <3>1, ReadRev
  <2> QED BY <1>4, <2>1, <2>2 DEF ReadForBank
<1>5. CASE ReadRemaining(w)
  <2>1. CASE Reject(w)
    BY <2>1, RejectRev
  <2>2. CASE ReadThen(w, row, "write") /\ Proceed
    <3>1. /\ "write" \notin BatchPcs /\ tx[w].pc \notin BatchPcs
          /\ revPosted[i] > 0
      BY <1>5 DEF ReadRemaining, At, BatchPcs, RevInv, SawRevenue
    <3> HIDE DEF row
    <3> QED BY <2>2, <3>1, ReadRev
  <2> QED BY <1>5, <2>1, <2>2 DEF ReadRemaining
<1>6. CASE WriteBank(w)
  <2>1. PICK a \in Nat, r \in Nat, c \in BOOLEAN : OneInvoice(i, FALSE, a, r, c)
    BY <1>6, WriteBankEffect
  <2>2. revPosted[i] > 0
    BY <1>6 DEF WriteBank, At, RevInv, SawRevenue
  <2> DEFINE new == Paid(i, row, Payment(i, tx[w].seen, LineAmount[tx[w].req.line]))
  <2>3. inv' = [inv EXCEPT ![i] = new] /\ Finish(w)
    BY <1>6 DEF WriteBank, SettleLine
  <2> HIDE DEF new
  <2> QED BY <1>0, <2>1, <2>2, <2>3, OneInvoiceRev
<1>7. CASE RecogniseAndWriteBank(w)
  <2> DEFINE before == [row EXCEPT !.rev = TRUE, !.status = "SENT"]
             new == Paid(i, before, Payment(i, before, LineAmount[tx[w].req.line]))
  <2>1. CASE Reject(w)
    BY <2>1, RejectRev
  <2>2. CASE ~Reject(w)
    <3>1. PICK a \in Nat, r \in Nat, c \in BOOLEAN : OneInvoice(i, TRUE, a, r, c)
      BY <1>7, <2>2, RecogniseEffect
    <3>2. SettleLine(w, before, before, TRUE)
      BY <1>7, <2>2 DEF RecogniseAndWriteBank
    <3> HIDE DEF before
    <3>3. inv' = [inv EXCEPT ![i] = new] /\ Finish(w)
      BY <3>2 DEF SettleLine
    <3> HIDE DEF new
    <3> QED BY <1>0, <3>1, <3>3, OneInvoiceRev
  <2> QED BY <2>1, <2>2
<1> QED BY <1>1, <1>2, <1>3, <1>4, <1>5, <1>6, <1>7 DEF ConfirmMatch

LEMMA SignRev ==
  ASSUME IInv, IInv', RevInv, NEW w \in Workers, Sign(w) PROVE RevInv'
<1> DEFINE i == tx[w].req.inv
<1>1. CASE Reject(w)
  BY <1>1, RejectRev
<1>2. CASE /\ \E pc \in {"signed", "clear", "create"} : Goto(w, pc)
           /\ UNCHANGED <<inv, payRows, revPosted>>
           /\ tx[w].pc \notin BatchPcs
  BY <1>2, GotoRev DEF BatchPcs
<1>3. CASE CreatePendingLog(w)
  BY <1>3, FinishPlain, PlainRev DEF CreatePendingLog, books
<1>4. CASE /\ inv' = [inv EXCEPT ![i].status = "LOCKED_BY_SIGNATURE"]
           /\ UNCHANGED books
           /\ Finish(w)
  <2>1. \A j \in Invoices : inv'[j].rev = inv[j].rev
    BY <1>4 DEF IInv, RowsInv, Row
  <2>2. \A j \in Invoices : revPosted'[j] >= revPosted[j]
    BY <1>4 DEF IInv, RowsInv, books
  <2>3. SawRevenue(tx[w])' /\ PlanAddsUp(tx[w])'
    BY <1>4, FinishPlain DEF Plain, SawRevenue, PlanAddsUp, BatchPcs
  <2>4. \A v \in Workers : tx[v].req.inv \in Invoices
    BY Parameters
  <2> QED BY <1>4, <2>1, <2>2, <2>3, <2>4, FinishPlain, RevKept DEF IInv, books
<1>5. CASE ReadForSignature(w)
  BY <1>1, <1>2, <1>5 DEF ReadForSignature, Proceed, books, At, BatchPcs
<1>6. CASE ReadCompletedLog(w)
  BY <1>1, <1>2, <1>6 DEF ReadCompletedLog, Proceed, books, At, BatchPcs
<1>7. CASE ClearPendingLogs(w)
  BY <1>2, <1>7 DEF ClearPendingLogs, books, At, BatchPcs
<1>8. CASE ConfirmSignature(w)
  BY <1>1, <1>4, <1>8 DEF ConfirmSignature, books
<1> QED BY <1>3, <1>5, <1>6, <1>7, <1>8 DEF Sign

(* The buckets are planned from invoices whose revenue is in the ledger.     *)
LEMMA PlanRev ==
  ASSUME IInv, IInv', RevInv, NEW w \in Workers, tx[w].pc \notin BatchPcs,
         NEW open, \A i \in Invoices : open[i] \in Nat,
         \A i \in Invoices : open[i] > 0 => inv[i].rev,
         PlanBuckets(w, open), Proceed
  PROVE  RevInv'
<1>1. PICK applied \in 0..tx[w].req.amount,
           plan \in [Invoices -> 0..tx[w].req.amount] :
        /\ Buckets(tx[w].req.op, open, tx[w].req.amount, plan)
        /\ applied = SumOver(plan)
        /\ tx' = [tx EXCEPT ![w].pc = "bucketRead", ![w].plan = plan,
                            ![w].applied = applied, ![w].pos = 1]
  BY DEF PlanBuckets
<1>2. /\ tx'[w].pc = "bucketRead" /\ tx'[w].req = tx[w].req
      /\ tx'[w].plan = plan /\ tx'[w].applied = applied
      /\ tx'[w].held = tx[w].held
      /\ \A v \in Workers : v # w => tx'[v] = tx[v]
  BY <1>1 DEF IInv, TxInv, Tx
<1>3. tx[w].held = {}
  BY DEF RevInv, PlanAddsUp
<1>4. UNCHANGED <<inv, payRows, revPosted>>
  BY DEF Proceed, books
<1>5. tx[w].req.amount \in Nat
  BY Parameters
<1>6. \A i \in Invoices : plan[i] > 0 => revPosted[i] > 0
  <2> SUFFICES ASSUME NEW i \in Invoices, plan[i] > 0 PROVE revPosted[i] > 0
    OBVIOUS
  <2>1. plan[i] \in Nat /\ Buckets(tx[w].req.op, open, tx[w].req.amount, plan)
    BY <1>1, <1>5
  <2>2. plan[i] <= open[i]
    BY <2>1 DEF Buckets
  <2>3. open[i] > 0
    BY <2>1, <2>2
  <2> QED BY <2>3 DEF RevInv
<1>7. SawRevenue(tx[w])'
  BY <1>2, <1>3, <1>4, <1>6 DEF SawRevenue
<1>8. PlanAddsUp(tx[w])'
  BY <1>1, <1>2, <1>5 DEF PlanAddsUp, BatchPcs
<1> QED BY <1>2, <1>4, <1>7, <1>8, QuietRev

LEMMA ReadBucketRev ==
  ASSUME IInv, IInv', RevInv, NEW w \in Workers, ReadBucket(w) PROVE RevInv'
<1>1. tx[w].pc = "bucketRead" /\ SawRevenue(tx[w]) /\ PlanAddsUp(tx[w])
  BY DEF ReadBucket, At, RevInv
<1>2. UNCHANGED <<inv, payRows, revPosted>>
  BY DEF ReadBucket, Proceed, books
<1>3. /\ tx'[w].pc \in BatchPcs /\ tx'[w].req = tx[w].req
      /\ tx'[w].plan = tx[w].plan /\ tx'[w].applied = tx[w].applied
      /\ tx'[w].held = tx[w].held /\ tx'[w].fresh = tx[w].fresh
      /\ \A v \in Workers : v # w => tx'[v] = tx[v]
  <2>1. CASE Goto(w, "commit")
    BY <2>1, GotoFields DEF BatchPcs
  <2>2. CASE tx' = [tx EXCEPT ![w].pos = @ + 1]
    BY <1>1, <2>2 DEF IInv, TxInv, Tx, BatchPcs
  <2>3. CASE \E row : ReadThen(w, row, "bucketWrite")
    BY <2>3, ReadThenFields DEF BatchPcs
  <2> QED BY <2>1, <2>2, <2>3 DEF ReadBucket
<1>4. SawRevenue(tx[w])' /\ PlanAddsUp(tx[w])'
  BY <1>1, <1>2, <1>3 DEF SawRevenue, PlanAddsUp, BatchPcs
<1> QED BY <1>2, <1>3, <1>4, QuietRev

LEMMA WriteBucketRev ==
  ASSUME IInv, IInv', RevInv, NEW w \in Workers, WriteBucket(w) PROVE RevInv'
<1> DEFINE i == Bucket(w)
           seen == tx[w].seen
           row == [inv[i] EXCEPT !.status = seen.status, !.recv = seen.recv,
                     !.paid = IF tx[w].req.op = "NET" THEN @ ELSE seen.paid]
<1>1. /\ tx[w].pc = "bucketWrite" /\ SawRevenue(tx[w]) /\ PlanAddsUp(tx[w])
      /\ tx[w] \in Tx /\ TxOK(tx[w])
  BY Parameters DEF WriteBucket, At, RevInv
<1>2. UNCHANGED <<inv, payRows, revPosted>>
  BY DEF WriteBucket, Proceed, books
<1>3. i \in Invoices
  BY <1>1, BucketType DEF TxOK
<1>4. row.rev = inv[i].rev
  BY <1>3 DEF IInv, RowsInv, Row
<1>5. tx' = [tx EXCEPT ![w].pc = "bucketRead", ![w].pos = @ + 1,
                       ![w].seen = AbsentRow,
                       ![w].held = @ \cup {i}, ![w].fresh[i] = row]
  BY DEF WriteBucket
<1> HIDE DEF i, row
<1>6. /\ tx'[w].pc = "bucketRead" /\ tx'[w].req = tx[w].req
      /\ tx'[w].plan = tx[w].plan /\ tx'[w].applied = tx[w].applied
      /\ tx'[w].held = tx[w].held \cup {i}
      /\ tx'[w].fresh = [tx[w].fresh EXCEPT ![i] = row]
      /\ \A v \in Workers : v # w => tx'[v] = tx[v]
  <2>1. tx \in [Workers -> Tx]
    BY DEF IInv, TxInv
  <2>2. \A v \in Workers : v # w => tx'[v] = tx[v]
    BY <1>5, <2>1
  <2>3. tx'[w] = [tx[w] EXCEPT !.pc = "bucketRead", !.pos = @ + 1,
                               !.seen = AbsentRow, !.held = @ \cup {i},
                               !.fresh[i] = row]
    BY <1>5, <2>1
  <2> QED BY <1>1, <2>2, <2>3 DEF Tx
<1>7. tx[w].fresh \in [Invoices -> Row]
  BY <1>1 DEF Tx
<1>8. SawRevenue(tx[w])'
  <2>1. \A j \in Invoices : tx'[w].plan[j] > 0 => revPosted'[j] > 0
    BY <1>1, <1>2, <1>6 DEF SawRevenue, BatchPcs
  <2>2. \A j \in Invoices :
          j \in tx'[w].held /\ tx'[w].fresh[j].rev => revPosted'[j] > 0
    <3> SUFFICES ASSUME NEW j \in Invoices, j \in tx'[w].held,
                        tx'[w].fresh[j].rev
                 PROVE  revPosted[j] > 0
      BY <1>2
    <3>1. CASE j = i
      <4>1. tx'[w].fresh[j] = row
        BY <1>6, <1>7, <3>1
      <4> QED BY <1>3, <1>4, <3>1, <4>1 DEF RevInv
    <3>2. CASE j # i
      <4>1. tx'[w].fresh[j] = tx[w].fresh[j] /\ j \in tx[w].held
        BY <1>6, <1>7, <3>2
      <4> QED BY <1>1, <4>1 DEF SawRevenue, BatchPcs
    <3> QED BY <3>1, <3>2
  <2> QED BY <1>6, <2>1, <2>2 DEF SawRevenue
<1>9. PlanAddsUp(tx[w])'
  BY <1>1, <1>6 DEF PlanAddsUp, BatchPcs
<1> QED BY <1>2, <1>6, <1>8, <1>9, QuietRev

(* The commit of a batch pays invoices whose revenue is in the ledger.       *)
LEMMA BatchRev ==
  ASSUME IInv, IInv', RevInv, NEW w \in Workers, tx[w].pc = "commit",
         PublishRows(w), payRows' = AddPlan(w, payRows), revPosted' = revPosted,
         Finish(w)
  PROVE  RevInv'
<1>1. SawRevenue(tx[w])
  BY DEF RevInv
<1>2. \A i \in Invoices : inv'[i].rev => inv[i].rev \/ revPosted'[i] > 0
  BY <1>1 DEF PublishRows, SawRevenue, BatchPcs
<1>3. \A i \in Invoices : payRows'[i] > 0 => payRows[i] > 0 \/ revPosted'[i] > 0
  <2> SUFFICES ASSUME NEW i \in Invoices, payRows'[i] > 0, ~(payRows[i] > 0)
               PROVE  revPosted[i] > 0
    OBVIOUS
  <2>1. payRows'[i] = payRows[i] + tx[w].plan[i]
    BY DEF AddPlan
  <2>2. payRows[i] \in Nat /\ tx[w].plan[i] \in Nat
    BY Parameters DEF IInv, RowsInv, Tx
  <2>3. tx[w].plan[i] > 0
    BY <2>1, <2>2
  <2> QED BY <1>1, <2>3 DEF SawRevenue, BatchPcs
<1>4. \A i \in Invoices : revPosted'[i] >= revPosted[i]
  BY DEF IInv, RowsInv
<1>5. SawRevenue(tx[w])' /\ PlanAddsUp(tx[w])'
  BY FinishPlain DEF Plain, SawRevenue, PlanAddsUp, BatchPcs
<1>6. \A v \in Workers : tx[v].req.inv \in Invoices
  BY Parameters
<1> QED BY <1>2, <1>3, <1>4, <1>5, <1>6, FinishPlain, RevKept DEF IInv

LEMMA SettleManyRev ==
  ASSUME IInv, IInv', RevInv, NEW w \in Workers, SettleMany(w) PROVE RevInv'
<1>0. \A i \in Invoices : /\ Remaining(i, inv[i]) \in Int
                          /\ payRows[i] \in Nat /\ Total[i] \in Nat
  BY PaymentType, InvoicesAssumption DEF IInv, RowsInv
<1>1. CASE ReadCandidates(w)
  <2> DEFINE open == OpenForAllocation
  <2>1. CASE Reject(w)
    BY <2>1, RejectRev
  <2>2. CASE PlanBuckets(w, open) /\ Proceed
    <3>1. \A i \in Invoices : open[i] \in Nat /\ (open[i] > 0 => inv[i].rev)
      BY <1>0 DEF OpenForAllocation
    <3>2. tx[w].pc \notin BatchPcs
      BY <1>1 DEF ReadCandidates, At, BatchPcs
    <3> HIDE DEF open
    <3> QED BY <2>2, <3>1, <3>2, PlanRev
  <2> QED BY <1>1, <2>1, <2>2 DEF ReadCandidates
<1>2. CASE CheckNetting(w)
  <2>1. CASE Reject(w)
    BY <2>1, RejectRev
  <2>2. CASE Goto(w, "snapshot") /\ Proceed
    BY <1>2, <2>2, GotoRev DEF CheckNetting, At, Proceed, books, BatchPcs
  <2> QED BY <1>2, <2>1, <2>2 DEF CheckNetting
<1>3. CASE ReadNettingInvoices(w)
  <2> DEFINE open == OpenForNetting
  <2>1. \A i \in Invoices : open[i] \in Nat /\ (open[i] > 0 => inv[i].rev)
    BY <1>0 DEF OpenForNetting
  <2>2. tx[w].pc \notin BatchPcs /\ PlanBuckets(w, open) /\ Proceed
    BY <1>3 DEF ReadNettingInvoices, At, BatchPcs
  <2> HIDE DEF open
  <2> QED BY <2>1, <2>2, PlanRev
<1>4. CASE CommitAllocation(w)
  BY <1>4, BatchRev DEF CommitAllocation, At
<1>5. CASE CommitNetting(w)
  <2>1. CASE Reject(w)
    BY <2>1, RejectRev
  <2>2. CASE ~Reject(w)
    BY <1>5, <2>2, BatchRev DEF CommitNetting, At
  <2> QED BY <2>1, <2>2
<1> QED BY <1>1, <1>2, <1>3, <1>4, <1>5, ReadBucketRev, WriteBucketRev
        DEF SettleMany

LEMMA StepRev ==
  ASSUME IInv, RevInv, [Next]_vars PROVE RevInv'
<1>0. IInv'
  BY StepInv
<1>1. CASE \E i \in Invoices : Create(i)
  <2>1. PICK i \in Invoices : Create(i)
    BY <1>1
  <2>2. /\ \A j \in Invoices : inv'[j].rev = inv[j].rev
        /\ UNCHANGED <<payRows, revPosted, tx>>
    BY <2>1 DEF Create, books, IInv, RowsInv, Row
  <2> QED BY <2>2 DEF RevInv, RevenueBeforePayment, SawRevenue, PlanAddsUp
<1>2. CASE \E w \in Workers : \E r \in Requests : Arrive(w, r)
  <2>1. PICK w \in Workers, r \in Requests : Arrive(w, r)
    BY <1>2
  <2>2. /\ tx'[w].pc = FirstPc(r.op) /\ tx'[w].held = tx[w].held
        /\ \A v \in Workers : v # w => tx'[v] = tx[v]
    BY <2>1 DEF Arrive, IInv, TxInv, Tx
  <2>3. FirstPc(r.op) \notin BatchPcs \cup {"refresh", "rewrite", "remaining", "write"}
    <3>1. r.op \in OpNames
      BY RequestFacts DEF Request
    <3> QED BY <3>1 DEF FirstPc, OpNames, BatchPcs
  <2>4. tx[w].held = {}
    BY <2>1 DEF Arrive, RevInv, PlanAddsUp, BatchPcs
  <2> QED BY <1>0, <2>1, <2>2, <2>3, <2>4, PlainRev DEF Plain, Arrive, books
<1>3. CASE \E w \in Workers : Serve(w)
  <2> PICK w \in Workers : Serve(w)
    BY <1>3
  <2>1. CASE ReadHead(w)
    <3>1. CASE Reject(w)
      BY <1>0, <3>1, RejectRev
    <3>2. CASE Goto(w, "read") /\ Proceed
      BY <1>0, <2>1, <3>2, GotoRev DEF ReadHead, At, Proceed, books, BatchPcs
    <3> QED BY <2>1, <3>1, <3>2 DEF ReadHead
  <2> QED BY <1>0, <2>1, UpdateStatusRev, RecordPaymentRev, ConfirmMatchRev,
             SettleManyRev, SignRev DEF Serve
<1>4. CASE \E w \in Workers : Abort(w)
  BY <1>0, <1>4, RejectRev DEF Abort
<1>5. CASE UNCHANGED vars
  BY <1>5 DEF vars, books, RevInv, RevenueBeforePayment, SawRevenue, PlanAddsUp
<1> QED BY <1>1, <1>2, <1>3, <1>4, <1>5 DEF Next

LEMMA InitRev == Init => RevInv
<1> SUFFICES ASSUME Init PROVE RevInv
  OBVIOUS
<1>1. \A i \in Invoices : ~inv[i].rev /\ payRows[i] = 0
  BY DEF Init, NoRows, NoPlan, AbsentRow
<1>2. \A w \in Workers : tx[w].pc = "idle" /\ tx[w].held = {}
  BY DEF Init, Idle
<1> QED BY <1>1, <1>2
        DEF RevInv, RevenueBeforePayment, SawRevenue, PlanAddsUp, BatchPcs

(* Whatever requests interleave, batches included, no money is collected     *)
(* against an invoice whose revenue is not in the ledger.                    *)
THEOREM RevenueComesFirst == Spec => []RevenueBeforePayment
<1>1. RevInv => RevenueBeforePayment
  BY DEF RevInv
<1>2. IInv /\ RevInv /\ [Next]_vars => (IInv /\ RevInv)'
  BY StepInv, StepRev
<1> QED BY <1>1, <1>2, InitInv, InitRev, PTL DEF Spec

--------------------------------------------------------------------------------
LEMMA StepLedger ==
  ASSUME IInv, RevInv, LedgerBacksReceivables, [Next]_vars
  PROVE  LedgerBacksReceivables'
<1>0. RowsInv /\ RowsInv' /\ gl.ar = SumOver(Owed)
  BY StepInv DEF IInv, LedgerBacksReceivables, Owed
<1>1. (gl.ar = SumOver(Owed))' => LedgerBacksReceivables'
  BY DEF LedgerBacksReceivables, Owed
<1>2. CASE Quiet
  BY <1>2, <1>0 DEF LedgerBacksReceivables, Owed, Quiet, books
<1>3. CASE SomeInvoice
  BY <1>0, <1>1, <1>3, OneInvoiceBalances DEF SomeInvoice
<1>4. CASE \E w \in Workers : CommitAllocation(w) \/ CommitNetting(w)
  <2> PICK w \in Workers : CommitAllocation(w) \/ CommitNetting(w)
    BY <1>4
  <2>1. /\ tx[w].applied = SumOver(tx[w].plan) /\ tx[w].applied <= tx[w].req.amount
        /\ tx[w].plan \in [Invoices -> Nat]
        /\ tx[w].applied \in Nat /\ tx[w].req.amount \in Nat /\ gl.ar \in Int
    BY <1>0, Parameters
       DEF CommitAllocation, CommitNetting, At, RevInv, PlanAddsUp, BatchPcs,
           RowsInv, Tx
  <2>2. CASE CommitAllocation(w)
    <3>1. gl'.ar = gl.ar - tx[w].applied
      BY <2>2, <1>0 DEF CommitAllocation, Debit, RowsInv
    <3>2. payRows' = AddPlan(w, payRows) /\ revPosted' = revPosted
      BY <2>2 DEF CommitAllocation
    <3> QED BY <1>0, <1>1, <2>1, <3>1, <3>2, BatchBalances
  <2>3. CASE CommitNetting(w) /\ ~Reject(w)
    <3>1. tx[w].applied = tx[w].req.amount
      BY <2>1, <2>3 DEF CommitNetting
    <3>2. gl'.ar = gl.ar - tx[w].req.amount
      BY <2>3, <1>0 DEF CommitNetting, RowsInv
    <3>3. payRows' = AddPlan(w, payRows) /\ revPosted' = revPosted
      BY <2>3 DEF CommitNetting
    <3> QED BY <1>0, <1>1, <2>1, <3>1, <3>2, <3>3, BatchBalances
  <2>4. CASE Reject(w)
    BY <1>2, <2>4, RejectQuiet
  <2> QED BY <2>2, <2>3, <2>4
<1> QED BY <1>2, <1>3, <1>4, StepEffect

LEMMA InitLedger == Init => LedgerBacksReceivables
<1> SUFFICES ASSUME Init PROVE LedgerBacksReceivables
  OBVIOUS
<1>1. Owed \in [Invoices -> Int] /\ \A i \in Invoices : Owed[i] = 0
  <2>1. \A i \in Invoices : revPosted[i] = 0 /\ payRows[i] = 0 /\ Total[i] \in Nat
    BY InvoicesAssumption DEF Init, NoPlan
  <2>2. \A i \in Invoices : Owed[i] = 0
    BY <2>1 DEF Owed
  <2> QED BY <2>2 DEF Owed
<1>2. SumOver(Owed) = 0
  BY <1>1, InvoicesFinite, SumOverIs, SumZero
<1> QED BY <1>2 DEF LedgerBacksReceivables, Owed, Init

(* Account 211 always holds the recognised revenue that no payment row        *)
(* covers, whatever requests interleave: of an allocation and of a netting    *)
(* because the buckets add up to what the one journal of the batch posts.     *)
THEOREM LedgerAlwaysBacks == Spec => []LedgerBacksReceivables
<1>1. IInv /\ RevInv /\ LedgerBacksReceivables /\ [Next]_vars
        => (IInv /\ RevInv /\ LedgerBacksReceivables)'
  BY StepInv, StepRev, StepLedger
<1> QED BY <1>1, InitInv, InitRev, InitLedger, PTL DEF Spec

--------------------------------------------------------------------------------
(* The registers and the money accounts                                    *)

BookedAmount == [l \in Lines |-> booked[l] * LineAmount[l]]

LEMMA BookedType ==
  ASSUME NEW counts \in [Lines -> Nat]
  PROVE  [l \in Lines |-> counts[l] * LineAmount[l]] \in [Lines -> Int]
<1>1. ASSUME NEW l \in Lines PROVE counts[l] * LineAmount[l] \in Int
  <2>1. counts[l] \in Nat /\ LineAmount[l] \in Nat
    BY LinesAssumption
  <2> QED BY <2>1
<1> QED BY <1>1

LEMMA RegisterType ==
  ASSUME RowsInv
  PROVE  /\ mirror \in [Invoices -> Int] /\ kmo \in [Invoices -> Int]
         /\ BookedAmount \in [Lines -> Int]
         /\ SumOver(mirror) \in Int /\ SumOver(kmo) \in Int
         /\ SumOver(BookedAmount) \in Int
<1>1. mirror \in [Invoices -> Int] /\ kmo \in [Invoices -> Int]
  BY DEF RowsInv
<1>2. BookedAmount \in [Lines -> Int]
  BY BookedType DEF RowsInv, BookedAmount
<1>3. Values(mirror, Invoices) /\ Values(kmo, Invoices) /\ Values(BookedAmount, Lines)
  BY <1>1, <1>2 DEF Values
<1>4. /\ SumOver(mirror) = SumOn(mirror, Invoices)
      /\ SumOver(kmo) = SumOn(kmo, Invoices)
  BY <1>1, InvoicesFinite, SumOverIs
<1>5. SumOver(BookedAmount) = SumOn(BookedAmount, Lines)
  BY <1>2, LinesAssumption, SumOverIs
<1> QED BY <1>1, <1>2, <1>3, <1>4, <1>5, InvoicesFinite, LinesAssumption, SumType

(* A register entry of one invoice adds its amount to the register's sum.    *)
LEMMA AddEntry ==
  ASSUME NEW S, IsFiniteSet(S), NEW f \in [S -> Int], NEW g \in [S -> Int],
         NEW s \in S, NEW a \in Int, g[s] = f[s] + a,
         \A x \in S \ {s} : g[x] = f[x]
  PROVE  SumOver(g) = SumOver(f) + a
<1>1. Values(f, S) /\ g[s] \in Int /\ f[s] \in Int
  BY DEF Values
<1>2. SumOn(g, S) = SumOn(f, S) + g[s] - f[s]
  BY <1>1, SumPoint
<1>3. SumOver(g) = SumOn(g, S) /\ SumOver(f) = SumOn(f, S)
  BY SumOverIs
<1>4. SumOn(f, S) \in Int
  BY <1>1, SumType
<1> QED BY <1>1, <1>2, <1>3, <1>4

(* The two accounts move with the registers, up to the rounding posted.      *)
LEMMA OneInvoiceRegisters ==
  ASSUME RowsInv, RowsInv', RegistersMatchMoney,
         NEW i \in Invoices, NEW rec \in BOOLEAN, NEW a \in Nat, NEW r \in Nat,
         NEW c \in BOOLEAN, OneInvoice(i, rec, a, r, c)
  PROVE  RegistersMatchMoney'
<1>1. /\ gl.cash \in Int /\ gl.bank \in Int /\ gl.fx \in Nat
      /\ gl'.cash \in Int /\ gl'.bank \in Int /\ gl'.fx \in Nat
  BY DEF RowsInv
<1>2. /\ gl'.fx = gl.fx + r
      /\ gl'.cash = gl.cash + (IF c THEN a + r ELSE 0)
      /\ gl'.bank = gl.bank + (IF c THEN 0 ELSE a + r)
  <2>1. CASE c
    BY <1>1, <2>1 DEF OneInvoice, Post, Debit, RowsInv
  <2>2. CASE ~c
    BY <1>1, <2>2 DEF OneInvoice, Post, Debit, RowsInv
  <2> QED BY <2>1, <2>2
<1>3. /\ SumOver(mirror) \in Int /\ SumOver(kmo) \in Int
      /\ SumOver(BookedAmount) \in Int
      /\ mirror \in [Invoices -> Int] /\ kmo \in [Invoices -> Int]
      /\ BookedAmount \in [Lines -> Int]
  BY RegisterType
<1>4. /\ mirror' \in [Invoices -> Int] /\ kmo' \in [Invoices -> Int]
      /\ BookedAmount' \in [Lines -> Int]
  BY BookedType DEF RowsInv, BookedAmount
<1>5. SumOver(kmo') = SumOver(kmo) + (IF c THEN a ELSE 0)
  <2>1. kmo' = IF c THEN [kmo EXCEPT ![i] = @ + a] ELSE kmo
    BY DEF OneInvoice, BookPayment
  <2>2. CASE c
    <3>1. kmo'[i] = kmo[i] + a /\ \A x \in Invoices \ {i} : kmo'[x] = kmo[x]
      BY <1>3, <2>1, <2>2
    <3> QED BY <1>3, <1>4, <2>2, <3>1, InvoicesFinite, AddEntry
  <2>3. CASE ~c
    BY <1>3, <2>1, <2>3
  <2> QED BY <2>2, <2>3
<1>6. \/ /\ SumOver(mirror') = SumOver(mirror) + a
         /\ SumOver(BookedAmount') = SumOver(BookedAmount)
      \/ /\ SumOver(mirror') = SumOver(mirror)
         /\ SumOver(BookedAmount') = SumOver(BookedAmount) + (a + r)
  <2>1. CASE BookPayment(i, a, c, TRUE) /\ UNCHANGED booked
    <3>1. mirror' = [mirror EXCEPT ![i] = @ + a]
      BY <2>1 DEF BookPayment
    <3>2. mirror'[i] = mirror[i] + a
          /\ \A x \in Invoices \ {i} : mirror'[x] = mirror[x]
      BY <1>3, <3>1
    <3>3. SumOver(mirror') = SumOver(mirror) + a
      BY <1>3, <1>4, <3>2, InvoicesFinite, AddEntry
    <3>4. BookedAmount' = BookedAmount
      BY <2>1 DEF BookedAmount
    <3> QED BY <3>3, <3>4
  <2>2. ASSUME BookPayment(i, a, c, FALSE), NEW l \in Lines,
               a + r = LineAmount[l], booked' = [booked EXCEPT ![l] = @ + 1]
        PROVE  /\ SumOver(mirror') = SumOver(mirror)
               /\ SumOver(BookedAmount') = SumOver(BookedAmount) + (a + r)
    <3>1. mirror' = mirror
      BY <2>2 DEF BookPayment
    <3>2. booked \in [Lines -> Nat] /\ LineAmount[l] \in Nat
      BY LinesAssumption DEF RowsInv
    <3>3. booked'[l] = booked[l] + 1 /\ \A x \in Lines \ {l} : booked'[x] = booked[x]
      BY <2>2, <3>2
    <3>4. (booked[l] + 1) * LineAmount[l] = booked[l] * LineAmount[l] + LineAmount[l]
      BY <3>2
    <3>5. BookedAmount'[l] = BookedAmount[l] + (a + r)
      BY <2>2, <3>3, <3>4 DEF BookedAmount
    <3>6. \A x \in Lines \ {l} : BookedAmount'[x] = BookedAmount[x]
      BY <3>3 DEF BookedAmount
    <3>7. a + r \in Int
      OBVIOUS
    <3> QED BY <1>3, <1>4, <3>1, <3>5, <3>6, <3>7, LinesAssumption, AddEntry
  <2> QED BY <2>1, <2>2 DEF OneInvoice
<1>7. /\ gl.cash + gl.bank - SumOver(mirror) - SumOver(BookedAmount) \in 0..gl.fx
      /\ gl.cash - SumOver(kmo) \in 0..gl.fx
  BY DEF RegistersMatchMoney, BookedAmount
<1>8. /\ gl'.cash + gl'.bank - SumOver(mirror') - SumOver(BookedAmount')
           \in 0..gl'.fx
      /\ gl'.cash - SumOver(kmo') \in 0..gl'.fx
  BY <1>1, <1>2, <1>3, <1>5, <1>6, <1>7
<1> QED BY <1>8 DEF RegistersMatchMoney, BookedAmount

LEMMA StepRegisters ==
  ASSUME "ALLOC" \notin Ops, IInv, RegistersMatchMoney, [Next]_vars
  PROVE  RegistersMatchMoney'
<1>0. RowsInv /\ RowsInv'
  BY StepInv DEF IInv
<1>1. CASE Quiet
  BY <1>1 DEF RegistersMatchMoney, Quiet, books
<1>2. CASE SomeInvoice
  BY <1>0, <1>2, OneInvoiceRegisters DEF SomeInvoice
<1>3. CASE \E w \in Workers : CommitAllocation(w) \/ CommitNetting(w)
  <2> PICK w \in Workers : CommitAllocation(w) \/ CommitNetting(w)
    BY <1>3
  <2>1. CASE CommitAllocation(w)
    <3>1. tx[w].req.op = "ALLOC" /\ tx[w].pc # "idle"
      BY <2>1 DEF CommitAllocation, At
    <3> QED BY <3>1, Parameters DEF TxOK
  <2>2. CASE CommitNetting(w) /\ ~Reject(w)
    <3>1. /\ UNCHANGED <<mirror, kmo, booked>>
          /\ gl' = [gl EXCEPT !.ar = @ - tx[w].req.amount,
                              !.payable = @ - tx[w].req.amount]
      BY <2>2 DEF CommitNetting, otherRows, lineVars
    <3>2. gl'.cash = gl.cash /\ gl'.bank = gl.bank /\ gl'.fx = gl.fx
      BY <1>0, <3>1 DEF RowsInv
    <3> QED BY <3>1, <3>2 DEF RegistersMatchMoney
  <2>3. CASE Reject(w)
    BY <1>1, <2>3, RejectQuiet
  <2> QED BY <2>1, <2>2, <2>3
<1> QED BY <1>1, <1>2, <1>3, StepEffect

LEMMA InitRegisters == Init => RegistersMatchMoney
<1> SUFFICES ASSUME Init PROVE RegistersMatchMoney
  OBVIOUS
<1>1. /\ mirror \in [Invoices -> Int] /\ kmo \in [Invoices -> Int]
      /\ \A i \in Invoices : mirror[i] = 0 /\ kmo[i] = 0
  BY DEF Init, NoPlan
<1>2. \A l \in Lines : booked[l] = 0 /\ LineAmount[l] \in Nat
  BY LinesAssumption DEF Init
<1>3. BookedAmount \in [Lines -> Int] /\ \A l \in Lines : BookedAmount[l] = 0
  <2>1. \A l \in Lines : BookedAmount[l] = 0
    BY <1>2 DEF BookedAmount
  <2> QED BY <2>1 DEF BookedAmount
<1>4. SumOver(mirror) = 0 /\ SumOver(kmo) = 0 /\ SumOver(BookedAmount) = 0
  BY <1>1, <1>3, InvoicesFinite, LinesAssumption, SumOverIs, SumZero
<1>5. gl.cash = 0 /\ gl.bank = 0 /\ gl.fx = 0
  BY DEF Init
<1> QED BY <1>4, <1>5 DEF RegistersMatchMoney, BookedAmount

(* Unless payments are allocated, which creates neither a mirror line nor a   *)
(* cash order, the bank register and the cash orders explain the accounts 101 *)
(* and 221 up to the rounding that was posted, whatever requests interleave.  *)
THEOREM RegistersFollowMoney ==
  ASSUME "ALLOC" \notin Ops PROVE Spec => []RegistersMatchMoney
<1>1. IInv /\ RegistersMatchMoney /\ [Next]_vars => (IInv /\ RegistersMatchMoney)'
  BY StepInv, StepRegisters
<1> QED BY <1>1, InitInv, InitRegisters, PTL DEF Spec

--------------------------------------------------------------------------------
(* Waiting for rows                                                        *)

(* The bucket loop holds rows of the positions it has passed.                *)
HeldBehind(t) ==
  t.pc \in BatchPcs =>
    /\ t.req.op \in {"ALLOC", "NET"}
    /\ \A i \in t.held : \E k \in Invoices : k < t.pos /\ i = Order(t.req.op)[k]

HeldInv == \A w \in Workers : HeldBehind(tx[w])

(* Outside the bucket loop a step leads to no batch pc.                      *)
LEMMA StepOutsideBatch ==
  ASSUME IInv, NEW w \in Workers, Serve(w)
  PROVE  \/ /\ tx'[w].pc \notin BatchPcs
            /\ \A v \in Workers : v # w => tx'[v] = tx[v]
         \/ \E open : tx[w].req.op \in {"ALLOC", "NET"} /\ PlanBuckets(w, open)
                      /\ tx[w].pc \notin BatchPcs
         \/ ReadBucket(w) \/ WriteBucket(w)
<1> DEFINE Leaves == /\ tx'[w].pc \notin BatchPcs
                     /\ \A v \in Workers : v # w => tx'[v] = tx[v]
         Plans == \E open : /\ tx[w].req.op \in {"ALLOC", "NET"}
                            /\ PlanBuckets(w, open) /\ tx[w].pc \notin BatchPcs
<1>1. ASSUME Finish(w) PROVE Leaves
  BY <1>1, FinishPlain DEF Plain
<1>2. ASSUME NEW pc, Goto(w, pc), pc \notin BatchPcs PROVE Leaves
  BY <1>2, GotoFields
<1>3. ASSUME NEW row, NEW pc, ReadThen(w, row, pc), pc \notin BatchPcs PROVE Leaves
  BY <1>3, ReadThenFields
<1>4. Reject(w) => Leaves
  BY <1>1 DEF Reject
<1> HIDE DEF Leaves, Plans
<1>5. ReadHead(w) => Leaves
  BY <1>2, <1>4 DEF ReadHead, BatchPcs
<1>6. UpdateStatus(w) => Leaves
  <2>1. ReadForSent(w) => Leaves
    BY <1>3, <1>4 DEF ReadForSent, BatchPcs
  <2>2. ReadForPaid(w) => Leaves
    BY <1>3, <1>4 DEF ReadForPaid, BatchPcs
  <2>3. RefreshPaid(w) => Leaves
    BY <1>3 DEF RefreshPaid, BatchPcs
  <2>4. (WriteSent(w) \/ WritePaid(w) \/ RewritePaid(w)) => Leaves
    BY <1>1 DEF WriteSent, WritePaid, RewritePaid
  <2> QED BY <2>1, <2>2, <2>3, <2>4 DEF UpdateStatus
<1>7. RecordPayment(w) => Leaves
  <2>1. ReadForPayment(w) => Leaves
    BY <1>3, <1>4 DEF ReadForPayment, BatchPcs
  <2>2. WritePayment(w) => Leaves
    BY <1>1 DEF WritePayment
  <2> QED BY <2>1, <2>2 DEF RecordPayment
<1>8. ConfirmMatch(w) => Leaves
  <2>1. ReadLine(w) => Leaves
    BY <1>2, <1>4 DEF ReadLine, BatchPcs
  <2>2. ReadMatchInvoice(w) => Leaves
    BY <1>2, <1>4 DEF ReadMatchInvoice, BatchPcs
  <2>3. ReadForBank(w) => Leaves
    BY <1>3, <1>4 DEF ReadForBank, BatchPcs
  <2>4. ReadRemaining(w) => Leaves
    BY <1>3, <1>4 DEF ReadRemaining, BatchPcs
  <2>5. (MarkLine(w) \/ WriteBank(w) \/ RecogniseAndWriteBank(w)) => Leaves
    BY <1>1, <1>4 DEF MarkLine, WriteBank, RecogniseAndWriteBank, SettleLine
  <2> QED BY <2>1, <2>2, <2>3, <2>4, <2>5 DEF ConfirmMatch
<1>9. SettleMany(w) => Leaves \/ Plans \/ ReadBucket(w) \/ WriteBucket(w)
  <2>1. ReadCandidates(w) => Leaves \/ Plans
    BY <1>4 DEF ReadCandidates, At, BatchPcs, Plans
  <2>2. CheckNetting(w) => Leaves
    BY <1>2, <1>4 DEF CheckNetting, BatchPcs
  <2>3. ReadNettingInvoices(w) => Plans
    BY DEF ReadNettingInvoices, At, BatchPcs, Plans
  <2>4. (CommitAllocation(w) \/ CommitNetting(w)) => Leaves
    BY <1>1, <1>4 DEF CommitAllocation, CommitNetting
  <2> QED BY <2>1, <2>2, <2>3, <2>4 DEF SettleMany
<1>10. Sign(w) => Leaves
  <2>1. (ReadForSignature(w) \/ ReadCompletedLog(w)) => Leaves
    BY <1>2, <1>4 DEF ReadForSignature, ReadCompletedLog, BatchPcs
  <2>2. ClearPendingLogs(w) => Leaves
    BY <1>2 DEF ClearPendingLogs, BatchPcs
  <2>3. (CreatePendingLog(w) \/ ConfirmSignature(w)) => Leaves
    BY <1>1, <1>4 DEF CreatePendingLog, ConfirmSignature
  <2> QED BY <2>1, <2>2, <2>3 DEF Sign
<1> QED BY <1>5, <1>6, <1>7, <1>8, <1>9, <1>10 DEF Serve, Leaves, Plans

LEMMA StepHeld == ASSUME IInv, RevInv, HeldInv, [Next]_vars PROVE HeldInv'
<1>0. ASSUME NEW w \in Workers, \A v \in Workers : v # w => tx'[v] = tx[v],
             HeldBehind(tx'[w])
      PROVE  HeldInv'
  BY <1>0 DEF HeldInv
<1>1. ASSUME NEW w \in Workers, \A v \in Workers : v # w => tx'[v] = tx[v],
             tx'[w].pc \notin BatchPcs
      PROVE  HeldInv'
  BY <1>0, <1>1 DEF HeldBehind
<1>2. CASE \E i \in Invoices : Create(i)
  BY <1>2 DEF Create, HeldInv
<1>3. CASE \E w \in Workers : \E r \in Requests : Arrive(w, r)
  <2>1. PICK w \in Workers, r \in Requests : Arrive(w, r)
    BY <1>3
  <2>2. /\ tx'[w].pc = FirstPc(r.op)
        /\ \A v \in Workers : v # w => tx'[v] = tx[v]
    BY <2>1 DEF Arrive, IInv, TxInv, Tx
  <2>3. r.op \in OpNames
    BY RequestFacts DEF Request
  <2>4. FirstPc(r.op) \notin BatchPcs
    BY <2>3 DEF FirstPc, OpNames, BatchPcs
  <2> QED BY <1>1, <2>2, <2>4
<1>4. CASE \E w \in Workers : Serve(w)
  <2> PICK w \in Workers : Serve(w)
    BY <1>4
  <2>1. ASSUME NEW open, tx[w].req.op \in {"ALLOC", "NET"}, PlanBuckets(w, open),
               tx[w].pc \notin BatchPcs
        PROVE  HeldInv'
    <3>1. tx[w].held = {}
      BY <2>1 DEF RevInv, PlanAddsUp
    <3>2. PICK applied, plan :
            tx' = [tx EXCEPT ![w].pc = "bucketRead", ![w].plan = plan,
                             ![w].applied = applied, ![w].pos = 1]
      BY <2>1 DEF PlanBuckets
    <3>3. /\ tx'[w].held = {} /\ tx'[w].req = tx[w].req
          /\ \A v \in Workers : v # w => tx'[v] = tx[v]
      BY <3>1, <3>2 DEF IInv, TxInv, Tx
    <3> QED BY <1>0, <2>1, <3>3 DEF HeldBehind
  <2>2. CASE ReadBucket(w)
    <3>1. HeldBehind(tx[w]) /\ tx[w].pc = "bucketRead" /\ tx[w].pos \in Nat
      BY <2>2, Parameters DEF HeldInv, ReadBucket, At, Tx
    <3>2. /\ tx'[w].held = tx[w].held /\ tx'[w].req = tx[w].req
          /\ tx'[w].pos \in {tx[w].pos, tx[w].pos + 1}
          /\ \A v \in Workers : v # w => tx'[v] = tx[v]
      <4>1. CASE Goto(w, "commit")
        BY <4>1, <3>1 DEF Goto, IInv, TxInv, Tx
      <4>2. CASE tx' = [tx EXCEPT ![w].pos = @ + 1]
        BY <4>2 DEF IInv, TxInv, Tx
      <4>3. CASE \E row : ReadThen(w, row, "bucketWrite")
        BY <4>3 DEF ReadThen, IInv, TxInv, Tx
      <4> QED BY <2>2, <4>1, <4>2, <4>3 DEF ReadBucket
    <3>3. HeldBehind(tx'[w])
      <4>1. /\ tx[w].req.op \in {"ALLOC", "NET"}
            /\ \A i \in tx[w].held : \E k \in Invoices :
                 k < tx[w].pos /\ i = Order(tx[w].req.op)[k]
        BY <3>1 DEF HeldBehind, BatchPcs
      <4>2. \A k \in Invoices : k < tx[w].pos => k < tx'[w].pos
        BY <3>1, <3>2 DEF Invoices
      <4> QED BY <3>2, <4>1, <4>2 DEF HeldBehind
    <3> QED BY <1>0, <3>2, <3>3
  <2>3. CASE WriteBucket(w)
    <3> DEFINE i == Bucket(w)
    <3>1. HeldBehind(tx[w]) /\ tx[w].pc = "bucketWrite" /\ tx[w].pos \in Invoices
      BY <2>3, Parameters DEF HeldInv, WriteBucket, At, TxOK
    <3>2. PICK row : tx' = [tx EXCEPT ![w].pc = "bucketRead", ![w].pos = @ + 1,
                            ![w].seen = AbsentRow,
                            ![w].held = @ \cup {i}, ![w].fresh[i] = row]
      BY <2>3 DEF WriteBucket
    <3>3. i = Order(tx[w].req.op)[tx[w].pos]
      BY DEF Bucket
    <3> HIDE DEF i
    <3>4. tx \in [Workers -> Tx]
      BY DEF IInv, TxInv
    <3>5. \A v \in Workers : v # w => tx'[v] = tx[v]
      BY <3>2, <3>4
    <3>6. tx'[w] = [tx[w] EXCEPT !.pc = "bucketRead", !.pos = @ + 1,
                                 !.seen = AbsentRow, !.held = @ \cup {i},
                                 !.fresh[i] = row]
      BY <3>2, <3>4
    <3>7. /\ tx'[w].held = tx[w].held \cup {i} /\ tx'[w].req = tx[w].req
          /\ tx'[w].pos = tx[w].pos + 1
      BY <3>4, <3>6 DEF Tx
    <3>8. HeldBehind(tx'[w])
      <4>1. /\ tx[w].req.op \in {"ALLOC", "NET"}
            /\ \A j \in tx[w].held : \E k \in Invoices :
                 k < tx[w].pos /\ j = Order(tx[w].req.op)[k]
        BY <3>1 DEF HeldBehind, BatchPcs
      <4>2. \A k \in Invoices : k <= tx[w].pos => k < tx[w].pos + 1
        BY <3>1 DEF Invoices
      <4>3. \A k \in Invoices : k < tx[w].pos => k <= tx[w].pos
        BY <3>1 DEF Invoices
      <4>4. tx[w].pos <= tx[w].pos
        BY <3>1 DEF Invoices
      <4> QED BY <3>1, <3>3, <3>7, <4>1, <4>2, <4>3, <4>4 DEF HeldBehind
    <3> QED BY <1>0, <3>5, <3>8
  <2> QED BY <1>1, <2>1, <2>2, <2>3, StepOutsideBatch
<1>5. CASE \E w \in Workers : Abort(w)
  BY <1>1, <1>5, FinishPlain DEF Abort, Reject, Plain
<1>6. CASE UNCHANGED vars
  BY <1>6 DEF vars, HeldInv
<1> QED BY <1>2, <1>3, <1>4, <1>5, <1>6 DEF Next

(* A permutation of the invoices takes no invoice twice.                     *)
LEMMA NetOrderOnce ==
  ASSUME NEW j \in Invoices, NEW k \in Invoices, NetOrder[j] = NetOrder[k]
  PROVE  j = k
<1>1. NetOrder \in Surjection(Invoices, Invoices)
  BY InvoicesAssumption DEF Surjection
<1>2. NetOrder \in Injection(Invoices, Invoices)
  BY <1>1, InvoicesFinite, FS_SurjSameCardinalityImpliesInj
<1>3. IsInjective(NetOrder)
  BY <1>2 DEF Injection
<1>4. DOMAIN NetOrder = Invoices
  BY InvoicesAssumption
<1> QED BY <1>3, <1>4 DEF IsInjective

(* An allocation or netting that waits for the row of its position has gone  *)
(* past the positions of the rows it holds.                                  *)
LEMMA WaitingFacts ==
  ASSUME IInv, RevInv, HeldInv, NEW u \in Workers, tx[u].held # {},
         NEW i \in Waits(u)
  PROVE  /\ tx[u].pos \in Invoices
         /\ tx[u].req.op \in {"ALLOC", "NET"}
         /\ i = Order(tx[u].req.op)[tx[u].pos]
         /\ \A j \in tx[u].held : \E k \in Invoices :
              k < tx[u].pos /\ j = Order(tx[u].req.op)[k]
<1>1. tx[u].pc \in BatchPcs
  BY DEF RevInv, PlanAddsUp
<1>2. tx[u].pc = "bucketWrite"
  BY <1>1 DEF Waits, BatchPcs
<1>3. tx[u].pos \in Invoices
  BY <1>2, Parameters DEF TxOK
<1> QED BY <1>1, <1>2, <1>3 DEF Waits, Bucket, HeldInv, HeldBehind

(* Two orders in which each of two workers waits for what the other holds    *)
(* disagree; allocation has the order of the numbers.                        *)
LEMMA CyclesAreTies ==
  ASSUME IInv, RevInv, HeldInv PROVE OnlyTiesDeadlock
<1> SUFFICES ASSUME NEW v \in Workers, NEW w \in Workers,
                    NEW i \in Waits(v) \cap tx[w].held,
                    NEW j \in Waits(w) \cap tx[v].held, v # w
             PROVE  /\ {tx[v].req.op, tx[w].req.op} = {"ALLOC", "NET"}
                    /\ \E a, b \in Invoices : /\ a < b /\ NetOrder[a] > NetOrder[b]
                                              /\ {NetOrder[a], NetOrder[b]} = {i, j}
  BY DEF OnlyTiesDeadlock
<1> DEFINE f == Order(tx[w].req.op)
           g == Order(tx[v].req.op)
           p == tx[w].pos
           q == tx[v].pos
<1>1. /\ p \in Invoices /\ j = f[p]
      /\ tx[w].req.op \in {"ALLOC", "NET"}
      /\ \E k \in Invoices : k < p /\ i = f[k]
  BY WaitingFacts
<1>2. /\ q \in Invoices /\ i = g[q]
      /\ tx[v].req.op \in {"ALLOC", "NET"}
      /\ \E m \in Invoices : m < q /\ j = g[m]
  BY WaitingFacts
<1>3. PICK k \in Invoices : k < p /\ i = f[k]
  BY <1>1
<1>4. PICK m \in Invoices : m < q /\ j = g[m]
  BY <1>2
<1>5. ASSUME NEW op \in {"ALLOC", "NET"}, NEW a \in Invoices
      PROVE  /\ op = "ALLOC" => Order(op)[a] = a
             /\ op = "NET" => Order(op)[a] = NetOrder[a]
  BY DEF Order
<1>6. tx[v].req.op # tx[w].req.op
  <2>1. SUFFICES ASSUME tx[v].req.op = tx[w].req.op PROVE FALSE
    OBVIOUS
  <2>2. \A a, b \in Invoices : f[a] = f[b] => a = b
    BY <1>1, <1>5, NetOrderOnce
  <2>3. f = g
    BY <2>1
  <2> HIDE DEF f, g, p, q
  <2>4. q = k /\ p = m
    BY <1>1, <1>2, <1>3, <1>4, <2>2, <2>3
  <2> QED BY <1>1, <1>2, <1>3, <1>4, <2>4 DEF Invoices
<1>7. CASE tx[w].req.op = "ALLOC" /\ tx[v].req.op = "NET"
  <2>1. f[p] = p /\ f[k] = k /\ g[q] = NetOrder[q] /\ g[m] = NetOrder[m]
    BY <1>1, <1>2, <1>3, <1>4, <1>5, <1>7
  <2> HIDE DEF f, g, p, q
  <2>2. m < q /\ NetOrder[m] > NetOrder[q] /\ {NetOrder[m], NetOrder[q]} = {i, j}
    BY <1>1, <1>2, <1>3, <1>4, <2>1 DEF Invoices
  <2> QED BY <1>2, <1>4, <1>7, <2>2
<1>8. CASE tx[w].req.op = "NET" /\ tx[v].req.op = "ALLOC"
  <2>1. g[q] = q /\ g[m] = m /\ f[p] = NetOrder[p] /\ f[k] = NetOrder[k]
    BY <1>1, <1>2, <1>3, <1>4, <1>5, <1>8
  <2> HIDE DEF f, g, p, q
  <2>2. k < p /\ NetOrder[k] > NetOrder[p] /\ {NetOrder[k], NetOrder[p]} = {i, j}
    BY <1>1, <1>2, <1>3, <1>4, <2>1 DEF Invoices
  <2> QED BY <1>1, <1>3, <1>8, <2>2
<1> QED BY <1>1, <1>2, <1>6, <1>7, <1>8

(* However many allocations and nettings run together with any other request *)
(* and in whatever order netting takes the invoices, transactions wait for   *)
(* one another only when one allocates, one nets, and the rows they wait for *)
(* are two that the orders disagree on (invoices due on the same day).       *)
THEOREM OnlyTiesEverDeadlock == Spec => []OnlyTiesDeadlock
<1>1. Init => HeldInv
  BY DEF Init, Idle, HeldInv, HeldBehind, BatchPcs
<1>2. IInv /\ RevInv /\ HeldInv => OnlyTiesDeadlock
  BY CyclesAreTies
<1>3. IInv /\ RevInv /\ HeldInv /\ [Next]_vars => (IInv /\ RevInv /\ HeldInv)'
  BY StepInv, StepRev, StepHeld
<1> QED BY <1>1, <1>2, <1>3, InitInv, InitRev, PTL DEF Spec
================================================================================
