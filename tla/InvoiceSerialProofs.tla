-------------------------- MODULE InvoiceSerialProofs --------------------------
(***************************************************************************)
(* What InvoicePayments guarantees when requests are served one at a time, *)
(* netting included, for every number of invoices, lines and requests: the *)
(* rows of the invoices, of their payments and of their journals agree,    *)
(* and the whole implements Receivable.  With two requests in service most *)
(* of it is lost (README, section 9).                                      *)
(***************************************************************************)
EXTENDS InvoiceMoneyProofs

(* The requests of this module.                                              *)
Serial == MaxInFlight <= 1

(* The committed row of an invoice, the sums of its allocation rows and of   *)
(* its payment rows, and the number of its revenue journals agree. Netting   *)
(* adds to the payment rows alone.                                           *)
StatusOf(i, rev, paid) ==
  IF ~rev THEN "DRAFT"
  ELSE IF paid >= Total[i] THEN "PAID"
  ELSE IF paid > 0 THEN "PARTIALLY_PAID" ELSE "SENT"

RowExact(i, row, alloc, pays, posted) ==
  /\ row.paid = alloc /\ alloc <= Total[i]
  /\ alloc <= pays /\ pays - alloc <= Total[i]
  /\ posted = IF row.rev THEN 1 ELSE 0
  /\ pays > 0 => row.rev
  /\ row.status = "ABSENT" => ~row.rev
  /\ row.status \notin {"ABSENT", "LOCKED_BY_SIGNATURE"}
       => row.status \in {StatusOf(i, row.rev, alloc), StatusOf(i, row.rev, pays)}

(* The steps that rely on the row of the request's invoice.                  *)
RowPcs == {"write", "refresh", "rewrite", "recognise", "remaining"}

(* What the request in service knows of the row of its invoice.              *)
KnowsRow(t, row) ==
  LET i == t.req.inv IN
  /\ t.pc # "idle" => t.req.op \in {"ALLOC", "NET"} \/ row.status # "ABSENT"
  /\ t.pc \in RowPcs => row.status \notin {"ABSENT", "LOCKED_BY_SIGNATURE"}
  /\ t.pc \in {"write", "rewrite"} => t.seen = row
  /\ t.pc = "write" /\ t.req.op = "SENT" => row.paid = 0
  /\ t.pc = "write" /\ t.req.op = "PAY"
       => row.rev /\ Acceptable(i, row, t.req.amount)
  /\ t.pc = "write" /\ t.req.op = "MATCH"
       => row.rev /\ Acceptable(i, row, LineAmount[t.req.line])
  /\ t.pc \in {"refresh", "rewrite"} => row.rev /\ row.paid >= Total[i]
  /\ t.pc = "remaining" => row.rev
  /\ t.pc = "recognise" => ~row.rev

(* A statement line that is being matched is matched to nothing yet.         *)
KnowsLine(t, lines) ==
  \/ t.pc \in {"matchInvoice", "mark", "apply", "recognise", "remaining"}
  \/ t.pc = "write" /\ t.req.op = "MATCH"
  => lines[t.req.line] = 0

(* The row that an allocation or a netting gives an invoice, for a bucket of *)
(* `a` and payment rows of `pays`.                                           *)
Settled(op, i, row, pays, a) ==
  IF op = "NET" THEN Derived(i, row, pays + a) ELSE Paid(i, row, a)

(* A bucket fits the row it was computed from.                               *)
Fits(op, i, row, pays, a) ==
  /\ row.rev
  /\ op = "NET" => pays + a <= Total[i]
  /\ op = "ALLOC" => row.status # "LOCKED_BY_SIGNATURE" /\ a <= Remaining(i, row)

(* The invoices at the positions before p, in the order of an operation.     *)
Before(op, p) == {i \in Invoices : \E k \in Invoices : k < p /\ Order(op)[k] = i}

(* The rows that the buckets of a request give the invoices.                 *)
Result(t, rows, pays) ==
  [i \in Invoices |-> Settled(t.req.op, i, rows[i], pays[i], t.plan[i])]

(* The loop has written the rows of the buckets it has passed, and what it   *)
(* computed for the next one.                                                *)
LoopAt(t, result) ==
  /\ t.held = {i \in Before(t.req.op, t.pos) : t.plan[i] > 0}
  /\ \A i \in t.held : t.fresh[i] = result[i]
  /\ t.pc = "bucketWrite" =>
       LET i == Order(t.req.op)[t.pos]
       IN  /\ t.plan[i] > 0
           /\ t.seen.status = result[i].status /\ t.seen.recv = result[i].recv
           /\ t.req.op = "ALLOC" => t.seen.paid = result[i].paid
  /\ t.pc = "commit" => t.pos > NInvoices

(* The buckets fit the rows, and the rows written are those passed.          *)
KnowsPlan(t, rows, pays) ==
  t.pc \in BatchPcs =>
    /\ t.req.op \in {"ALLOC", "NET"}
    /\ \A i \in Invoices :
         t.plan[i] > 0 => Fits(t.req.op, i, rows[i], pays[i], t.plan[i])
    /\ LoopAt(t, Result(t, rows, pays))

Knows(t, rows, pays, lines) ==
  /\ KnowsRow(t, rows[t.req.inv])
  /\ KnowsLine(t, lines)
  /\ KnowsPlan(t, rows, pays)

OneAtATime ==
  \A v, w \in Workers : tx[v].pc # "idle" /\ tx[w].pc # "idle" => v = w

RowsExact ==
  \A i \in Invoices : RowExact(i, inv[i], allocRows[i], payRows[i], revPosted[i])

(* The lines that an invoice has taken, as LineBookedOnce counts them.       *)
Taken(i) == [l \in Lines |-> LeastTaken(i, l)]

LinesExact ==
  /\ \A l \in Lines : booked[l] <= 1 /\ (matched[l] = 0 => booked[l] = 0)
  /\ \A i \in Invoices : SumOver(Taken(i)) <= allocRows[i] - mirror[i]

SerialInv ==
  /\ OneAtATime /\ RowsExact /\ LinesExact
  /\ \A w \in Workers : Knows(tx[w], inv, payRows, matched)

--------------------------------------------------------------------------------
(* Exact rows                                                              *)

LEMMA PaidFields ==
  ASSUME NEW i \in Invoices, NEW row \in Row, NEW a \in Nat
  PROVE  /\ Paid(i, row, a).paid = row.paid + a
         /\ Paid(i, row, a).rev = row.rev
         /\ Paid(i, row, a).status = PaymentStatus(i, row.paid + a, row.status)
BY DEF Paid, Derived, Row

(* A payment is never more than what remains of the row it is for.           *)
LEMMA PaymentWithinRest ==
  ASSUME NEW i \in Invoices, NEW row \in Row, NEW a \in Nat
  PROVE  Payment(i, row, a) <= Remaining(i, row)
<1>1. Remaining(i, row) \in Int
  BY PaymentType
<1> QED BY <1>1 DEF Payment, LeastOf

(* A recognised invoice that a sum of payments gives its status.             *)
LEMMA DerivedExact ==
  ASSUME NEW i \in Invoices, NEW row \in Row, row.rev, row.status # "ABSENT",
         NEW alloc, NEW pays, NEW posted,
         RowExact(i, row, alloc, pays, posted), NEW sum \in Nat
  PROVE  LET status == PaymentStatus(i, sum, row.status)
         IN  /\ status # "ABSENT"
             /\ status # "LOCKED_BY_SIGNATURE" => status = StatusOf(i, TRUE, sum)
             /\ row.status = "LOCKED_BY_SIGNATURE" => status = "LOCKED_BY_SIGNATURE"
<1>1. CASE row.status = "LOCKED_BY_SIGNATURE"
  BY <1>1 DEF PaymentStatus
<1>2. CASE row.status # "LOCKED_BY_SIGNATURE"
  <2>1. row.status # "DRAFT"
    BY <1>2 DEF RowExact, StatusOf
  <2> QED BY <1>2, <2>1 DEF PaymentStatus, StatusOf
<1> QED BY <1>1, <1>2

(* A payment within what remains of a recognised invoice.                    *)
LEMMA PayExact ==
  ASSUME NEW i \in Invoices, NEW row \in Row,
         NEW alloc \in Nat, NEW pays \in Nat, NEW posted,
         RowExact(i, row, alloc, pays, posted), row.rev,
         NEW a \in Nat, a <= Remaining(i, row)
  PROVE  RowExact(i, Paid(i, row, a), alloc + a, pays + a, posted)
<1>1. Total[i] \in Nat \ {0} /\ row.paid \in Nat
  BY InvoicesAssumption DEF Row
<1>2. /\ row.paid = alloc /\ alloc + a <= Total[i] /\ posted = 1
      /\ alloc + a <= pays + a /\ (pays + a) - (alloc + a) <= Total[i]
      /\ alloc + a \in Nat
  BY <1>1 DEF RowExact, Remaining
<1>3. row.status # "ABSENT"
  BY DEF RowExact
<1> DEFINE new == Paid(i, row, a)
<1>4. /\ new.paid = alloc + a /\ new.rev
      /\ new.status = PaymentStatus(i, alloc + a, row.status)
  BY <1>2, PaidFields
<1>5. /\ new.status # "ABSENT"
      /\ new.status # "LOCKED_BY_SIGNATURE"
           => new.status = StatusOf(i, new.rev, alloc + a)
  <2>1. new.status # "LOCKED_BY_SIGNATURE"
           => new.status = StatusOf(i, TRUE, alloc + a)
    BY <1>2, <1>3, <1>4, DerivedExact
  <2>2. new.status # "ABSENT"
    BY <1>2, <1>3, <1>4, DerivedExact
  <2>3. StatusOf(i, TRUE, alloc + a) = StatusOf(i, new.rev, alloc + a)
    BY <1>4 DEF StatusOf
  <2> HIDE DEF new
  <2> QED BY <2>1, <2>2, <2>3
<1> HIDE DEF new
<1> QED BY <1>2, <1>4, <1>5 DEF RowExact, new

(* An amount set off within what the payment rows leave.                     *)
LEMMA NetExact ==
  ASSUME NEW i \in Invoices, NEW row \in Row,
         NEW alloc \in Nat, NEW pays \in Nat, NEW posted,
         RowExact(i, row, alloc, pays, posted), row.rev,
         NEW a \in Nat, pays + a <= Total[i]
  PROVE  RowExact(i, Derived(i, row, pays + a), alloc, pays + a, posted)
<1>1. Total[i] \in Nat \ {0} /\ pays + a \in Nat
  BY InvoicesAssumption
<1>2. /\ row.paid = alloc /\ alloc <= Total[i] /\ posted = 1
      /\ alloc <= pays + a /\ (pays + a) - alloc <= Total[i]
      /\ row.status # "ABSENT"
  BY <1>1 DEF RowExact
<1> DEFINE new == Derived(i, row, pays + a)
<1>3. new.paid = alloc /\ new.rev
  BY <1>1, <1>2, DerivedType
<1>4. new.status = PaymentStatus(i, pays + a, row.status)
  BY DEF Derived, Row
<1>5. /\ new.status # "ABSENT"
      /\ new.status # "LOCKED_BY_SIGNATURE"
           => new.status = StatusOf(i, TRUE, pays + a)
  BY <1>1, <1>2, <1>4, DerivedExact
<1>6. StatusOf(i, TRUE, pays + a) = StatusOf(i, new.rev, pays + a)
  BY <1>3 DEF StatusOf
<1> HIDE DEF new
<1> QED BY <1>2, <1>3, <1>5, <1>6 DEF RowExact, new

(* The recognition of revenue by a statement line.                           *)
LEMMA RecogniseExact ==
  ASSUME NEW i \in Invoices, NEW row \in Row,
         NEW alloc \in Nat, NEW pays \in Nat, NEW posted,
         RowExact(i, row, alloc, pays, posted), ~row.rev
  PROVE  /\ alloc = 0 /\ pays = 0 /\ posted = 0
         /\ [row EXCEPT !.rev = TRUE, !.status = "SENT"] \in Row
         /\ RowExact(i, [row EXCEPT !.rev = TRUE, !.status = "SENT"], 0, 0, 1)
<1>1. Total[i] \in Nat \ {0}
  BY InvoicesAssumption
<1>2. pays = 0 /\ alloc = 0 /\ posted = 0 /\ row.paid = 0
  BY DEF RowExact
<1> DEFINE new == [row EXCEPT !.rev = TRUE, !.status = "SENT"]
<1>3. new.rev /\ new.status = "SENT" /\ new.paid = 0 /\ new \in Row
  BY <1>2 DEF Row, Status
<1> HIDE DEF new
<1>4. RowExact(i, new, 0, 0, 1)
  BY <1>1, <1>3 DEF RowExact, StatusOf
<1> QED BY <1>2, <1>3, <1>4 DEF new

--------------------------------------------------------------------------------
(* One request at a time                                                   *)

(* A step leaves an invoice's books, or its row and its books, as they are.  *)
SameBooks(i) ==
  /\ payRows'[i] = payRows[i] /\ allocRows'[i] = allocRows[i]
  /\ mirror'[i] = mirror[i] /\ kmo'[i] = kmo[i] /\ revPosted'[i] = revPosted[i]
SameRow(i) == inv'[i] = inv[i] /\ SameBooks(i)

(* What SignedRowIsFrozen asks of an invoice.                                *)
Kept(i) ==
  /\ inv'[i].status = inv[i].status /\ inv'[i].paid = inv[i].paid
  /\ inv'[i].rev = inv[i].rev
  /\ allocRows'[i] = allocRows[i] /\ mirror'[i] = mirror[i]
  /\ kmo'[i] = kmo[i] /\ revPosted'[i] = revPosted[i]

(* The row of a signed invoice stays as it is.                               *)
Frozen == \A i \in Invoices : inv[i].status = "LOCKED_BY_SIGNATURE" => Kept(i)

LEMMA SameKept == ASSUME NEW i, SameRow(i) PROVE Kept(i)
BY DEF SameRow, SameBooks, Kept

(* Nothing is written: the rows and the lines stay exact.                    *)
LEMMA UnchangedExact ==
  ASSUME SerialInv, UNCHANGED <<inv, books, matched, booked>>
  PROVE  RowsExact' /\ LinesExact' /\ Frozen
<1>1. UNCHANGED <<payRows, allocRows, mirror, kmo, revPosted>>
  BY DEF books
<1>2. RowsExact'
  BY <1>1 DEF SerialInv, RowsExact
<1>3. LinesExact'
  BY <1>1 DEF SerialInv, LinesExact, Taken, LeastTaken
<1>4. Frozen
  BY <1>1 DEF Frozen, Kept
<1> QED BY <1>2, <1>3, <1>4

LEMMA IdleKnows ==
  ASSUME NEW t, t.pc = "idle", NEW rows, NEW pays, NEW lines
  PROVE  Knows(t, rows, pays, lines)
BY DEF Knows, KnowsRow, KnowsLine, KnowsPlan, RowPcs, BatchPcs

LEMMA SerialStep ==
  ASSUME SerialInv, NEW w \in Workers,
         \A v \in Workers : v # w => tx'[v] = tx[v],
         tx[w].pc # "idle" \/ \A v \in Workers : tx[v].pc = "idle",
         RowsExact', LinesExact', Knows(tx'[w], inv', payRows', matched')
  PROVE  SerialInv'
<1>1. \A v \in Workers : v # w => tx'[v].pc = "idle"
  BY DEF SerialInv, OneAtATime
<1>2. OneAtATime'
  BY <1>1 DEF OneAtATime
<1>3. \A v \in Workers : Knows(tx'[v], inv', payRows', matched')
  BY <1>1, IdleKnows
<1> QED BY <1>2, <1>3 DEF SerialInv

LEMMA FinishSerial ==
  ASSUME IInv, SerialInv, NEW w \in Workers, tx[w].pc # "idle", Finish(w),
         RowsExact', LinesExact'
  PROVE  SerialInv'
<1>1. tx'[w].pc = "idle" /\ \A v \in Workers : v # w => tx'[v] = tx[v]
  BY DEF Finish, Idle, IInv, TxInv
<1>2. Knows(tx'[w], inv', payRows', matched')
  BY <1>1, IdleKnows
<1> QED BY <1>1, <1>2, SerialStep

LEMMA RejectSerial ==
  ASSUME IInv, SerialInv, NEW w \in Workers, tx[w].pc # "idle", Reject(w)
  PROVE  SerialInv' /\ Frozen
<1>1. UNCHANGED <<inv, books, booked, matched>> /\ Finish(w)
  BY DEF Reject, otherRows, lineVars
<1>2. RowsExact' /\ LinesExact' /\ Frozen
  BY <1>1, UnchangedExact
<1> QED BY <1>1, <1>2, FinishSerial

LEMMA ReadSerial ==
  ASSUME SerialInv, NEW w \in Workers, tx[w].pc # "idle", Proceed,
         \A v \in Workers : v # w => tx'[v] = tx[v],
         Knows(tx'[w], inv, payRows, matched)
  PROVE  SerialInv' /\ Frozen
<1>1. UNCHANGED <<inv, books, payRows, booked, matched>>
  BY DEF Proceed, books, otherRows, lineVars
<1>2. RowsExact' /\ LinesExact' /\ Frozen
  BY <1>1, UnchangedExact
<1>3. Knows(tx'[w], inv', payRows', matched')
  BY <1>1
<1> QED BY <1>2, <1>3, SerialStep

(* The last step of a request that writes one unsigned invoice exactly.      *)
LEMMA WriteSerial ==
  ASSUME IInv, SerialInv, NEW w \in Workers, tx[w].pc # "idle", Finish(w),
         NEW i \in Invoices, inv[i].status # "LOCKED_BY_SIGNATURE",
         \A j \in Invoices \ {i} : SameRow(j),
         RowExact(i, inv'[i], allocRows'[i], payRows'[i], revPosted'[i]), LinesExact'
  PROVE  SerialInv' /\ Frozen
<1>1. RowsExact'
  BY DEF SerialInv, RowsExact, SameRow, SameBooks
<1>2. Frozen
  BY SameKept DEF Frozen
<1> QED BY <1>1, <1>2, FinishSerial

(* What a request in service knows, and the row of its invoice.              *)
LEMMA KnownFacts ==
  ASSUME IInv, SerialInv, NEW w \in Workers
  PROVE  LET i == tx[w].req.inv
         IN  /\ i \in Invoices /\ inv[i] \in Row /\ payRows[i] \in Nat
             /\ allocRows[i] \in Nat
             /\ revPosted[i] \in Nat /\ Total[i] \in Nat \ {0}
             /\ RowExact(i, inv[i], allocRows[i], payRows[i], revPosted[i])
             /\ KnowsRow(tx[w], inv[i]) /\ KnowsLine(tx[w], matched)
             /\ KnowsPlan(tx[w], inv, payRows)
<1>1. tx[w].req.inv \in Invoices /\ inv[tx[w].req.inv] \in Row
  BY Parameters
<1>2. Knows(tx[w], inv, payRows, matched) /\ RowsExact
  BY DEF SerialInv
<1> QED BY <1>1, <1>2, InvoicesAssumption DEF Knows, RowsExact, IInv, RowsInv

(* A move of the request to a step that relies on nothing new.               *)
LEMMA GotoSerial ==
  ASSUME IInv, SerialInv, NEW w \in Workers, tx[w].pc # "idle", Proceed,
         NEW pc, Goto(w, pc), pc \notin RowPcs \cup BatchPcs,
         pc \in {"matchInvoice", "mark", "apply"}
           => matched[tx[w].req.line] = 0
  PROVE  SerialInv' /\ Frozen
<1>1. /\ tx'[w].pc = pc /\ tx'[w].req = tx[w].req
      /\ \A v \in Workers : v # w => tx'[v] = tx[v]
  BY GotoFields
<1>2. KnowsRow(tx[w], inv[tx[w].req.inv])
  BY KnownFacts
<1>3. KnowsRow(tx'[w], inv[tx'[w].req.inv])
  BY <1>1, <1>2 DEF KnowsRow, RowPcs
<1>4. KnowsLine(tx'[w], matched)
  BY <1>1 DEF KnowsLine, RowPcs
<1>5. KnowsPlan(tx'[w], inv, payRows)
  BY <1>1 DEF KnowsPlan
<1> QED BY <1>1, <1>3, <1>4, <1>5, ReadSerial DEF Knows

(* A read that the next step relies on.                                      *)
LEMMA ReadThenSerial ==
  ASSUME IInv, SerialInv, NEW w \in Workers, tx[w].pc # "idle", Proceed,
         tx[w].req.op \notin {"ALLOC", "NET"},
         NEW row, NEW pc \in RowPcs, ReadThen(w, row, pc),
         inv[tx[w].req.inv].status # "LOCKED_BY_SIGNATURE",
         pc \in {"write", "rewrite"} => row = inv[tx[w].req.inv],
         pc = "write" /\ tx[w].req.op = "SENT" => inv[tx[w].req.inv].paid = 0,
         pc = "write" /\ tx[w].req.op = "PAY"
           => /\ inv[tx[w].req.inv].rev
              /\ Acceptable(tx[w].req.inv, inv[tx[w].req.inv], tx[w].req.amount),
         pc = "write" /\ tx[w].req.op = "MATCH"
           => /\ inv[tx[w].req.inv].rev
              /\ Acceptable(tx[w].req.inv, inv[tx[w].req.inv],
                            LineAmount[tx[w].req.line]),
         pc \in {"refresh", "rewrite"}
           => /\ inv[tx[w].req.inv].rev
              /\ inv[tx[w].req.inv].paid >= Total[tx[w].req.inv],
         pc = "remaining" => inv[tx[w].req.inv].rev,
         pc = "recognise" => ~inv[tx[w].req.inv].rev,
         pc \in {"remaining", "recognise"} \/ tx[w].req.op = "MATCH"
           => matched[tx[w].req.line] = 0
  PROVE  SerialInv' /\ Frozen
<1>1. /\ tx'[w].pc = pc /\ tx'[w].req = tx[w].req /\ tx'[w].seen = row
      /\ \A v \in Workers : v # w => tx'[v] = tx[v]
  BY ReadThenFields
<1>2. inv[tx[w].req.inv].status # "ABSENT"
  BY KnownFacts DEF KnowsRow
<1>3. KnowsRow(tx'[w], inv[tx'[w].req.inv])
  BY <1>1, <1>2 DEF KnowsRow, RowPcs
<1>4. KnowsLine(tx'[w], matched)
  BY <1>1 DEF KnowsLine, RowPcs
<1>5. KnowsPlan(tx'[w], inv, payRows)
  <2>1. pc \notin BatchPcs
    BY DEF RowPcs, BatchPcs
  <2>2. tx'[w].pc \notin BatchPcs
    BY <1>1, <2>1
  <2> QED BY <2>2 DEF KnowsPlan
<1> QED BY <1>1, <1>3, <1>4, <1>5, ReadSerial DEF Knows

(* What the journals and the payment of one invoice do to its books.         *)
LEMMA BookedRows ==
  ASSUME RowsInv, NEW i \in Invoices, NEW a \in Nat, NEW rec \in BOOLEAN,
         NEW r, NEW c, NEW d, NEW m, BookPayment(i, a, d, m), Post(i, rec, a, r, c)
  PROVE  /\ payRows'[i] = payRows[i] + a
         /\ allocRows'[i] = allocRows[i] + a
         /\ mirror'[i] = IF m THEN mirror[i] + a ELSE mirror[i]
         /\ revPosted'[i] = revPosted[i] + (IF rec THEN 1 ELSE 0)
         /\ \A j \in Invoices \ {i} : SameBooks(j)
<1>1. /\ payRows' = [payRows EXCEPT ![i] = @ + a] /\ payRows \in [Invoices -> Nat]
      /\ allocRows' = [allocRows EXCEPT ![i] = @ + a]
      /\ allocRows \in [Invoices -> Nat]
  BY DEF BookPayment, RowsInv
<1>2. /\ revPosted' = IF rec THEN [revPosted EXCEPT ![i] = @ + 1] ELSE revPosted
      /\ revPosted \in [Invoices -> Nat]
  BY DEF Post, RowsInv
<1>3. /\ payRows'[i] = payRows[i] + a /\ allocRows'[i] = allocRows[i] + a
      /\ \A j \in Invoices \ {i} :
           payRows'[j] = payRows[j] /\ allocRows'[j] = allocRows[j]
  BY <1>1
<1>4. /\ mirror'[i] = IF m THEN mirror[i] + a ELSE mirror[i]
      /\ \A j \in Invoices \ {i} : mirror'[j] = mirror[j]
  <2>1. /\ mirror' = IF m THEN [mirror EXCEPT ![i] = @ + a] ELSE mirror
        /\ mirror \in [Invoices -> Nat]
    BY DEF BookPayment, RowsInv
  <2>2. CASE m
    BY <2>1, <2>2
  <2>3. CASE ~m
    BY <2>1, <2>3
  <2> QED BY <2>2, <2>3
<1>5. \A j \in Invoices \ {i} : kmo'[j] = kmo[j]
  <2>1. /\ kmo' = IF d THEN [kmo EXCEPT ![i] = @ + a] ELSE kmo
        /\ kmo \in [Invoices -> Nat]
    BY DEF BookPayment, RowsInv
  <2>2. CASE d
    BY <2>1, <2>2
  <2>3. CASE ~d
    BY <2>1, <2>3
  <2> QED BY <2>2, <2>3
<1>6. /\ revPosted'[i] = revPosted[i] + (IF rec THEN 1 ELSE 0)
      /\ \A j \in Invoices \ {i} : revPosted'[j] = revPosted[j]
  <2>1. CASE rec
    BY <1>2, <2>1
  <2>2. CASE ~rec
    BY <1>2, <2>2
  <2> QED BY <2>1, <2>2
<1> QED BY <1>3, <1>4, <1>5, <1>6 DEF SameBooks

LEMMA TakenType ==
  ASSUME RowsInv, NEW i \in Invoices
  PROVE  /\ Taken(i) \in [Lines -> Int]
         /\ SumOver(Taken(i)) \in Int
         /\ allocRows[i] \in Nat /\ mirror[i] \in Nat
<1>1. ASSUME NEW l \in Lines PROVE LeastTaken(i, l) \in Int
  <2> DEFINE least == LineAmount[l] - (IF i \in ForeignInvoices THEN Tolerance ELSE 0)
  <2>1. least \in Int /\ booked[l] \in Int
    BY LinesAssumption, InvoicesAssumption DEF RowsInv
  <2> HIDE DEF least
  <2>2. booked[l] * least \in Int
    BY <2>1
  <2> QED BY <2>2 DEF LeastTaken, least
<1>2. Taken(i) \in [Lines -> Int]
  BY <1>1 DEF Taken
<1>3. Values(Taken(i), Lines)
  BY <1>2 DEF Values
<1>4. SumOver(Taken(i)) = SumOn(Taken(i), Lines)
  BY <1>2, LinesAssumption, SumOverIs
<1>5. SumOn(Taken(i), Lines) \in Int
  BY <1>3, LinesAssumption, SumType
<1> QED BY <1>2, <1>4, <1>5 DEF RowsInv

(* Lines left alone, and allocations that grow as much as the mirror lines.  *)
LEMMA LinesKept ==
  ASSUME IInv, SerialInv, UNCHANGED <<matched, booked>>,
         \A i \in Invoices : \E a, m \in Nat : /\ allocRows'[i] = allocRows[i] + a
                                             /\ mirror'[i] = mirror[i] + m
                                             /\ m <= a
  PROVE  LinesExact'
<1>1. ASSUME NEW i \in Invoices
      PROVE  SumOver(Taken(i))' <= allocRows'[i] - mirror'[i]
  <2>1. Taken(i)' = Taken(i)
    BY DEF Taken, LeastTaken
  <2>2. SumOver(Taken(i)) <= allocRows[i] - mirror[i]
    BY DEF SerialInv, LinesExact
  <2>3. SumOver(Taken(i)) \in Int /\ allocRows[i] \in Nat /\ mirror[i] \in Nat
    BY TakenType DEF IInv
  <2>4. PICK a, m \in Nat : /\ allocRows'[i] = allocRows[i] + a
                            /\ mirror'[i] = mirror[i] + m /\ m <= a
    OBVIOUS
  <2> QED BY <2>1, <2>2, <2>3, <2>4
<1>2. \A l \in Lines : booked'[l] <= 1 /\ (matched'[l] = 0 => booked'[l] = 0)
  BY DEF SerialInv, LinesExact
<1> QED BY <1>1, <1>2 DEF LinesExact

(* So are the lines when a payment that is no line is booked.                *)
LEMMA PaidLinesKept ==
  ASSUME IInv, SerialInv, UNCHANGED <<matched, booked>>,
         NEW i \in Invoices, NEW a \in Nat, NEW rec \in BOOLEAN,
         NEW r, NEW c, NEW d, NEW m, BookPayment(i, a, d, m), Post(i, rec, a, r, c)
  PROVE  LinesExact'
<1>1. /\ allocRows'[i] = allocRows[i] + a
      /\ mirror'[i] = IF m THEN mirror[i] + a ELSE mirror[i]
      /\ \A j \in Invoices \ {i} : SameBooks(j)
  BY BookedRows DEF IInv
<1>2. \A j \in Invoices : allocRows[j] \in Nat /\ mirror[j] \in Nat
  BY DEF IInv, RowsInv
<1>3. ASSUME NEW j \in Invoices
      PROVE  \E x, y \in Nat : /\ allocRows'[j] = allocRows[j] + x
                               /\ mirror'[j] = mirror[j] + y /\ y <= x
  <2>1. CASE j # i
    <3>1. allocRows'[j] = allocRows[j] + 0 /\ mirror'[j] = mirror[j] + 0 /\ 0 <= 0
      BY <1>1, <1>2, <2>1 DEF SameBooks
    <3> QED BY <3>1
  <2>2. CASE j = i /\ m
    <3>1. mirror'[j] = mirror[j] + a /\ a <= a
      BY <1>1, <2>2
    <3> QED BY <1>1, <2>2, <3>1
  <2>3. CASE j = i /\ ~m
    <3>1. mirror'[j] = mirror[j] + 0 /\ 0 <= a
      BY <1>1, <1>2, <2>3
    <3> QED BY <1>1, <2>3, <3>1
  <2> QED BY <2>1, <2>2, <2>3
<1> QED BY <1>3, LinesKept

--------------------------------------------------------------------------------
LEMMA ReadHeadSerial ==
  ASSUME IInv, SerialInv, NEW w \in Workers, ReadHead(w)
  PROVE  SerialInv' /\ Frozen
<1>1. tx[w].pc # "idle"
  BY DEF ReadHead, At
<1>2. Reject(w) \/ (Goto(w, "read") /\ Proceed)
  BY DEF ReadHead
<1> QED BY <1>1, <1>2, RejectSerial, GotoSerial DEF RowPcs, BatchPcs

LEMMA ReadForSentSerial ==
  ASSUME IInv, SerialInv, NEW w \in Workers, ReadForSent(w)
  PROVE  SerialInv' /\ Frozen
<1> DEFINE row == inv[tx[w].req.inv]
<1>1. tx[w].pc = "read" /\ tx[w].req.op = "SENT"
  BY DEF ReadForSent, At
<1>2. CASE Reject(w)
  BY <1>1, <1>2, RejectSerial
<1>3. CASE /\ row.status # "LOCKED_BY_SIGNATURE" /\ ~(row.paid > 0)
           /\ ReadThen(w, row, "write") /\ Proceed
  <2>1. row \in Row
    BY KnownFacts
  <2>2. row.paid \in Nat
    BY <2>1 DEF Row
  <2>3. row.paid = 0
    BY <1>3, <2>2
  <2> QED BY <1>1, <1>3, <2>3, ReadThenSerial DEF RowPcs
<1> QED BY <1>2, <1>3 DEF ReadForSent

LEMMA WriteSentSerial ==
  ASSUME IInv, SerialInv, NEW w \in Workers, WriteSent(w)
  PROVE  SerialInv' /\ Frozen
<1> DEFINE i == tx[w].req.inv
           new == [inv[i] EXCEPT !.status = "SENT", !.rev = @ \/ ~tx[w].seen.rev]
<1>1. /\ tx[w].pc = "write" /\ tx[w].req.op = "SENT" /\ Finish(w)
      /\ inv' = [inv EXCEPT ![i] = new]
      /\ Post(i, ~tx[w].seen.rev, 0, 0, FALSE)
      /\ UNCHANGED <<payRows, allocRows, mirror, kmo, matched, booked>>
  BY DEF WriteSent, At, otherRows, lineVars
<1>2. /\ i \in Invoices /\ inv[i] \in Row /\ Total[i] \in Nat \ {0}
      /\ revPosted \in [Invoices -> Nat] /\ inv \in [Invoices -> Row]
      /\ RowExact(i, inv[i], allocRows[i], payRows[i], revPosted[i])
      /\ payRows[i] \in Nat
  BY KnownFacts DEF IInv, RowsInv
<1>3. /\ tx[w].seen = inv[i] /\ inv[i].paid = 0
      /\ inv[i].status # "LOCKED_BY_SIGNATURE"
  BY <1>1, KnownFacts DEF KnowsRow, RowPcs
<1>4. /\ new.status = "SENT" /\ new.rev /\ new.paid = 0
      /\ allocRows[i] = 0 /\ payRows[i] <= Total[i]
  <2>1. new.status = "SENT" /\ new.rev /\ new.paid = 0
    BY <1>2, <1>3 DEF Row
  <2>2. allocRows[i] = 0 /\ payRows[i] - allocRows[i] <= Total[i]
    BY <1>2, <1>3 DEF RowExact
  <2>3. payRows[i] <= Total[i]
    BY <1>2, <2>2
  <2> QED BY <2>1, <2>2, <2>3
<1> HIDE DEF new
<1>5. /\ inv'[i] = new /\ payRows'[i] = payRows[i] /\ allocRows'[i] = 0
      /\ revPosted'[i] = 1
      /\ \A j \in Invoices \ {i} : SameRow(j)
  <2>1. revPosted' = IF ~inv[i].rev THEN [revPosted EXCEPT ![i] = @ + 1]
                                    ELSE revPosted
    BY <1>1, <1>3 DEF Post
  <2>2. revPosted[i] = IF inv[i].rev THEN 1 ELSE 0
    BY <1>2 DEF RowExact
  <2>3. revPosted'[i] = 1 /\ \A j \in Invoices \ {i} : revPosted'[j] = revPosted[j]
    <3>1. CASE inv[i].rev
      BY <2>1, <2>2, <3>1
    <3>2. CASE ~inv[i].rev
      BY <1>2, <2>1, <2>2, <3>2
    <3> QED BY <3>1, <3>2
  <2> QED BY <1>1, <1>2, <1>4, <2>3 DEF SameRow, SameBooks
<1>6. RowExact(i, new, 0, payRows[i], 1)
  BY <1>2, <1>4 DEF RowExact, StatusOf
<1>7. RowExact(i, inv'[i], allocRows'[i], payRows'[i], revPosted'[i])
  BY <1>5, <1>6
<1>8. LinesExact'
  <2>1. \A j \in Invoices : /\ allocRows'[j] = allocRows[j] + 0
                             /\ mirror'[j] = mirror[j] + 0
                             /\ 0 <= 0
    BY <1>1 DEF IInv, RowsInv
  <2> QED BY <1>1, <2>1, LinesKept
<1>9. tx[w].pc # "idle"
  BY <1>1
<1> HIDE DEF i
<1> QED BY <1>1, <1>2, <1>3, <1>5, <1>7, <1>8, <1>9, WriteSerial

LEMMA ReadForPaidSerial ==
  ASSUME IInv, SerialInv, NEW w \in Workers, ReadForPaid(w)
  PROVE  SerialInv' /\ Frozen
<1> DEFINE i == tx[w].req.inv
           row == inv[i]
           pc == IF row.rev /\ Remaining(i, row) <= 0 THEN "refresh" ELSE "write"
<1>1. tx[w].pc = "read" /\ tx[w].req.op = "PAID"
  BY DEF ReadForPaid, At
<1>2. CASE Reject(w)
  BY <1>1, <1>2, RejectSerial
<1>3. CASE /\ row.status # "LOCKED_BY_SIGNATURE"
           /\ ReadThen(w, row, pc) /\ Proceed
  <2>1. pc \in {"refresh", "write"} /\ pc \in RowPcs
    BY DEF RowPcs
  <2>2. pc = "refresh" => row.rev /\ row.paid >= Total[i]
    BY KnownFacts DEF Remaining, Row
  <2> HIDE DEF pc
  <2> QED BY <1>1, <1>3, <2>1, <2>2, ReadThenSerial
<1> QED BY <1>2, <1>3 DEF ReadForPaid

LEMMA WritePaidSerial ==
  ASSUME IInv, SerialInv, NEW w \in Workers, WritePaid(w)
  PROVE  SerialInv' /\ Frozen
<1> DEFINE i == tx[w].req.inv
           rest == Remaining(i, inv[i])
           a == IF rest > 0 THEN rest ELSE 0
           new == [Paid(i, inv[i], a) EXCEPT !.rev = TRUE]
           c == i \in CashInvoices
<1>1. /\ tx[w].pc = "write" /\ tx[w].req.op = "PAID" /\ tx[w].pc # "idle"
  BY DEF WritePaid, At
<1>2. /\ i \in Invoices /\ inv[i] \in Row /\ Total[i] \in Nat \ {0}
      /\ payRows[i] \in Nat /\ allocRows[i] \in Nat
      /\ RowsInv /\ inv \in [Invoices -> Row]
      /\ RowExact(i, inv[i], allocRows[i], payRows[i], revPosted[i])
  BY KnownFacts DEF IInv, RowsInv
<1>3. /\ tx[w].seen = inv[i]
      /\ inv[i].status \notin {"ABSENT", "LOCKED_BY_SIGNATURE"}
  BY <1>1, KnownFacts DEF KnowsRow, RowPcs
<1>4. /\ inv' = [inv EXCEPT ![i] = new] /\ Finish(w)
      /\ BookPayment(i, a, c, TRUE) /\ Post(i, ~inv[i].rev, a, 0, c)
      /\ UNCHANGED <<matched, booked>>
  BY <1>3 DEF WritePaid, otherRows, lineVars
<1>5. a \in Nat /\ allocRows[i] + a = Total[i] /\ inv[i].paid + a = Total[i]
  <2>1. inv[i].paid = allocRows[i] /\ allocRows[i] <= Total[i]
    BY <1>2 DEF RowExact
  <2>2. rest = Total[i] - inv[i].paid
    BY DEF Remaining
  <2>3. /\ inv[i].paid \in Nat /\ Total[i] \in Nat
        /\ inv[i].paid <= Total[i] /\ allocRows[i] = inv[i].paid
    BY <1>2, <2>1
  <2>4. rest \in Nat /\ inv[i].paid + rest = Total[i]
    BY <2>2, <2>3
  <2>5. a = rest
    BY <2>4
  <2> QED BY <2>3, <2>4, <2>5
<1>6. new.paid = Total[i] /\ new.rev /\ new.status = "PAID"
  <2>1. /\ Paid(i, inv[i], a).paid = inv[i].paid + a
        /\ Paid(i, inv[i], a).status = PaymentStatus(i, inv[i].paid + a, inv[i].status)
    BY <1>2, <1>5, PaidFields
  <2>2. PaymentStatus(i, Total[i], inv[i].status) = "PAID"
    <3>1. Total[i] >= Total[i] /\ Total[i] > 0
      BY <1>2
    <3> QED BY <1>3, <3>1 DEF PaymentStatus
  <2>3. Paid(i, inv[i], a) \in Row
    BY <1>2, <1>5, PaidType
  <2> HIDE DEF a
  <2> QED BY <1>5, <2>1, <2>2, <2>3 DEF Row
<1> HIDE DEF new, a, c
<1>7. (~inv[i].rev) \in BOOLEAN
  OBVIOUS
<1>8. /\ payRows'[i] = payRows[i] + a
      /\ allocRows'[i] = allocRows[i] + a
      /\ revPosted'[i] = revPosted[i] + (IF ~inv[i].rev THEN 1 ELSE 0)
      /\ \A j \in Invoices \ {i} : SameBooks(j)
  BY <1>2, <1>4, <1>5, <1>7, BookedRows
<1>9. inv'[i] = new /\ \A j \in Invoices \ {i} : inv'[j] = inv[j]
  BY <1>2, <1>4
<1>10. allocRows'[i] = Total[i] /\ revPosted'[i] = 1
  <2>1. revPosted[i] = IF inv[i].rev THEN 1 ELSE 0
    BY <1>2 DEF RowExact
  <2>2. revPosted[i] + (IF ~inv[i].rev THEN 1 ELSE 0) = 1
    BY <2>1
  <2> QED BY <1>5, <1>8, <2>2
<1>11. RowExact(i, new, Total[i], payRows[i] + a, 1)
  <2>1. Total[i] <= payRows[i] + a /\ payRows[i] + a - Total[i] <= Total[i]
    BY <1>2, <1>5 DEF RowExact
  <2> QED BY <1>2, <1>5, <1>6, <2>1 DEF RowExact, StatusOf
<1>12. LinesExact'
  BY <1>2, <1>4, <1>5, <1>7, PaidLinesKept
<1>13. \A j \in Invoices \ {i} : SameRow(j)
  BY <1>8, <1>9 DEF SameRow
<1> HIDE DEF i
<1> QED BY <1>1, <1>2, <1>3, <1>4, <1>8, <1>9, <1>10, <1>11, <1>12, <1>13,
           WriteSerial

LEMMA RefreshPaidSerial ==
  ASSUME IInv, SerialInv, NEW w \in Workers, RefreshPaid(w)
  PROVE  SerialInv' /\ Frozen
<1>1. /\ tx[w].pc = "refresh" /\ tx[w].req.op = "PAID"
      /\ ReadThen(w, inv[tx[w].req.inv], "rewrite") /\ Proceed
  BY DEF RefreshPaid, At
<1>2. /\ inv[tx[w].req.inv].status # "LOCKED_BY_SIGNATURE"
      /\ inv[tx[w].req.inv].rev
      /\ inv[tx[w].req.inv].paid >= Total[tx[w].req.inv]
  BY <1>1, KnownFacts DEF KnowsRow, RowPcs
<1> QED BY <1>1, <1>2, ReadThenSerial DEF RowPcs

LEMMA RewritePaidSerial ==
  ASSUME IInv, SerialInv, NEW w \in Workers, RewritePaid(w)
  PROVE  SerialInv' /\ Frozen
<1> DEFINE i == tx[w].req.inv
           row == Derived(i, tx[w].seen, tx[w].seen.paid)
           new == [inv[i] EXCEPT !.status = row.status, !.recv = row.recv,
                                 !.rev = TRUE]
<1>1. tx[w].pc = "rewrite" /\ tx[w].pc # "idle"
  BY DEF RewritePaid, At
<1>2. /\ i \in Invoices /\ inv[i] \in Row /\ Total[i] \in Nat \ {0}
      /\ payRows[i] \in Nat /\ inv \in [Invoices -> Row]
      /\ RowExact(i, inv[i], allocRows[i], payRows[i], revPosted[i])
  BY KnownFacts DEF IInv, RowsInv
<1>3. /\ tx[w].seen = inv[i]
      /\ inv[i].status \notin {"ABSENT", "LOCKED_BY_SIGNATURE"}
      /\ inv[i].rev /\ inv[i].paid >= Total[i]
  BY <1>1, KnownFacts DEF KnowsRow, RowPcs
<1>4. /\ inv' = [inv EXCEPT ![i] = new] /\ Finish(w)
      /\ UNCHANGED <<payRows, allocRows, mirror, kmo, revPosted, matched, booked>>
  <2>1. UNCHANGED <<books, matched, booked>>
    BY DEF RewritePaid, otherRows, lineVars
  <2>2. /\ inv' = [inv EXCEPT ![i].status = row.status, ![i].recv = row.recv,
                              ![i].rev = TRUE]
        /\ Finish(w)
    BY DEF RewritePaid
  <2>3. inv' = [inv EXCEPT ![i] = new]
    <3> HIDE DEF i, row
    <3> QED BY <1>2, <2>2
  <2>4. UNCHANGED <<payRows, allocRows, mirror, kmo, revPosted, matched, booked>>
    BY <2>1 DEF books
  <2> QED BY <2>2, <2>3, <2>4
<1>5. row.status = "PAID"
  BY <1>2, <1>3 DEF Derived, PaymentStatus, Row
<1>6. new.status = "PAID" /\ new.rev /\ new.paid = inv[i].paid
  BY <1>2, <1>5 DEF Row
<1> HIDE DEF new
<1>7. RowExact(i, new, allocRows[i], payRows[i], revPosted[i])
  BY <1>2, <1>3, <1>6 DEF RowExact, StatusOf
<1>8. inv'[i] = new /\ \A j \in Invoices \ {i} : inv'[j] = inv[j]
  BY <1>2, <1>4
<1>9. LinesExact'
  <2>1. \A j \in Invoices : /\ allocRows'[j] = allocRows[j] + 0
                             /\ mirror'[j] = mirror[j] + 0
                             /\ 0 <= 0
    BY <1>4 DEF IInv, RowsInv
  <2> QED BY <1>4, <2>1, LinesKept
<1>10. \A j \in Invoices \ {i} : SameRow(j)
  BY <1>4, <1>8 DEF SameRow, SameBooks
<1> HIDE DEF i
<1> QED BY <1>1, <1>2, <1>3, <1>4, <1>7, <1>8, <1>9, <1>10, WriteSerial

--------------------------------------------------------------------------------
LEMMA ReadForPaymentSerial ==
  ASSUME IInv, SerialInv, NEW w \in Workers, ReadForPayment(w)
  PROVE  SerialInv' /\ Frozen
<1> DEFINE i == tx[w].req.inv
           row == inv[i]
<1>1. tx[w].pc = "read" /\ tx[w].req.op = "PAY"
  BY DEF ReadForPayment, At
<1>2. CASE Reject(w)
  BY <1>1, <1>2, RejectSerial
<1>3. CASE /\ row.status # "LOCKED_BY_SIGNATURE" /\ row.rev
           /\ Acceptable(i, row, tx[w].req.amount)
           /\ ReadThen(w, row, "write") /\ Proceed
  BY <1>1, <1>3, ReadThenSerial DEF RowPcs
<1> QED BY <1>2, <1>3 DEF ReadForPayment

(* A payment of a recognised invoice, entered or matched, of the amount that *)
(* the request or the line has.                                              *)
LEMMA PaymentSerial ==
  ASSUME IInv, SerialInv, NEW w \in Workers, tx[w].pc # "idle",
         NEW row \in Row, NEW amount \in Nat, NEW rec \in BOOLEAN,
         NEW r, NEW c, NEW d, NEW m,
         LET i == tx[w].req.inv
             a == Payment(i, row, amount)
         IN  /\ inv[i].status # "LOCKED_BY_SIGNATURE"
             /\ RowExact(i, row, allocRows[i], payRows[i],
                         revPosted[i] + (IF rec THEN 1 ELSE 0))
             /\ row.rev /\ a > 0
             /\ inv' = [inv EXCEPT ![i] = Paid(i, row, a)]
             /\ BookPayment(i, a, d, m) /\ Post(i, rec, a, r, c),
         Finish(w), LinesExact'
  PROVE  SerialInv' /\ Frozen
<1> DEFINE i == tx[w].req.inv
           a == Payment(i, row, amount)
<1>1. /\ i \in Invoices /\ payRows[i] \in Nat /\ allocRows[i] \in Nat /\ RowsInv
      /\ inv \in [Invoices -> Row]
  BY KnownFacts DEF IInv, RowsInv
<1>2. a \in Nat /\ a <= Remaining(i, row)
  <2>1. a \in Int /\ a > 0 /\ Remaining(i, row) \in Int
    BY <1>1, PaymentType
  <2>2. a <= Remaining(i, row)
    BY <1>1, PaymentWithinRest
  <2>3. a \in Nat
    BY <2>1
  <2> QED BY <2>2, <2>3
<1>3. /\ inv[i].status # "LOCKED_BY_SIGNATURE" /\ row.rev
      /\ RowExact(i, row, allocRows[i], payRows[i],
                  revPosted[i] + (IF rec THEN 1 ELSE 0))
      /\ inv' = [inv EXCEPT ![i] = Paid(i, row, a)]
      /\ BookPayment(i, a, d, m) /\ Post(i, rec, a, r, c)
  OBVIOUS
<1> HIDE DEF a, i
<1>4. /\ payRows'[i] = payRows[i] + a
      /\ allocRows'[i] = allocRows[i] + a
      /\ revPosted'[i] = revPosted[i] + (IF rec THEN 1 ELSE 0)
      /\ \A j \in Invoices \ {i} : SameBooks(j)
  BY <1>1, <1>2, <1>3, BookedRows
<1>5. inv'[i] = Paid(i, row, a) /\ \A j \in Invoices \ {i} : SameRow(j)
  BY <1>1, <1>3, <1>4 DEF SameRow
<1>6. RowExact(i, inv'[i], allocRows'[i], payRows'[i], revPosted'[i])
  <2> DEFINE posted == revPosted[i] + (IF rec THEN 1 ELSE 0)
  <2>1. RowExact(i, row, allocRows[i], payRows[i], posted) /\ row.rev
    BY <1>3
  <2> HIDE DEF posted
  <2>2. RowExact(i, Paid(i, row, a), allocRows[i] + a, payRows[i] + a, posted)
    BY <1>1, <1>2, <2>1, PayExact
  <2>3. /\ payRows'[i] = payRows[i] + a /\ allocRows'[i] = allocRows[i] + a
        /\ revPosted'[i] = posted
    BY <1>4 DEF posted
  <2>4. inv'[i] = Paid(i, row, a)
    BY <1>5
  <2> QED BY <2>2, <2>3, <2>4
<1> QED BY <1>1, <1>3, <1>5, <1>6, WriteSerial

LEMMA WritePaymentSerial ==
  ASSUME IInv, SerialInv, NEW w \in Workers, WritePayment(w)
  PROVE  SerialInv' /\ Frozen
<1> DEFINE i == tx[w].req.inv
           amount == tx[w].req.amount
           a == Payment(i, inv[i], amount)
           r == Rounding(i, inv[i], amount)
           c == tx[w].req.cash
<1>1. tx[w].pc = "write" /\ tx[w].req.op = "PAY" /\ tx[w].pc # "idle"
  BY DEF WritePayment, At
<1>2. /\ inv[i] \in Row /\ amount \in Nat /\ revPosted[i] \in Nat
      /\ RowExact(i, inv[i], allocRows[i], payRows[i], revPosted[i])
  BY KnownFacts, Parameters
<1>3. /\ tx[w].seen = inv[i] /\ inv[i].status # "LOCKED_BY_SIGNATURE"
      /\ inv[i].rev /\ Acceptable(i, inv[i], amount)
  BY <1>1, KnownFacts DEF KnowsRow, RowPcs
<1>4. /\ inv' = [inv EXCEPT ![i] = Paid(i, inv[i], a)] /\ Finish(w)
      /\ BookPayment(i, a, c, TRUE) /\ Post(i, FALSE, a, r, c)
      /\ UNCHANGED <<matched, booked>>
  BY <1>3 DEF WritePayment, otherRows, lineVars
<1>5. a > 0
  BY <1>3 DEF Acceptable
<1>6. RowExact(i, inv[i], allocRows[i], payRows[i],
               revPosted[i] + (IF FALSE THEN 1 ELSE 0))
  BY <1>2
<1>7. LinesExact'
  <2>1. i \in Invoices /\ a \in Int /\ a > 0
    BY <1>2, <1>5, KnownFacts, PaymentType
  <2>2. a \in Nat
    BY <2>1
  <2> HIDE DEF a, r, c, i, amount
  <2> PICK rec \in BOOLEAN : Post(i, rec, a, r, c)
    BY <1>4
  <2> PICK m : BookPayment(i, a, c, m)
    BY <1>4
  <2> QED BY <1>4, <2>1, <2>2, PaidLinesKept
<1> HIDE DEF r, c, amount
<1> QED BY <1>1, <1>2, <1>3, <1>4, <1>5, <1>6, <1>7, PaymentSerial

--------------------------------------------------------------------------------
LEMMA ReadLineSerial ==
  ASSUME IInv, SerialInv, NEW w \in Workers, ReadLine(w) \/ ReadMatchInvoice(w)
  PROVE  SerialInv' /\ Frozen
<1>1. tx[w].pc \in {"line", "matchInvoice"} /\ tx[w].pc # "idle"
  BY DEF ReadLine, ReadMatchInvoice, At
<1>2. \/ Reject(w)
      \/ /\ matched[tx[w].req.line] = 0 /\ Proceed
         /\ \E pc \in {"matchInvoice", "mark", "apply"} : Goto(w, pc)
  <2>1. CASE ReadLine(w)
    BY <2>1 DEF ReadLine
  <2>2. CASE ReadMatchInvoice(w)
    <3>1. matched[tx[w].req.line] = 0
      BY <2>2, KnownFacts DEF ReadMatchInvoice, At, KnowsLine
    <3> QED BY <2>2, <3>1 DEF ReadMatchInvoice
  <2> QED BY <2>1, <2>2
<1> QED BY <1>1, <1>2, RejectSerial, GotoSerial DEF RowPcs, BatchPcs

(* A line that was not matched is matched to an invoice.  It may be booked    *)
(* with it, when the invoice takes its amount but for the rounding.          *)
Least(i, l) == LineAmount[l] - (IF i \in ForeignInvoices THEN Tolerance ELSE 0)

LEMMA MatchLine ==
  ASSUME IInv, SerialInv, NEW l \in Lines, NEW i \in Invoices, matched[l] = 0,
         matched' = [matched EXCEPT ![l] = i],
         NEW b \in {0, 1}, booked' = [booked EXCEPT ![l] = @ + b],
         NEW a \in Nat, b = 1 => Least(i, l) <= a,
         allocRows'[i] = allocRows[i] + a,
         \A j \in Invoices \ {i} : allocRows'[j] = allocRows[j],
         \A j \in Invoices : mirror'[j] = mirror[j]
  PROVE  LinesExact'
<1>1. /\ matched \in [Lines -> Invoices \cup {0}] /\ booked \in [Lines -> Nat]
      /\ LinesExact /\ i # 0
  BY DEF IInv, RowsInv, SerialInv, Invoices
<1>2. matched'[l] = i /\ \A k \in Lines \ {l} : matched'[k] = matched[k]
  BY <1>1
<1>3. booked[l] = 0
  BY <1>1 DEF LinesExact
<1>4. booked'[l] = b /\ \A k \in Lines \ {l} : booked'[k] = booked[k]
  BY <1>1, <1>3
<1>5. \A k \in Lines : booked'[k] <= 1 /\ (matched'[k] = 0 => booked'[k] = 0)
  BY <1>1, <1>2, <1>4 DEF LinesExact
<1>6. Least(i, l) \in Int
  BY LinesAssumption, InvoicesAssumption DEF Least
<1>7. ASSUME NEW j \in Invoices
      PROVE  SumOver(Taken(j))' <= allocRows'[j] - mirror'[j]
  <2>1. /\ Taken(j) \in [Lines -> Int] /\ SumOver(Taken(j)) \in Int
        /\ allocRows[j] \in Nat /\ mirror[j] \in Nat
        /\ SumOver(Taken(j)) <= allocRows[j] - mirror[j]
    BY <1>1, TakenType DEF IInv, LinesExact
  <2>2. \A k \in Lines \ {l} : Taken(j)'[k] = Taken(j)[k]
    BY <1>2, <1>4 DEF Taken, LeastTaken
  <2>3. Taken(j)[l] = 0
    <3>1. matched[l] # j
      BY DEF Invoices
    <3> QED BY <3>1 DEF Taken, LeastTaken
  <2>4. Taken(j)'[l] = IF j = i THEN b * Least(i, l) ELSE 0
    BY <1>2, <1>4 DEF Taken, LeastTaken, Least
  <2>5. b * Least(i, l) \in Int /\ b * Least(i, l) <= a
    BY <1>6
  <2>6. SumOver(Taken(j))' = SumOver(Taken(j)) + Taken(j)'[l]
    <3> DEFINE f == Taken(j)
               g == Taken(j)'
    <3>1. g[l] \in Int
      BY <2>4, <2>5
    <3>2. \A k \in Lines : g[k] \in Int
      BY <2>1, <2>2, <3>1
    <3>3. g = [k \in Lines |-> g[k]]
      BY DEF Taken
    <3>4. g \in [Lines -> Int] /\ f \in [Lines -> Int]
      BY <2>1, <3>2, <3>3
    <3>5. g[l] = f[l] + g[l]
      BY <2>3, <3>1
    <3>6. \A k \in Lines \ {l} : g[k] = f[k]
      BY <2>2
    <3>7. SumOver(g) = SumOver(f) + g[l]
      <4> HIDE DEF f, g
      <4> QED BY <3>1, <3>4, <3>5, <3>6, LinesAssumption, AddEntry
    <3>8. SumOver(Taken(j))' = SumOver(g)
      OBVIOUS
    <3> QED BY <3>7, <3>8
  <2>7. CASE j = i
    BY <2>1, <2>4, <2>5, <2>6, <2>7
  <2>8. CASE j # i
    BY <2>1, <2>4, <2>6, <2>8
  <2> QED BY <2>7, <2>8
<1> QED BY <1>5, <1>7 DEF LinesExact

LEMMA MarkLineSerial ==
  ASSUME IInv, SerialInv, NEW w \in Workers, MarkLine(w)
  PROVE  SerialInv' /\ Frozen
<1>1. /\ tx[w].req.op = "MATCH" /\ tx[w].pc = "mark" /\ tx[w].pc # "idle"
      /\ Finish(w)
      /\ matched' = [matched EXCEPT ![tx[w].req.line] = tx[w].req.inv]
      /\ UNCHANGED <<inv, payRows, allocRows, mirror, kmo, revPosted, booked>>
  BY DEF MarkLine, At, books
<1>2. /\ tx[w].req.line \in Lines /\ tx[w].req.inv \in Invoices
      /\ matched[tx[w].req.line] = 0
  BY <1>1, Parameters, KnownFacts DEF KnowsLine
<1>3. LinesExact'
  <2> DEFINE b == 0
             l == tx[w].req.line
             i == tx[w].req.inv
  <2>1. /\ booked' = [booked EXCEPT ![l] = @ + b]
        /\ \A j \in Invoices : allocRows'[j] = allocRows[j] + b
    BY <1>1, <1>2 DEF IInv, RowsInv
  <2>3. /\ b \in {0, 1} /\ b \in Nat /\ b # 1
        /\ matched' = [matched EXCEPT ![l] = i] /\ matched[l] = 0
        /\ l \in Lines /\ i \in Invoices
    BY <1>1, <1>2
  <2>2. \A j \in Invoices : /\ allocRows'[j] = allocRows[j]
                             /\ mirror'[j] = mirror[j]
    BY <1>1
  <2> HIDE DEF b, l, i
  <2> QED BY <2>1, <2>2, <2>3, MatchLine
<1>4. RowsExact'
  BY <1>1 DEF SerialInv, RowsExact
<1>5. Frozen
  BY <1>1 DEF Frozen, Kept
<1> QED BY <1>1, <1>3, <1>4, <1>5, FinishSerial

LEMMA ReadForBankSerial ==
  ASSUME IInv, SerialInv, NEW w \in Workers, ReadForBank(w)
  PROVE  SerialInv' /\ Frozen
<1> DEFINE row == inv[tx[w].req.inv]
           pc == IF row.rev THEN "remaining" ELSE "recognise"
<1>1. tx[w].pc = "apply" /\ tx[w].req.op = "MATCH" /\ tx[w].pc # "idle"
  BY DEF ReadForBank, At
<1>2. CASE Reject(w)
  BY <1>1, <1>2, RejectSerial
<1>3. CASE /\ row.status # "LOCKED_BY_SIGNATURE"
           /\ ReadThen(w, row, pc) /\ Proceed
  <2>1. matched[tx[w].req.line] = 0
    BY <1>1, KnownFacts DEF KnowsLine
  <2>2. /\ pc \in {"remaining", "recognise"} /\ pc \in RowPcs
        /\ pc = "remaining" => row.rev
        /\ pc = "recognise" => ~row.rev
    BY DEF RowPcs
  <2> HIDE DEF pc
  <2> QED BY <1>1, <1>3, <2>1, <2>2, ReadThenSerial
<1> QED BY <1>2, <1>3 DEF ReadForBank

LEMMA ReadRemainingSerial ==
  ASSUME IInv, SerialInv, NEW w \in Workers, ReadRemaining(w)
  PROVE  SerialInv' /\ Frozen
<1> DEFINE i == tx[w].req.inv
           row == inv[i]
<1>1. tx[w].pc = "remaining" /\ tx[w].req.op = "MATCH" /\ tx[w].pc # "idle"
  BY DEF ReadRemaining, At
<1>2. CASE Reject(w)
  BY <1>1, <1>2, RejectSerial
<1>3. CASE /\ Acceptable(i, row, LineAmount[tx[w].req.line])
           /\ ReadThen(w, row, "write") /\ Proceed
  <2>1. /\ row.rev /\ row.status # "LOCKED_BY_SIGNATURE"
        /\ matched[tx[w].req.line] = 0
    BY <1>1, KnownFacts DEF KnowsRow, KnowsLine, RowPcs
  <2> QED BY <1>1, <1>3, <2>1, ReadThenSerial DEF RowPcs
<1> QED BY <1>2, <1>3 DEF ReadRemaining

LEMMA SettleLineSerial ==
  ASSUME IInv, SerialInv, NEW w \in Workers, tx[w].pc # "idle",
         tx[w].req.op = "MATCH", NEW row \in Row, NEW rec \in BOOLEAN,
         LET i == tx[w].req.inv
         IN  /\ inv[i].status # "LOCKED_BY_SIGNATURE"
             /\ RowExact(i, row, allocRows[i], payRows[i],
                         revPosted[i] + (IF rec THEN 1 ELSE 0))
             /\ row.rev /\ Acceptable(i, row, LineAmount[tx[w].req.line]),
         matched[tx[w].req.line] = 0, SettleLine(w, row, row, rec)
  PROVE  SerialInv' /\ Frozen
<1> DEFINE i == tx[w].req.inv
           l == tx[w].req.line
           amount == LineAmount[l]
           a == Payment(i, row, amount)
           r == Rounding(i, row, amount)
           c == i \in CashInvoices
<1>1. i \in Invoices /\ l \in Lines /\ amount \in Nat
  BY Parameters
<1>2. /\ inv' = [inv EXCEPT ![i] = Paid(i, row, a)] /\ Finish(w)
      /\ BookPayment(i, a, c, FALSE) /\ Post(i, rec, a, r, c)
      /\ matched' = [matched EXCEPT ![l] = i]
      /\ booked' = [booked EXCEPT ![l] = @ + 1]
  BY DEF SettleLine
<1>3. a > 0 /\ (r = 0 \/ (i \in ForeignInvoices /\ r <= Tolerance))
  <2>1. Acceptable(i, row, amount)
    OBVIOUS
  <2> QED BY <2>1 DEF Acceptable
<1>4. LinesExact'
  <2>1. a \in Nat
    <3>1. a \in Int
      BY <1>1, PaymentType
    <3> QED BY <1>3, <3>1
  <2>2. Least(i, l) <= a
    <3>1. r = amount - a
      BY DEF Rounding
    <3>2. Tolerance \in Nat
      BY InvoicesAssumption
    <3>3. Least(i, l) = amount - (IF i \in ForeignInvoices THEN Tolerance ELSE 0)
      BY DEF Least
    <3> HIDE DEF a, r, amount, i, l
    <3> QED BY <1>1, <1>3, <2>1, <3>1, <3>2, <3>3
  <2>3. /\ allocRows'[i] = allocRows[i] + a
        /\ mirror'[i] = IF FALSE THEN mirror[i] + a ELSE mirror[i]
        /\ \A j \in Invoices \ {i} : SameBooks(j)
    <3> HIDE DEF a, r, c, i
    <3> QED BY <1>1, <1>2, <2>1, BookedRows DEF IInv
  <2>4. /\ \A j \in Invoices \ {i} : allocRows'[j] = allocRows[j]
        /\ \A j \in Invoices : mirror'[j] = mirror[j]
    BY <2>3 DEF SameBooks
  <2> DEFINE b == 1
  <2>5. b \in {0, 1} /\ booked' = [booked EXCEPT ![l] = @ + b]
    BY <1>2
  <2>6. matched[l] = 0
    OBVIOUS
  <2> HIDE DEF a, b, i, l
  <2> QED BY <1>1, <1>2, <2>1, <2>2, <2>3, <2>4, <2>5, <2>6, MatchLine
<1> HIDE DEF r, c, amount
<1> QED BY <1>1, <1>2, <1>3, <1>4, PaymentSerial

LEMMA WriteBankSerial ==
  ASSUME IInv, SerialInv, NEW w \in Workers, WriteBank(w)
  PROVE  SerialInv' /\ Frozen
<1> DEFINE i == tx[w].req.inv
<1>1. /\ tx[w].pc = "write" /\ tx[w].req.op = "MATCH" /\ tx[w].pc # "idle"
      /\ SettleLine(w, inv[i], tx[w].seen, FALSE)
  BY DEF WriteBank, At
<1>2. /\ tx[w].seen = inv[i] /\ inv[i].status # "LOCKED_BY_SIGNATURE"
      /\ inv[i].rev /\ Acceptable(i, inv[i], LineAmount[tx[w].req.line])
      /\ matched[tx[w].req.line] = 0
  BY <1>1, KnownFacts DEF KnowsRow, KnowsLine, RowPcs
<1>3. /\ inv[i] \in Row
      /\ RowExact(i, inv[i], allocRows[i], payRows[i],
                  revPosted[i] + (IF FALSE THEN 1 ELSE 0))
  BY KnownFacts
<1> QED BY <1>1, <1>2, <1>3, SettleLineSerial

LEMMA RecogniseSerial ==
  ASSUME IInv, SerialInv, NEW w \in Workers, RecogniseAndWriteBank(w)
  PROVE  SerialInv' /\ Frozen
<1> DEFINE i == tx[w].req.inv
           row == [inv[i] EXCEPT !.rev = TRUE, !.status = "SENT"]
<1>1. tx[w].pc = "recognise" /\ tx[w].req.op = "MATCH" /\ tx[w].pc # "idle"
  BY DEF RecogniseAndWriteBank, At
<1>2. CASE Reject(w)
  BY <1>1, <1>2, RejectSerial
<1>3. CASE /\ Acceptable(i, row, LineAmount[tx[w].req.line])
           /\ SettleLine(w, row, row, TRUE)
  <2>1. /\ inv[i].status # "LOCKED_BY_SIGNATURE" /\ ~inv[i].rev
        /\ matched[tx[w].req.line] = 0
    BY <1>1, KnownFacts DEF KnowsRow, KnowsLine, RowPcs
  <2>2. /\ row \in Row /\ allocRows[i] = 0 /\ payRows[i] = 0 /\ revPosted[i] = 0
        /\ RowExact(i, row, 0, 0, 1)
    <3>1. /\ i \in Invoices /\ inv[i] \in Row /\ payRows[i] \in Nat
          /\ allocRows[i] \in Nat
          /\ RowExact(i, inv[i], allocRows[i], payRows[i], revPosted[i])
      BY KnownFacts
    <3> DEFINE alloc == allocRows[i]
               pays == payRows[i]
               posted == revPosted[i]
    <3>2. /\ alloc \in Nat /\ pays \in Nat
          /\ RowExact(i, inv[i], alloc, pays, posted)
      BY <3>1
    <3> HIDE DEF i, alloc, pays, posted
    <3>3. /\ alloc = 0 /\ pays = 0 /\ posted = 0
          /\ row \in Row /\ RowExact(i, row, 0, 0, 1)
      BY <2>1, <3>1, <3>2, RecogniseExact, Zenon
    <3> QED BY <3>3 DEF alloc, pays, posted
  <2>3. row.rev
    BY KnownFacts DEF Row
  <2> HIDE DEF row
  <2>4. RowExact(i, row, allocRows[i], payRows[i],
                 revPosted[i] + (IF TRUE THEN 1 ELSE 0))
    BY <2>2
  <2> QED BY <1>1, <1>3, <2>1, <2>2, <2>3, <2>4, SettleLineSerial
<1> QED BY <1>2, <1>3 DEF RecogniseAndWriteBank

--------------------------------------------------------------------------------
(* The rows that an allocation and a netting write                         *)

LEMMA OrderFacts ==
  ASSUME NEW op
  PROVE  /\ \A k \in Invoices : Order(op)[k] \in Invoices
         /\ \A i \in Invoices : \E k \in Invoices : Order(op)[k] = i
<1>1. CASE op = "NET"
  BY <1>1, InvoicesAssumption DEF Order
<1>2. CASE op # "NET"
  BY <1>2 DEF Order
<1> QED BY <1>1, <1>2

LEMMA BeforeFirst == ASSUME NEW op PROVE Before(op, 1) = {}
BY DEF Before, Invoices

LEMMA BeforeNext ==
  ASSUME NEW op, NEW p \in Invoices
  PROVE  Before(op, p + 1) = Before(op, p) \cup {Order(op)[p]}
<1>1. \A k \in Invoices : k < p + 1 <=> k < p \/ k = p
  BY DEF Invoices
<1>2. Order(op)[p] \in Invoices
  BY OrderFacts
<1> QED BY <1>1, <1>2 DEF Before

LEMMA BeforeEnd ==
  ASSUME NEW op, NEW p \in Nat, p > NInvoices PROVE Before(op, p) = Invoices
<1>1. NInvoices \in Nat
  BY InvoicesAssumption
<1>2. \A k \in Invoices : k < p
  BY <1>1 DEF Invoices
<1> QED BY <1>2, OrderFacts DEF Before

LEMMA SettledFields ==
  ASSUME NEW op, NEW i \in Invoices, NEW row \in Row, NEW pays \in Nat, NEW a \in Nat
  PROVE  LET new == Settled(op, i, row, pays, a)
             sum == IF op = "NET" THEN pays + a ELSE row.paid + a
         IN  /\ new \in Row /\ new.rev = row.rev
             /\ new.status = PaymentStatus(i, sum, row.status)
             /\ new.recv = PaymentReceived(i, sum)
             /\ new.paid = IF op = "NET" THEN row.paid ELSE sum
<1>1. CASE op = "NET"
  <2>1. pays + a \in Nat
    OBVIOUS
  <2>2. /\ Derived(i, row, pays + a) \in Row
        /\ Derived(i, row, pays + a).paid = row.paid
        /\ Derived(i, row, pays + a).rev = row.rev
    BY <2>1, DerivedType
  <2>3. /\ Derived(i, row, pays + a).status = PaymentStatus(i, pays + a, row.status)
        /\ Derived(i, row, pays + a).recv = PaymentReceived(i, pays + a)
    BY DEF Derived, Row
  <2>4. Settled(op, i, row, pays, a) = Derived(i, row, pays + a)
    BY <1>1 DEF Settled
  <2> QED BY <1>1, <2>2, <2>3, <2>4
<1>2. CASE op # "NET"
  <2>1. /\ Paid(i, row, a).paid = row.paid + a /\ Paid(i, row, a).rev = row.rev
        /\ Paid(i, row, a).status = PaymentStatus(i, row.paid + a, row.status)
        /\ Paid(i, row, a).recv = PaymentReceived(i, row.paid + a)
    BY DEF Paid, Derived, Row
  <2>2. Paid(i, row, a) \in Row
    BY PaidType
  <2>3. Settled(op, i, row, pays, a) = Paid(i, row, a)
    BY <1>2 DEF Settled
  <2> QED BY <1>2, <2>1, <2>2, <2>3
<1> QED BY <1>1, <1>2

(* The plan fits the rows it was made from.                                  *)
OpenFits(op, open) ==
  \A i \in Invoices, a \in Nat :
    a > 0 /\ a <= open[i] => Fits(op, i, inv[i], payRows[i], a)

LEMMA PlanMade ==
  ASSUME NEW w \in Workers, NEW open, PlanBuckets(w, open)
  PROVE  \E applied \in 0..tx[w].req.amount,
            plan \in [Invoices -> 0..tx[w].req.amount] :
           /\ Buckets(tx[w].req.op, open, tx[w].req.amount, plan)
           /\ tx' = [tx EXCEPT ![w].pc = "bucketRead", ![w].plan = plan,
                               ![w].applied = applied, ![w].pos = 1]
BY Zenon DEF PlanBuckets

LEMMA PlanSerial ==
  ASSUME IInv, SerialInv, NEW w \in Workers, tx[w].pc # "idle", tx[w].held = {},
         tx[w].req.op \in {"ALLOC", "NET"}, NEW open, OpenFits(tx[w].req.op, open),
         PlanBuckets(w, open), Proceed
  PROVE  SerialInv' /\ Frozen
<1>1. PICK applied \in 0..tx[w].req.amount,
           plan \in [Invoices -> 0..tx[w].req.amount] :
        /\ Buckets(tx[w].req.op, open, tx[w].req.amount, plan)
        /\ tx' = [tx EXCEPT ![w].pc = "bucketRead", ![w].plan = plan,
                            ![w].applied = applied, ![w].pos = 1]
  BY PlanMade, Zenon
<1>2. tx \in [Workers -> Tx]
  BY DEF IInv, TxInv
<1>3. \A v \in Workers : v # w => tx'[v] = tx[v]
  BY <1>1, <1>2
<1>4. tx'[w] = [tx[w] EXCEPT !.pc = "bucketRead", !.plan = plan,
                             !.applied = applied, !.pos = 1]
  BY <1>1, <1>2
<1>5. /\ tx'[w].pc = "bucketRead" /\ tx'[w].req = tx[w].req /\ tx'[w].plan = plan
      /\ tx'[w].pos = 1 /\ tx'[w].held = {}
  BY <1>2, <1>4 DEF Tx
<1>6. ASSUME NEW i \in Invoices, plan[i] > 0
      PROVE  Fits(tx[w].req.op, i, inv[i], payRows[i], plan[i])
  <2>1. plan[i] <= open[i]
    BY <1>1 DEF Buckets
  <2>2. plan[i] \in Nat
    BY <1>1, Parameters
  <2> QED BY <1>6, <2>1, <2>2 DEF OpenFits
<1>7. KnowsRow(tx'[w], inv[tx'[w].req.inv]) /\ KnowsLine(tx'[w], matched)
  BY <1>5 DEF KnowsRow, KnowsLine, RowPcs
<1>8. KnowsPlan(tx'[w], inv, payRows)
  BY <1>5, <1>6, BeforeFirst DEF KnowsPlan, LoopAt
<1> QED BY <1>3, <1>7, <1>8, ReadSerial DEF Knows

LEMMA ReadCandidatesSerial ==
  ASSUME IInv, RevInv, SerialInv, NEW w \in Workers, ReadCandidates(w)
  PROVE  SerialInv' /\ Frozen
<1>1. /\ tx[w].req.op = "ALLOC" /\ tx[w].pc = "snapshot" /\ tx[w].pc # "idle"
      /\ tx[w].held = {}
  BY DEF ReadCandidates, At, RevInv, PlanAddsUp, BatchPcs
<1>2. CASE Reject(w)
  BY <1>1, <1>2, RejectSerial
<1>3. CASE PlanBuckets(w, OpenForAllocation) /\ Proceed
  <2>1. ASSUME NEW i \in Invoices, NEW a \in Nat, a > 0, a <= OpenForAllocation[i]
        PROVE  Fits("ALLOC", i, inv[i], payRows[i], a)
    <3>1. OpenForAllocation[i] # 0
      BY <2>1
    <3> QED BY <2>1, <3>1 DEF OpenForAllocation, Fits
  <2> QED BY <1>1, <1>3, <2>1, PlanSerial DEF OpenFits
<1> QED BY <1>2, <1>3 DEF ReadCandidates

LEMMA NettingReadsSerial ==
  ASSUME IInv, RevInv, SerialInv, NEW w \in Workers,
         CheckNetting(w) \/ ReadNettingInvoices(w)
  PROVE  SerialInv' /\ Frozen
<1>1. /\ tx[w].req.op = "NET" /\ tx[w].pc \in {"check", "snapshot"}
      /\ tx[w].pc # "idle" /\ tx[w].held = {}
  BY DEF CheckNetting, ReadNettingInvoices, At, RevInv, PlanAddsUp, BatchPcs
<1>2. CASE CheckNetting(w)
  <2>1. Reject(w) \/ (Goto(w, "snapshot") /\ Proceed)
    BY <1>2 DEF CheckNetting
  <2> QED BY <1>1, <2>1, RejectSerial, GotoSerial DEF RowPcs, BatchPcs
<1>3. CASE ReadNettingInvoices(w)
  <2>1. ASSUME NEW i \in Invoices, NEW a \in Nat, a > 0, a <= OpenForNetting[i]
        PROVE  Fits("NET", i, inv[i], payRows[i], a)
    <3>1. Total[i] \in Nat /\ payRows[i] \in Nat
      BY InvoicesAssumption DEF IInv, RowsInv
    <3>2. OpenForNetting[i] # 0
      BY <2>1
    <3>3. inv[i].rev /\ OpenForNetting[i] = Total[i] - payRows[i]
      BY <3>2 DEF OpenForNetting
    <3>4. payRows[i] + a <= Total[i]
      BY <2>1, <3>1, <3>3
    <3> QED BY <3>3, <3>4 DEF Fits
  <2>2. PlanBuckets(w, OpenForNetting) /\ Proceed
    BY <1>3 DEF ReadNettingInvoices
  <2> QED BY <1>1, <2>1, <2>2, PlanSerial DEF OpenFits
<1> QED BY <1>2, <1>3

(* A request in the bucket loop, and the invoice it is at.                   *)
LEMMA BatchFacts ==
  ASSUME IInv, SerialInv, NEW w \in Workers, tx[w].pc \in BatchPcs
  PROVE  /\ tx[w].pc # "idle" /\ tx[w].req.op \in {"ALLOC", "NET"}
         /\ tx[w].pos \in Nat /\ tx[w].plan \in [Invoices -> Nat]
         /\ Bucket(w) = Order(tx[w].req.op)[tx[w].pos]
         /\ tx[w].pc = "bucketRead" => tx[w].pos > 0
         /\ tx[w].pc = "bucketWrite" => tx[w].pos \in Invoices
         /\ KnowsPlan(tx[w], inv, payRows)
<1>1. KnowsPlan(tx[w], inv, payRows) /\ tx[w] \in Tx /\ TxOK(tx[w])
  BY KnownFacts, Parameters
<1>2. tx[w].pc # "idle" /\ tx[w].req.op \in {"ALLOC", "NET"}
  BY <1>1 DEF KnowsPlan, BatchPcs
<1>3. Bucket(w) = Order(tx[w].req.op)[tx[w].pos]
  BY DEF Bucket
<1> QED BY <1>1, <1>2, <1>3 DEF TxOK, Tx

(* A step of the bucket loop.                                                *)
LEMMA LoopSerial ==
  ASSUME IInv, SerialInv, NEW w \in Workers, tx[w].pc \in BatchPcs, Proceed,
         \A v \in Workers : v # w => tx'[v] = tx[v],
         tx'[w].pc \in BatchPcs, tx'[w].req = tx[w].req, tx'[w].plan = tx[w].plan,
         LoopAt(tx'[w], Result(tx[w], inv, payRows))
  PROVE  SerialInv' /\ Frozen
<1>1. tx[w].pc # "idle" /\ KnowsPlan(tx[w], inv, payRows)
  BY BatchFacts
<1>2. KnowsRow(tx'[w], inv[tx'[w].req.inv]) /\ KnowsLine(tx'[w], matched)
  BY <1>1 DEF KnowsPlan, KnowsRow, KnowsLine, RowPcs, BatchPcs
<1>3. Result(tx'[w], inv, payRows) = Result(tx[w], inv, payRows)
  BY DEF Result
<1>4. KnowsPlan(tx'[w], inv, payRows)
  BY <1>1, <1>3 DEF KnowsPlan
<1> QED BY <1>1, <1>2, <1>4, ReadSerial DEF Knows

LEMMA ReadBucketSerial ==
  ASSUME IInv, SerialInv, NEW w \in Workers, ReadBucket(w)
  PROVE  SerialInv' /\ Frozen
<1> DEFINE p == tx[w].pos
           op == tx[w].req.op
           plan == tx[w].plan
           i == Bucket(w)
           sum == IF op = "NET" THEN payRows[i] + plan[i] ELSE inv[i].paid + plan[i]
           seen == Derived(i, [inv[i] EXCEPT !.paid = sum], sum)
           result == Result(tx[w], inv, payRows)
<1>1. tx[w].pc = "bucketRead" /\ tx[w].pc \in BatchPcs /\ Proceed
  BY DEF ReadBucket, At, BatchPcs
<1>2. /\ p \in Nat \ {0} /\ plan \in [Invoices -> Nat] /\ i = Order(op)[p]
      /\ LoopAt(tx[w], result)
  BY <1>1, BatchFacts DEF KnowsPlan
<1>3. /\ tx[w].held = {j \in Before(op, p) : plan[j] > 0}
      /\ \A j \in tx[w].held : tx[w].fresh[j] = result[j]
  <2> HIDE DEF result
  <2> QED BY <1>2 DEF LoopAt
<1> HIDE DEF result
<1>4. CASE p > NInvoices /\ Goto(w, "commit")
  <2>1. /\ tx'[w].pc = "commit" /\ tx'[w].req = tx[w].req /\ tx'[w].plan = plan
        /\ tx'[w].held = tx[w].held /\ tx'[w].fresh = tx[w].fresh
        /\ \A v \in Workers : v # w => tx'[v] = tx[v]
    BY <1>4, GotoFields
  <2>2. tx'[w].pos = p
    BY <1>4 DEF Goto, IInv, TxInv, Tx
  <2>3. LoopAt(tx'[w], result)
    BY <1>3, <1>4, <2>1, <2>2 DEF LoopAt
  <2> QED BY <1>1, <2>1, <2>3, LoopSerial DEF BatchPcs, result
<1>5. ASSUME ~(p > NInvoices) PROVE p \in Invoices /\ i \in Invoices
  <2>1. NInvoices \in Nat
    BY InvoicesAssumption
  <2>2. p \in Invoices
    BY <1>2, <1>5, <2>1 DEF Invoices
  <2> QED BY <1>2, <2>2, OrderFacts
<1>6. CASE /\ ~(p > NInvoices) /\ plan[i] = 0
           /\ tx' = [tx EXCEPT ![w].pos = @ + 1]
  <2>1. /\ tx'[w].pc = "bucketRead" /\ tx'[w].req = tx[w].req /\ tx'[w].plan = plan
        /\ tx'[w].held = tx[w].held /\ tx'[w].fresh = tx[w].fresh
        /\ tx'[w].pos = p + 1
        /\ \A v \in Workers : v # w => tx'[v] = tx[v]
    BY <1>1, <1>6 DEF IInv, TxInv, Tx
  <2>2. {j \in Before(op, p + 1) : plan[j] > 0} = {j \in Before(op, p) : plan[j] > 0}
    <3>1. Before(op, p + 1) = Before(op, p) \cup {i}
      BY <1>2, <1>5, <1>6, BeforeNext
    <3>2. ~(plan[i] > 0)
      BY <1>6
    <3> HIDE DEF op, p, plan, i
    <3> QED BY <3>1, <3>2
  <2>3. LoopAt(tx'[w], result)
    BY <1>3, <2>1, <2>2 DEF LoopAt
  <2> QED BY <1>1, <2>1, <2>3, LoopSerial DEF BatchPcs, result
<1>7. CASE /\ ~(p > NInvoices) /\ plan[i] # 0
           /\ ReadThen(w, seen, "bucketWrite")
  <2>1. /\ tx'[w].pc = "bucketWrite" /\ tx'[w].req = tx[w].req
        /\ tx'[w].plan = plan /\ tx'[w].seen = seen
        /\ tx'[w].held = tx[w].held /\ tx'[w].fresh = tx[w].fresh
        /\ \A v \in Workers : v # w => tx'[v] = tx[v]
    BY <1>7, ReadThenFields
  <2>2. tx'[w].pos = p
    BY <1>7 DEF ReadThen, IInv, TxInv, Tx
  <2>3. i \in Invoices /\ inv[i] \in Row /\ payRows[i] \in Nat
    <3>1. i \in Invoices
      BY <1>5, <1>7
    <3>2. inv \in [Invoices -> Row] /\ payRows \in [Invoices -> Nat]
      BY DEF IInv, RowsInv
    <3> HIDE DEF i
    <3> QED BY <3>1, <3>2
  <2>4. plan[i] \in Nat /\ plan[i] > 0
    <3>1. plan[i] # 0
      BY <1>7
    <3> HIDE DEF i
    <3> QED BY <1>2, <2>3, <3>1
  <2>5. sum \in Nat
    BY <2>3, <2>4 DEF Row
  <2>6. result[i] = Settled(op, i, inv[i], payRows[i], plan[i])
    BY <2>3 DEF result, Result
  <2>7. /\ seen.status = PaymentStatus(i, sum, inv[i].status)
        /\ seen.recv = PaymentReceived(i, sum) /\ seen.paid = sum
    <3> HIDE DEF sum, i
    <3> QED BY <2>3, <2>5 DEF Derived, Row
  <2>8. /\ result[i].status = PaymentStatus(i, sum, inv[i].status)
        /\ result[i].recv = PaymentReceived(i, sum)
        /\ result[i].paid = IF op = "NET" THEN inv[i].paid ELSE sum
    BY <2>3, <2>4, <2>6, SettledFields
  <2>9. /\ seen.status = result[i].status /\ seen.recv = result[i].recv
        /\ op = "ALLOC" => seen.paid = result[i].paid
    <3> HIDE DEF seen, sum, i, op
    <3> QED BY <2>7, <2>8
  <2>10. LoopAt(tx'[w], result)
    <3>1. /\ tx'[w].held = {j \in Before(op, p) : plan[j] > 0}
          /\ \A j \in tx'[w].held : tx'[w].fresh[j] = result[j]
      BY <1>3, <2>1
    <3>2. Order(op)[p] = i
      BY <1>2
    <3> HIDE DEF seen, i
    <3> QED BY <2>1, <2>2, <2>4, <2>9, <3>1, <3>2 DEF LoopAt
  <2> QED BY <1>1, <2>1, <2>10, LoopSerial DEF BatchPcs, result
<1>8. \/ p > NInvoices /\ Goto(w, "commit")
      \/ ~(p > NInvoices) /\ plan[i] = 0 /\ tx' = [tx EXCEPT ![w].pos = @ + 1]
      \/ ~(p > NInvoices) /\ plan[i] # 0 /\ ReadThen(w, seen, "bucketWrite")
  BY DEF ReadBucket
<1> QED BY <1>4, <1>6, <1>7, <1>8

LEMMA WriteBucketSerial ==
  ASSUME IInv, SerialInv, NEW w \in Workers, WriteBucket(w)
  PROVE  SerialInv' /\ Frozen
<1> DEFINE p == tx[w].pos
           op == tx[w].req.op
           plan == tx[w].plan
           i == Bucket(w)
           result == Result(tx[w], inv, payRows)
           new == [inv[i] EXCEPT !.status = tx[w].seen.status, !.recv = tx[w].seen.recv,
                     !.paid = IF op = "NET" THEN @ ELSE tx[w].seen.paid]
<1>1. tx[w].pc = "bucketWrite" /\ tx[w].pc \in BatchPcs /\ Proceed
  BY DEF WriteBucket, At, BatchPcs
<1>2. /\ p \in Invoices /\ plan \in [Invoices -> Nat]
      /\ i = Order(op)[p] /\ op \in {"ALLOC", "NET"} /\ LoopAt(tx[w], result)
  BY <1>1, BatchFacts DEF KnowsPlan
<1>3. /\ tx[w].held = {j \in Before(op, p) : plan[j] > 0}
      /\ \A j \in tx[w].held : tx[w].fresh[j] = result[j]
      /\ plan[i] > 0
      /\ tx[w].seen.status = result[i].status /\ tx[w].seen.recv = result[i].recv
      /\ op = "ALLOC" => tx[w].seen.paid = result[i].paid
  <2> HIDE DEF result, i
  <2> QED BY <1>1, <1>2 DEF LoopAt
<1>4. i \in Invoices /\ inv[i] \in Row /\ payRows[i] \in Nat
  BY <1>2, OrderFacts DEF IInv, RowsInv
<1>5. new = result[i]
  <2>1. result[i] = Settled(op, i, inv[i], payRows[i], plan[i])
    BY <1>4 DEF Result
  <2>2. plan[i] \in Nat
    BY <1>2, <1>4
  <2>3. /\ result[i] \in Row /\ result[i].rev = inv[i].rev
        /\ result[i].paid = IF op = "NET" THEN inv[i].paid ELSE inv[i].paid + plan[i]
    <3> HIDE DEF i, plan, result
    <3> QED BY <1>4, <2>1, <2>2, SettledFields
  <2> DEFINE r == result[i]
  <2>4. /\ r \in Row /\ r.rev = inv[i].rev
        /\ r.status = tx[w].seen.status /\ r.recv = tx[w].seen.recv
        /\ r.paid = IF op = "NET" THEN inv[i].paid ELSE tx[w].seen.paid
    <3> HIDE DEF i, result
    <3> QED BY <1>2, <1>3, <2>3
  <2> HIDE DEF r, op, i
  <2>5. new = r
    BY <1>4, <2>4 DEF Row
  <2> QED BY <2>5 DEF r
<1> HIDE DEF new, result
<1>6. tx' = [tx EXCEPT ![w].pc = "bucketRead", ![w].pos = @ + 1,
                       ![w].seen = AbsentRow,
                       ![w].held = @ \cup {i}, ![w].fresh[i] = new]
  BY DEF WriteBucket, new
<1>7. tx \in [Workers -> Tx]
  BY DEF IInv, TxInv
<1>8. \A v \in Workers : v # w => tx'[v] = tx[v]
  BY <1>6, <1>7
<1>9. tx'[w] = [tx[w] EXCEPT !.pc = "bucketRead", !.pos = @ + 1,
                             !.seen = AbsentRow, !.held = @ \cup {i},
                             !.fresh[i] = new]
  BY <1>6, <1>7
<1>10. /\ tx'[w].pc = "bucketRead" /\ tx'[w].req = tx[w].req /\ tx'[w].plan = plan
       /\ tx'[w].pos = p + 1 /\ tx'[w].held = tx[w].held \cup {i}
       /\ tx'[w].fresh = [tx[w].fresh EXCEPT ![i] = new]
       /\ tx[w].fresh \in [Invoices -> Row]
  BY <1>7, <1>9 DEF Tx
<1>11. tx'[w].held = {j \in Before(op, p + 1) : plan[j] > 0}
  <2>1. Before(op, p + 1) = Before(op, p) \cup {i}
    BY <1>2, BeforeNext
  <2> HIDE DEF op, p, plan, i
  <2> QED BY <1>3, <1>10, <2>1
<1>12. \A j \in tx'[w].held : tx'[w].fresh[j] = result[j]
  <2> HIDE DEF i
  <2> SUFFICES ASSUME NEW j \in tx'[w].held PROVE tx'[w].fresh[j] = result[j]
    OBVIOUS
  <2>1. CASE j = i
    BY <1>4, <1>5, <1>10, <2>1
  <2>2. CASE j # i
    BY <1>3, <1>10, <2>2
  <2> QED BY <2>1, <2>2
<1>13. LoopAt(tx'[w], result)
  BY <1>10, <1>11, <1>12 DEF LoopAt
<1> QED BY <1>1, <1>8, <1>10, <1>13, LoopSerial DEF BatchPcs, result

(* The commit settles every bucket on the row it was computed from.          *)
LEMMA CommitSerial ==
  ASSUME IInv, SerialInv, NEW w \in Workers, tx[w].pc = "commit",
         PublishRows(w), payRows' = AddPlan(w, payRows),
         allocRows' = IF tx[w].req.op = "NET" THEN allocRows
                                              ELSE AddPlan(w, allocRows),
         UNCHANGED <<mirror, kmo, revPosted, matched, booked>>, Finish(w)
  PROVE  SerialInv' /\ Frozen
<1> DEFINE op == tx[w].req.op
           plan == tx[w].plan
           row(i) == Settled(op, i, inv[i], payRows[i], plan[i])
<1>1. tx[w].pc # "idle" /\ tx[w].pc \in BatchPcs
  BY DEF BatchPcs
<1>2. /\ plan \in [Invoices -> Nat] /\ op \in {"ALLOC", "NET"}
      /\ \A i \in Invoices :
           plan[i] > 0 => Fits(op, i, inv[i], payRows[i], plan[i])
      /\ tx[w].held = {i \in Before(op, tx[w].pos) : plan[i] > 0}
      /\ \A i \in Invoices \cap tx[w].held : tx[w].fresh[i] = row(i)
      /\ tx[w].pos > NInvoices /\ tx[w].pos \in Nat
  <2>1. /\ plan \in [Invoices -> Nat] /\ op \in {"ALLOC", "NET"} /\ tx[w].pos \in Nat
        /\ KnowsPlan(tx[w], inv, payRows)
    BY <1>1, BatchFacts
  <2>2. /\ \A i \in Invoices :
             plan[i] > 0 => Fits(op, i, inv[i], payRows[i], plan[i])
        /\ LoopAt(tx[w], Result(tx[w], inv, payRows))
    BY <1>1, <2>1 DEF KnowsPlan
  <2> DEFINE result == Result(tx[w], inv, payRows)
  <2>3. \A i \in Invoices : result[i] = row(i)
    BY DEF Result
  <2> HIDE DEF result, row
  <2>4. /\ tx[w].held = {i \in Before(op, tx[w].pos) : plan[i] > 0}
        /\ \A i \in tx[w].held : tx[w].fresh[i] = result[i]
        /\ tx[w].pos > NInvoices
    BY <2>2 DEF LoopAt, result
  <2> QED BY <2>1, <2>2, <2>3, <2>4
<1>3. tx[w].held = {i \in Invoices : plan[i] > 0}
  BY <1>2, BeforeEnd
<1>4. ASSUME NEW i \in Invoices
      PROVE  /\ RowExact(i, inv[i], allocRows[i], payRows[i], revPosted[i])
             /\ inv[i] \in Row /\ payRows[i] \in Nat /\ allocRows[i] \in Nat
             /\ plan[i] \in Nat
             /\ payRows'[i] = payRows[i] + plan[i]
             /\ op = "NET" => allocRows'[i] = allocRows[i]
             /\ op = "ALLOC" => allocRows'[i] = allocRows[i] + plan[i]
             /\ plan[i] > 0 => inv'[i] = row(i)
             /\ ~(plan[i] > 0) => inv'[i] = inv[i]
  <2>1. /\ RowExact(i, inv[i], allocRows[i], payRows[i], revPosted[i])
        /\ inv[i] \in Row /\ payRows[i] \in Nat /\ allocRows[i] \in Nat
        /\ plan[i] \in Nat
    BY <1>2 DEF SerialInv, RowsExact, IInv, RowsInv
  <2>2. payRows'[i] = payRows[i] + plan[i]
    BY DEF AddPlan
  <2>3. /\ op = "NET" => allocRows'[i] = allocRows[i]
        /\ op = "ALLOC" => allocRows'[i] = allocRows[i] + plan[i]
    BY DEF AddPlan
  <2>4. inv'[i] = IF i \in tx[w].held THEN tx[w].fresh[i] ELSE inv[i]
    BY DEF PublishRows
  <2> HIDE DEF op, plan
  <2> QED BY <1>2, <1>3, <2>1, <2>2, <2>3, <2>4
<1>5. ASSUME NEW i \in Invoices
      PROVE  RowExact(i, inv'[i], allocRows'[i], payRows'[i], revPosted'[i])
  <2>1. CASE plan[i] > 0 /\ op = "NET"
    <3>1. inv[i].rev /\ payRows[i] + plan[i] <= Total[i]
      BY <1>2, <2>1 DEF Fits
    <3>2. inv'[i] = Derived(i, inv[i], payRows[i] + plan[i])
      BY <1>4, <2>1 DEF Settled
    <3>3. RowExact(i, inv'[i], allocRows[i], payRows[i] + plan[i], revPosted[i])
      BY <1>4, <3>1, <3>2, NetExact
    <3> QED BY <1>4, <2>1, <3>3
  <2>2. CASE plan[i] > 0 /\ op = "ALLOC"
    <3>1. inv[i].rev /\ plan[i] <= Remaining(i, inv[i])
      BY <1>2, <2>2 DEF Fits
    <3>2. inv'[i] = Paid(i, inv[i], plan[i])
      BY <1>4, <2>2 DEF Settled
    <3>3. RowExact(i, inv'[i], allocRows[i] + plan[i], payRows[i] + plan[i], revPosted[i])
      BY <1>4, <3>1, <3>2, PayExact
    <3> QED BY <1>4, <2>2, <3>3
  <2>3. CASE ~(plan[i] > 0)
    <3>1. plan[i] = 0
      BY <1>4, <2>3
    <3>2. allocRows'[i] = allocRows[i] /\ payRows'[i] = payRows[i]
      BY <1>2, <1>4, <3>1
    <3> QED BY <1>4, <2>3, <3>2
  <2> QED BY <1>2, <2>1, <2>2, <2>3
<1>6. ASSUME NEW i \in Invoices, inv[i].status = "LOCKED_BY_SIGNATURE" PROVE Kept(i)
  <2>1. CASE plan[i] > 0
    <3>1. op = "NET"
      BY <1>2, <1>6, <2>1 DEF Fits
    <3>2. /\ row(i).rev = inv[i].rev /\ row(i).paid = inv[i].paid
          /\ row(i).status = PaymentStatus(i, payRows[i] + plan[i], inv[i].status)
      BY <1>4, <3>1, SettledFields
    <3>3. row(i).status = inv[i].status
      BY <1>6, <3>2 DEF PaymentStatus
    <3> QED BY <1>4, <2>1, <3>1, <3>2, <3>3 DEF Kept
  <2>2. CASE ~(plan[i] > 0)
    <3>1. plan[i] = 0
      BY <1>4, <2>2
    <3>2. allocRows'[i] = allocRows[i]
      BY <1>2, <1>4, <3>1
    <3> QED BY <1>4, <2>2, <3>2 DEF Kept
  <2> QED BY <2>1, <2>2
<1>7. RowsExact' /\ Frozen
  BY <1>5, <1>6 DEF RowsExact, Frozen
<1>8. LinesExact'
  <2>1. ASSUME NEW i \in Invoices
        PROVE  \E a, m \in Nat : /\ allocRows'[i] = allocRows[i] + a
                                 /\ mirror'[i] = mirror[i] + m /\ m <= a
    <3>1. mirror'[i] = mirror[i] + 0
      BY DEF IInv, RowsInv
    <3>2. allocRows'[i] = allocRows[i] + 0 \/ allocRows'[i] = allocRows[i] + plan[i]
      BY <1>2, <1>4
    <3> QED BY <1>4, <3>1, <3>2
  <2> QED BY <2>1, LinesKept
<1> QED BY <1>1, <1>7, <1>8, FinishSerial

LEMMA CommitAllocationSerial ==
  ASSUME IInv, SerialInv, NEW w \in Workers, CommitAllocation(w)
  PROVE  SerialInv' /\ Frozen
<1>1. /\ tx[w].pc = "commit" /\ tx[w].req.op # "NET"
      /\ PublishRows(w) /\ payRows' = AddPlan(w, payRows)
      /\ allocRows' = AddPlan(w, allocRows) /\ Finish(w)
      /\ UNCHANGED <<mirror, kmo, revPosted, matched, booked>>
  BY DEF CommitAllocation, At, otherRows, lineVars
<1> QED BY <1>1, CommitSerial

LEMMA CommitNettingSerial ==
  ASSUME IInv, SerialInv, NEW w \in Workers, CommitNetting(w)
  PROVE  SerialInv' /\ Frozen
<1>1. tx[w].pc = "commit" /\ tx[w].req.op = "NET" /\ tx[w].pc # "idle"
  BY DEF CommitNetting, At
<1>2. CASE Reject(w)
  BY <1>1, <1>2, RejectSerial
<1>3. CASE /\ PublishRows(w) /\ payRows' = AddPlan(w, payRows) /\ Finish(w)
           /\ UNCHANGED <<allocRows, mirror, kmo, revPosted, otherRows, served>>
  <2>1. UNCHANGED <<mirror, kmo, revPosted, matched, booked>>
    BY <1>3 DEF otherRows, lineVars
  <2> QED BY <1>1, <1>3, <2>1, CommitSerial
<1> QED BY <1>2, <1>3 DEF CommitNetting

--------------------------------------------------------------------------------
(* The steps of a signature write its log; the last one locks the row.       *)
LEMMA SameLines ==
  ASSUME SerialInv, UNCHANGED <<matched, booked, allocRows, mirror>>
  PROVE  LinesExact'
BY DEF SerialInv, LinesExact, Taken, LeastTaken

LEMMA LogSerial ==
  ASSUME IInv, SerialInv, NEW w \in Workers, tx[w].pc # "idle",
         UNCHANGED <<inv, books, matched, booked>>,
         \/ Finish(w)
         \/ \E pc \in {"signed", "clear", "create"} : Goto(w, pc)
  PROVE  SerialInv' /\ Frozen
<1>1. RowsExact' /\ LinesExact' /\ Frozen
  BY UnchangedExact
<1>2. CASE Finish(w)
  BY <1>1, <1>2, FinishSerial
<1>3. ASSUME NEW pc \in {"signed", "clear", "create"}, Goto(w, pc)
      PROVE  SerialInv'
  <2>1. /\ tx'[w].pc = pc /\ tx'[w].req = tx[w].req
        /\ \A v \in Workers : v # w => tx'[v] = tx[v]
    BY <1>3, GotoFields
  <2>2. KnowsRow(tx[w], inv[tx[w].req.inv])
    BY KnownFacts
  <2>3. KnowsRow(tx'[w], inv'[tx'[w].req.inv])
    BY <1>3, <2>1, <2>2 DEF KnowsRow, RowPcs
  <2>4. KnowsLine(tx'[w], matched') /\ KnowsPlan(tx'[w], inv', payRows')
    BY <1>3, <2>1 DEF KnowsLine, KnowsPlan, BatchPcs
  <2> QED BY <1>1, <2>1, <2>3, <2>4, SerialStep DEF Knows
<1> QED BY <1>1, <1>2, <1>3

LEMMA ConfirmSignatureSerial ==
  ASSUME IInv, SerialInv, NEW w \in Workers, ConfirmSignature(w)
  PROVE  SerialInv' /\ Frozen
<1> DEFINE i == tx[w].req.inv
           new == [inv[i] EXCEPT !.status = "LOCKED_BY_SIGNATURE"]
<1>1. tx[w].pc # "idle"
  BY DEF ConfirmSignature, At
<1>2. CASE Reject(w)
  BY <1>1, <1>2, RejectSerial
<1>3. CASE /\ inv' = [inv EXCEPT ![i].status = "LOCKED_BY_SIGNATURE"] /\ Finish(w)
           /\ UNCHANGED <<books, lineVars>>
  <2>1. /\ i \in Invoices /\ inv[i] \in Row /\ inv \in [Invoices -> Row]
        /\ RowExact(i, inv[i], allocRows[i], payRows[i], revPosted[i])
    BY KnownFacts DEF IInv, RowsInv
  <2>2. /\ new.status = "LOCKED_BY_SIGNATURE" /\ new.paid = inv[i].paid
        /\ new.rev = inv[i].rev
        /\ inv[i].status = "LOCKED_BY_SIGNATURE" => new = inv[i]
    BY <2>1 DEF Row
  <2>3. inv'[i] = new /\ \A j \in Invoices \ {i} : inv'[j] = inv[j]
    BY <1>3, <2>1
  <2> HIDE DEF new
  <2>4. RowExact(i, new, allocRows[i], payRows[i], revPosted[i])
    BY <2>1, <2>2 DEF RowExact
  <2>5. UNCHANGED <<payRows, allocRows, mirror, kmo, revPosted, matched, booked>>
    BY <1>3 DEF books, lineVars
  <2>6. RowsExact'
    BY <2>3, <2>4, <2>5 DEF SerialInv, RowsExact
  <2>7. ASSUME NEW j \in Invoices, inv[j].status = "LOCKED_BY_SIGNATURE" PROVE Kept(j)
    BY <2>2, <2>3, <2>5, <2>7 DEF Kept
  <2>8. Frozen /\ LinesExact'
    BY <2>5, <2>7, SameLines DEF Frozen
  <2> QED BY <1>1, <1>3, <2>6, <2>8, FinishSerial
<1> QED BY <1>2, <1>3 DEF ConfirmSignature

LEMMA SignSerial ==
  ASSUME IInv, SerialInv, NEW w \in Workers, Sign(w) PROVE SerialInv' /\ Frozen
<1>1. CASE ReadForSignature(w) \/ ReadCompletedLog(w)
  <2>1. tx[w].pc # "idle"
    BY <1>1 DEF ReadForSignature, ReadCompletedLog, At
  <2>2. Reject(w) \/ (Proceed /\ \E pc \in {"signed", "clear"} : Goto(w, pc))
    BY <1>1 DEF ReadForSignature, ReadCompletedLog
  <2>3. Proceed => UNCHANGED <<inv, books, matched, booked>>
    BY DEF Proceed, otherRows, lineVars
  <2> QED BY <2>1, <2>2, <2>3, RejectSerial, LogSerial
<1>2. CASE ClearPendingLogs(w) \/ CreatePendingLog(w)
  BY <1>2, LogSerial DEF ClearPendingLogs, CreatePendingLog, At, lineVars
<1>3. CASE ConfirmSignature(w)
  BY <1>3, ConfirmSignatureSerial
<1> QED BY <1>1, <1>2, <1>3 DEF Sign

(* The loop knows of no other invoices than those of its buckets.            *)
LEMMA SameLoop ==
  ASSUME NEW t, NEW old, NEW new, LoopAt(t, old),
         t.pc = "bucketWrite" => Order(t.req.op)[t.pos] \in Invoices,
         \A j \in Invoices : t.plan[j] > 0 => new[j] = old[j]
  PROVE  LoopAt(t, new)
BY DEF LoopAt, Before

(* A draft is created while a request is in service: not for its invoice.    *)
LEMMA CreateSerial ==
  ASSUME IInv, SerialInv, NEW i \in Invoices, Create(i) PROVE SerialInv' /\ Frozen
<1> DEFINE new == [inv[i] EXCEPT !.status = "DRAFT"]
<1>1. /\ inv[i].status = "ABSENT" /\ inv[i] \in Row /\ inv \in [Invoices -> Row]
      /\ inv' = [inv EXCEPT ![i].status = "DRAFT"]
      /\ UNCHANGED <<payRows, allocRows, mirror, kmo, revPosted, matched, booked, tx>>
  BY DEF Create, books, otherRows, lineVars, IInv, RowsInv
<1>2. /\ RowExact(i, inv[i], allocRows[i], payRows[i], revPosted[i])
      /\ payRows[i] \in Nat /\ allocRows[i] \in Nat /\ Total[i] \in Nat
  BY InvoicesAssumption DEF IInv, RowsInv, SerialInv, RowsExact
<1>3. ~inv[i].rev
  BY <1>1, <1>2 DEF RowExact
<1>4. /\ new.status = "DRAFT" /\ ~new.rev /\ new.paid = inv[i].paid
  BY <1>1, <1>3 DEF Row
<1>5. inv'[i] = new /\ \A j \in Invoices \ {i} : inv'[j] = inv[j]
  BY <1>1
<1> HIDE DEF new
<1>6. RowExact(i, new, allocRows[i], payRows[i], revPosted[i])
  BY <1>2, <1>3, <1>4 DEF RowExact, StatusOf
<1>7. RowsExact'
  BY <1>1, <1>5, <1>6 DEF SerialInv, RowsExact
<1>8. Frozen
  <2>1. ASSUME NEW j \in Invoices, inv[j].status = "LOCKED_BY_SIGNATURE" PROVE Kept(j)
    BY <1>1, <1>5, <2>1 DEF Kept
  <2> QED BY <2>1 DEF Frozen
<1>9. ASSUME NEW v \in Workers PROVE Knows(tx'[v], inv', payRows', matched')
  <2>1. /\ KnowsRow(tx[v], inv[tx[v].req.inv]) /\ KnowsLine(tx[v], matched)
        /\ tx[v].req.inv \in Invoices
    BY KnownFacts
  <2>2. KnowsRow(tx[v], inv'[tx[v].req.inv])
    <3>1. CASE tx[v].req.inv = i
      BY <1>1, <1>4, <1>5, <2>1, <3>1 DEF KnowsRow, RowPcs
    <3>2. CASE tx[v].req.inv # i
      BY <1>5, <2>1, <3>2
    <3> QED BY <3>1, <3>2
  <2>3. KnowsPlan(tx[v], inv', payRows')
    <3> DEFINE old == Result(tx[v], inv, payRows)
               now == Result(tx[v], inv', payRows')
    <3> SUFFICES ASSUME tx[v].pc \in BatchPcs PROVE KnowsPlan(tx[v], inv', payRows')
      BY DEF KnowsPlan
    <3>1. /\ tx[v].req.op \in {"ALLOC", "NET"}
          /\ \A j \in Invoices : tx[v].plan[j] > 0 =>
                Fits(tx[v].req.op, j, inv[j], payRows[j], tx[v].plan[j])
          /\ LoopAt(tx[v], old)
      BY BatchFacts DEF KnowsPlan
    <3>2. tx[v].pc = "bucketWrite" => Order(tx[v].req.op)[tx[v].pos] \in Invoices
      BY BatchFacts, OrderFacts
    <3> HIDE DEF old
    <3>3. \A j \in Invoices : tx[v].plan[j] > 0 => inv'[j] = inv[j]
      BY <1>3, <1>5, <3>1 DEF Fits
    <3>4. \A j \in Invoices : tx[v].plan[j] > 0 => now[j] = old[j]
      BY <1>1, <3>3 DEF Result, old
    <3> HIDE DEF now
    <3>5. LoopAt(tx[v], now)
      BY <3>1, <3>2, <3>4, SameLoop
    <3> QED BY <1>1, <3>1, <3>3, <3>5 DEF KnowsPlan, now
  <2> QED BY <1>1, <2>1, <2>2, <2>3 DEF Knows
<1>10. OneAtATime' /\ LinesExact'
  BY <1>1, SameLines DEF SerialInv, OneAtATime
<1> QED BY <1>7, <1>8, <1>9, <1>10 DEF SerialInv

(* A request is accepted when none is in service.                            *)
LEMMA NobodyServed ==
  ASSUME Serial, OneAtATime, Cardinality(InFlight) < MaxInFlight
  PROVE  \A v \in Workers : tx[v].pc = "idle"
<1> SUFFICES ASSUME NEW v \in Workers, tx[v].pc # "idle" PROVE FALSE
  OBVIOUS
<1>1. InFlight = {v}
  BY DEF OneAtATime, InFlight
<1>2. Cardinality(InFlight) = 1
  BY <1>1, FS_Singleton
<1> QED BY <1>2, RequestsAssumption DEF Serial

LEMMA ArriveSerial ==
  ASSUME Serial, IInv, SerialInv, NEW w \in Workers, NEW r \in Requests,
         Arrive(w, r)
  PROVE  SerialInv' /\ Frozen
<1>1. \A v \in Workers : tx[v].pc = "idle"
  BY NobodyServed DEF Arrive, SerialInv
<1>2. /\ tx'[w].pc = FirstPc(r.op) /\ tx'[w].req = r
      /\ \A v \in Workers : v # w => tx'[v] = tx[v]
      /\ UNCHANGED <<inv, books, matched, booked>>
  BY DEF Arrive, IInv, TxInv, Tx, otherRows, lineVars
<1>3. FirstPc(r.op) \in {"head", "line", "snapshot", "check", "sign", "confirm"}
  <2>1. r.op \in OpNames
    BY RequestFacts DEF Request
  <2> QED BY <2>1 DEF FirstPc, OpNames
<1>4. r.op \in {"ALLOC", "NET"} \/ inv[r.inv].status # "ABSENT"
  BY DEF Arrive
<1>5. Knows(tx'[w], inv', payRows', matched')
  BY <1>2, <1>3, <1>4
     DEF Knows, KnowsRow, KnowsLine, KnowsPlan, RowPcs, BatchPcs
<1>6. RowsExact' /\ LinesExact' /\ Frozen
  BY <1>2, UnchangedExact
<1> QED BY <1>1, <1>2, <1>5, <1>6, SerialStep

LEMMA SettleManySerial ==
  ASSUME IInv, RevInv, SerialInv, NEW w \in Workers, SettleMany(w)
  PROVE  SerialInv' /\ Frozen
BY ReadCandidatesSerial, NettingReadsSerial, ReadBucketSerial, WriteBucketSerial,
   CommitAllocationSerial, CommitNettingSerial DEF SettleMany

LEMMA StepSerial ==
  ASSUME Serial, IInv, RevInv, SerialInv, [Next]_vars PROVE SerialInv' /\ Frozen
<1>1. CASE \E i \in Invoices : Create(i)
  BY <1>1, CreateSerial
<1>2. CASE \E w \in Workers : \E r \in Requests : Arrive(w, r)
  BY <1>2, ArriveSerial
<1>3. CASE \E w \in Workers : Serve(w)
  <2> PICK w \in Workers : Serve(w)
    BY <1>3
  <2>1. CASE UpdateStatus(w)
    BY <2>1, ReadForSentSerial, WriteSentSerial, ReadForPaidSerial,
       WritePaidSerial, RefreshPaidSerial, RewritePaidSerial DEF UpdateStatus
  <2>2. CASE RecordPayment(w)
    BY <2>2, ReadForPaymentSerial, WritePaymentSerial DEF RecordPayment
  <2>3. CASE ConfirmMatch(w)
    BY <2>3, ReadLineSerial, MarkLineSerial, ReadForBankSerial,
       ReadRemainingSerial, WriteBankSerial, RecogniseSerial DEF ConfirmMatch
  <2> QED BY <2>1, <2>2, <2>3, ReadHeadSerial, SettleManySerial, SignSerial DEF Serve
<1>4. CASE \E w \in Workers : Abort(w)
  BY <1>4, RejectSerial DEF Abort
<1>5. CASE UNCHANGED vars
  <2>1. UNCHANGED <<inv, books, payRows, matched, booked, tx>>
    BY <1>5 DEF vars, books, lineVars
  <2>2. RowsExact' /\ LinesExact' /\ Frozen
    BY <2>1, UnchangedExact
  <2> QED BY <2>1, <2>2 DEF SerialInv, OneAtATime
<1> QED BY <1>1, <1>2, <1>3, <1>4, <1>5 DEF Next

LEMMA InitSerial == Init => SerialInv
<1> SUFFICES ASSUME Init PROVE SerialInv
  OBVIOUS
<1>1. \A w \in Workers : tx[w].pc = "idle"
  BY DEF Init, Idle
<1>2. ASSUME NEW i \in Invoices
      PROVE  RowExact(i, inv[i], allocRows[i], payRows[i], revPosted[i])
  <2>1. /\ inv[i] = AbsentRow /\ payRows[i] = 0 /\ allocRows[i] = 0
        /\ revPosted[i] = 0 /\ Total[i] \in Nat
    BY InvoicesAssumption DEF Init, NoRows, NoPlan
  <2> QED BY <2>1 DEF RowExact, AbsentRow
<1>3. LinesExact
  <2>1. \A l \in Lines : matched[l] = 0 /\ booked[l] = 0
    BY DEF Init
  <2>2. ASSUME NEW i \in Invoices PROVE SumOver(Taken(i)) <= allocRows[i] - mirror[i]
    <3> DEFINE f == Taken(i)
    <3>1. allocRows[i] = 0 /\ mirror[i] = 0
      BY DEF Init, NoPlan
    <3>2. f \in [Lines -> Int] /\ \A l \in Lines : f[l] = 0
      BY <2>1 DEF Taken, LeastTaken, Invoices
    <3> HIDE DEF f
    <3>3. SumOver(f) = 0
      BY <3>2, LinesAssumption, SumOverIs, SumZero
    <3> QED BY <3>1, <3>3 DEF f
  <2> QED BY <2>1, <2>2 DEF LinesExact
<1>4. RowsExact
  BY <1>2 DEF RowsExact
<1>5. OneAtATime /\ \A w \in Workers : Knows(tx[w], inv, payRows, matched)
  BY <1>1, IdleKnows DEF OneAtATime
<1> QED BY <1>3, <1>4, <1>5 DEF SerialInv

--------------------------------------------------------------------------------
(* Served one at a time, requests recognise the revenue of an invoice once,   *)
(* whichever of updateStatus and the statement match does it.                 *)
THEOREM RevenueIsRecognisedOnce == ASSUME Serial PROVE Spec => []RevenueOnce
<1>1. SerialInv => RevenueOnce
  BY DEF SerialInv, RowsExact, RowExact, RevenueOnce
<1>2. IInv /\ RevInv /\ SerialInv /\ [Next]_vars => (IInv /\ RevInv /\ SerialInv)'
  BY StepInv, StepRev, StepSerial
<1> QED BY <1>1, <1>2, InitInv, InitRev, InitSerial, PTL DEF Spec

(* Served one at a time, payments, matches and allocations never collect more *)
(* than the total of an invoice, and nettings never set off more than it,     *)
(* although the first count paidAmount and the second the payment rows.       *)
THEOREM NoInvoiceIsOverpaid == ASSUME Serial PROVE Spec => []PaidWithinTotal
<1>1. IInv /\ SerialInv => PaidWithinTotal
  <2> SUFFICES ASSUME IInv, SerialInv, NEW i \in Invoices
               PROVE  allocRows[i] <= Total[i] /\ Netted[i] \in 0..Total[i]
    BY DEF PaidWithinTotal
  <2>1. /\ RowExact(i, inv[i], allocRows[i], payRows[i], revPosted[i])
        /\ payRows[i] \in Nat /\ allocRows[i] \in Nat /\ Total[i] \in Nat
    BY InvoicesAssumption DEF SerialInv, RowsExact, IInv, RowsInv
  <2>2. Netted[i] = payRows[i] - allocRows[i]
    BY DEF Netted
  <2> QED BY <2>1, <2>2 DEF RowExact
<1>2. IInv /\ RevInv /\ SerialInv /\ [Next]_vars => (IInv /\ RevInv /\ SerialInv)'
  BY StepInv, StepRev, StepSerial
<1> QED BY <1>1, <1>2, InitInv, InitRev, InitSerial, PTL DEF Spec

(* Served one at a time, every operation leaves an unsigned invoice with the  *)
(* status that its revenue gives it and either the money collected or all its *)
(* payment rows.                                                              *)
THEOREM StatusFollowsMoney == ASSUME Serial PROVE Spec => []StatusTellsMoney
<1>1. SerialInv => StatusTellsMoney
  <2> SUFFICES ASSUME SerialInv, NEW i \in Invoices,
                      inv[i].status \notin {"ABSENT", "LOCKED_BY_SIGNATURE"}
               PROVE  \E sum \in {allocRows[i], payRows[i]} :
                        inv[i].status = StatusOf(i, inv[i].rev, sum)
    BY DEF StatusTellsMoney, StatusOf
  <2> QED BY DEF SerialInv, RowsExact, RowExact
<1>2. IInv /\ RevInv /\ SerialInv /\ [Next]_vars => (IInv /\ RevInv /\ SerialInv)'
  BY StepInv, StepRev, StepSerial
<1> QED BY <1>1, <1>2, InitInv, InitRev, InitSerial, PTL DEF Spec

(* Served one at a time, matches post a statement line once at most, and on   *)
(* the invoice it is matched to: its allocations cover its lines.             *)
THEOREM LinesAreBookedOnce == ASSUME Serial PROVE Spec => []LineBookedOnce
<1>1. IInv /\ SerialInv => LineBookedOnce
  <2> SUFFICES ASSUME IInv, SerialInv PROVE LineBookedOnce
    OBVIOUS
  <2>1. \A l \in Lines : booked[l] <= 1 /\ (booked[l] = 1 => matched[l] # 0)
    BY DEF SerialInv, LinesExact
  <2>2. \A i \in Invoices :
          SumOver([l \in Lines |-> LeastTaken(i, l)]) <= allocRows[i] - mirror[i]
    BY DEF SerialInv, LinesExact, Taken
  <2> QED BY <2>1, <2>2 DEF LineBookedOnce
<1>2. IInv /\ RevInv /\ SerialInv /\ [Next]_vars => (IInv /\ RevInv /\ SerialInv)'
  BY StepInv, StepRev, StepSerial
<1> QED BY <1>1, <1>2, InitInv, InitRev, InitSerial, PTL DEF Spec

(* Served one at a time, no request changes what a signed invoice says, nor   *)
(* collects money for it, and netting changes paymentReceived at most: each   *)
(* operation sees the lock before it writes.                                  *)
THEOREM SignedRowsStay == ASSUME Serial PROVE Spec => SignedRowIsFrozen
<1>1. IInv /\ RevInv /\ SerialInv /\ [Next]_vars => [Frozen]_vars
  BY StepSerial
<1>2. Frozen =>
        \A i \in Invoices : inv[i].status = "LOCKED_BY_SIGNATURE"
          => /\ UNCHANGED <<inv[i].status, inv[i].paid, inv[i].rev>>
             /\ UNCHANGED <<allocRows[i], mirror[i], kmo[i], revPosted[i]>>
  BY DEF Frozen, Kept
<1>3. IInv /\ RevInv /\ SerialInv /\ [Next]_vars => (IInv /\ RevInv /\ SerialInv)'
  BY StepInv, StepRev, StepSerial
<1> QED BY <1>1, <1>2, <1>3, InitInv, InitRev, InitSerial, PTL
        DEF Spec, SignedRowIsFrozen

--------------------------------------------------------------------------------
(* The abstract receivable                                                 *)

(* A step recognises revenue and collects money, or nets open invoices.      *)
Collects ==
  \A i \in Invoices : /\ revPosted'[i] >= revPosted[i]
                      /\ allocRows'[i] >= allocRows[i]
                      /\ payRows'[i] - payRows[i] = allocRows'[i] - allocRows[i]
Nets ==
  \A i \in Invoices : /\ revPosted'[i] = revPosted[i]
                      /\ allocRows'[i] = allocRows[i]
                      /\ payRows'[i] >= payRows[i]
                      /\ payRows'[i] > payRows[i]
                           => inv[i].rev /\ payRows'[i] <= Total[i]

LEMMA QuietCollects == ASSUME RowsInv, Quiet PROVE Collects
<1>1. UNCHANGED <<payRows, allocRows, revPosted>>
  BY DEF Quiet, books
<1> QED BY <1>1 DEF Collects, RowsInv

LEMMA CommitMoves ==
  ASSUME IInv, SerialInv, NEW w \in Workers, CommitAllocation(w) \/ CommitNetting(w)
  PROVE  Collects \/ Nets
<1>0. RowsInv
  BY DEF IInv
<1>1. /\ tx[w].pc = "commit" /\ tx[w].pc \in BatchPcs
      /\ CommitNetting(w) => tx[w].req.op = "NET"
  BY DEF CommitAllocation, CommitNetting, At, BatchPcs
<1>2. /\ tx[w].plan \in [Invoices -> Nat]
      /\ \A i \in Invoices : tx[w].plan[i] > 0 =>
            Fits(tx[w].req.op, i, inv[i], payRows[i], tx[w].plan[i])
  BY <1>1, BatchFacts DEF KnowsPlan
<1>3. CASE Reject(w)
  BY <1>0, <1>3, RejectQuiet, QuietCollects
<1>4. CASE CommitAllocation(w)
  <2>1. /\ payRows' = AddPlan(w, payRows) /\ allocRows' = AddPlan(w, allocRows)
        /\ revPosted' = revPosted
    BY <1>4 DEF CommitAllocation
  <2> QED BY <1>0, <1>2, <2>1 DEF AddPlan, RowsInv, Collects
<1>5. CASE CommitNetting(w) /\ ~Reject(w)
  <2>1. /\ payRows' = AddPlan(w, payRows)
        /\ UNCHANGED <<allocRows, revPosted>> /\ tx[w].req.op = "NET"
    BY <1>1, <1>5 DEF CommitNetting
  <2>2. ASSUME NEW i \in Invoices
        PROVE  /\ payRows'[i] >= payRows[i]
               /\ payRows'[i] > payRows[i] => inv[i].rev /\ payRows'[i] <= Total[i]
    <3>1. /\ payRows[i] \in Nat /\ tx[w].plan[i] \in Nat
          /\ payRows'[i] = payRows[i] + tx[w].plan[i]
      BY <1>0, <1>2, <2>1 DEF AddPlan, RowsInv
    <3>2. tx[w].plan[i] > 0 => inv[i].rev /\ payRows[i] + tx[w].plan[i] <= Total[i]
      BY <1>2, <2>1 DEF Fits
    <3> QED BY <3>1, <3>2
  <2> QED BY <2>1, <2>2 DEF Nets
<1> QED BY <1>3, <1>4, <1>5

LEMMA RowsMove ==
  ASSUME IInv, SerialInv, [Next]_vars PROVE Collects \/ Nets
<1>0. RowsInv
  BY DEF IInv
<1>1. CASE Quiet
  BY <1>0, <1>1, QuietCollects
<1>2. CASE SomeInvoice
  <2> PICK i \in Invoices, rec \in BOOLEAN, a \in Nat, r \in Nat, c \in BOOLEAN :
        OneInvoice(i, rec, a, r, c)
    BY <1>2 DEF SomeInvoice
  <2>1. PICK m : BookPayment(i, a, c, m) /\ Post(i, rec, a, r, c)
    BY DEF OneInvoice
  <2>2. /\ payRows'[i] = payRows[i] + a /\ allocRows'[i] = allocRows[i] + a
        /\ revPosted'[i] = revPosted[i] + (IF rec THEN 1 ELSE 0)
        /\ \A j \in Invoices \ {i} : SameBooks(j)
    BY <1>0, <2>1, BookedRows
  <2>3. \A j \in Invoices :
          payRows[j] \in Nat /\ allocRows[j] \in Nat /\ revPosted[j] \in Nat
    BY <1>0 DEF RowsInv
  <2> QED BY <2>2, <2>3 DEF SameBooks, Collects
<1>3. CASE \E w \in Workers : CommitAllocation(w) \/ CommitNetting(w)
  BY <1>3, CommitMoves
<1> QED BY <1>1, <1>2, <1>3, StepEffect

LEMMA AbstractSum == ASSUME NEW f PROVE Abstract!SumOf(f) = SumOver(f)
BY DEF Abstract!SumOf, Abstract!FoldFunction, Abstract!FoldFunctionOnSet,
       Abstract!MapThenFoldSet, SumOver, FoldFunction, FoldFunctionOnSet,
       MapThenFoldSet

(* The invoices a step recognises, and what it adds to the payment rows.     *)
Recognises == {i \in Invoices : inv'[i].rev /\ ~inv[i].rev}
Added == [i \in Invoices |-> payRows'[i] - payRows[i]]

LEMMA MoveFacts ==
  ASSUME RowsInv, RowsInv', RowsExact, RowsExact', Collects \/ Nets,
         NEW i \in Invoices
  PROVE  /\ payRows[i] \in Nat /\ payRows'[i] \in Nat /\ Total[i] \in Nat
         /\ allocRows[i] \in Nat /\ allocRows'[i] \in Nat
         /\ allocRows'[i] <= Total[i]
         /\ payRows'[i] >= payRows[i]
         /\ payRows'[i] > 0 => inv'[i].rev
         /\ inv[i].rev \in BOOLEAN /\ inv'[i].rev \in BOOLEAN
         /\ revPosted[i] = IF inv[i].rev THEN 1 ELSE 0
         /\ revPosted'[i] = IF inv'[i].rev THEN 1 ELSE 0
         /\ inv[i].rev => inv'[i].rev
<1>1. /\ RowExact(i, inv[i], allocRows[i], payRows[i], revPosted[i])
      /\ RowExact(i, inv'[i], allocRows'[i], payRows'[i], revPosted'[i])
  BY DEF RowsExact
<1>2. /\ payRows[i] \in Nat /\ payRows'[i] \in Nat /\ Total[i] \in Nat
      /\ allocRows[i] \in Nat /\ allocRows'[i] \in Nat
      /\ revPosted[i] \in Nat /\ revPosted'[i] \in Nat
      /\ inv[i] \in Row /\ inv'[i] \in Row
  BY InvoicesAssumption DEF RowsInv
<1>3. inv[i].rev \in BOOLEAN /\ inv'[i].rev \in BOOLEAN
  BY <1>2 DEF Row
<1>4. /\ revPosted[i] = IF inv[i].rev THEN 1 ELSE 0
      /\ revPosted'[i] = IF inv'[i].rev THEN 1 ELSE 0
      /\ allocRows'[i] <= Total[i] /\ (payRows'[i] > 0 => inv'[i].rev)
  BY <1>1 DEF RowExact
<1>5. revPosted'[i] >= revPosted[i] /\ payRows'[i] >= payRows[i]
  BY <1>2 DEF Collects, Nets
<1>6. inv[i].rev => inv'[i].rev
  BY <1>4, <1>5
<1> QED BY <1>2, <1>3, <1>4, <1>5, <1>6

(* The account that backs the rows before and after a step gains the totals   *)
(* that the step recognises, less what it adds to the payment rows.          *)
LEMMA BalanceMoves ==
  ASSUME RowsInv, RowsInv', RowsExact, RowsExact', Collects \/ Nets,
         LedgerBacksReceivables, LedgerBacksReceivables'
  PROVE  gl'.ar = gl.ar + SumOver([i \in Recognises |-> Total[i]]) - SumOver(Added)
<1> DEFINE R == Recognises
           d == Added
           t == [i \in Invoices |-> IF i \in R THEN Total[i] ELSE 0]
           tR == [i \in R |-> Total[i]]
           u == [i \in Invoices |-> Owed[i] + t[i]]
<1>1. R \in SUBSET Invoices
  BY DEF Recognises
<1>2. ASSUME NEW i \in Invoices PROVE u[i] = Owed'[i] + d[i]
  <2>1. /\ Owed[i] = revPosted[i] * Total[i] - payRows[i]
        /\ Owed'[i] = revPosted'[i] * Total[i] - payRows'[i]
    BY DEF Owed
  <2>2. /\ payRows[i] \in Nat /\ payRows'[i] \in Nat /\ Total[i] \in Nat
        /\ inv[i].rev \in BOOLEAN /\ inv'[i].rev \in BOOLEAN
        /\ revPosted[i] = IF inv[i].rev THEN 1 ELSE 0
        /\ revPosted'[i] = IF inv'[i].rev THEN 1 ELSE 0
        /\ inv[i].rev => inv'[i].rev
    BY MoveFacts
  <2>3. revPosted'[i] * Total[i] = revPosted[i] * Total[i] + t[i]
    BY <2>2 DEF Recognises
  <2>4. revPosted[i] * Total[i] \in Int /\ t[i] \in Int
    BY <2>2
  <2>5. d[i] = payRows'[i] - payRows[i] /\ u[i] = Owed[i] + t[i]
    BY DEF Added
  <2> HIDE DEF t, d, u
  <2> QED BY <2>1, <2>2, <2>3, <2>4, <2>5
<1>3. /\ Owed \in [Invoices -> Int] /\ Owed' \in [Invoices -> Int]
  BY OwedType DEF RowsInv, Owed
<1>4. d \in [Invoices -> Int] /\ t \in [Invoices -> Int] /\ tR \in [R -> Int]
  BY <1>1, MoveFacts DEF Added
<1>5. SumOn(t, Invoices) = SumOn(tR, R)
  <2>1. Values(tR, R) /\ \A i \in Invoices : t[i] = IF i \in R THEN tR[i] ELSE 0
    BY <1>4 DEF Values
  <2> HIDE DEF R, t, tR
  <2> QED BY <1>1, <2>1, InvoicesFinite, SumWithin
<1>6. /\ SumOver(Owed) = SumOn(Owed, Invoices)
      /\ SumOver(Owed') = SumOn(Owed', Invoices)
      /\ SumOver(d) = SumOn(d, Invoices)
      /\ SumOver(tR) = SumOn(tR, R)
  <2>1. IsFiniteSet(R)
    BY <1>1, InvoicesFinite, FS_Subset
  <2> HIDE DEF R, d, tR
  <2> QED BY <1>3, <1>4, <2>1, InvoicesFinite, SumOverIs
<1>7. /\ SumOn(u, Invoices) = SumOn(Owed, Invoices) + SumOn(t, Invoices)
      /\ SumOn(u, Invoices) = SumOn(Owed', Invoices) + SumOn(d, Invoices)
      /\ SumOn(Owed, Invoices) \in Int /\ SumOn(Owed', Invoices) \in Int
      /\ SumOn(d, Invoices) \in Int /\ SumOn(t, Invoices) \in Int
  <2>1. /\ Values(Owed, Invoices) /\ Values(Owed', Invoices)
        /\ Values(d, Invoices) /\ Values(t, Invoices)
    BY <1>3, <1>4 DEF Values
  <2>2. \A i \in Invoices : u[i] = Owed[i] + t[i]
    OBVIOUS
  <2>3. \A i \in Invoices : u[i] = Owed'[i] + d[i]
    BY <1>2
  <2> HIDE DEF u, d, t
  <2> QED BY <2>1, <2>2, <2>3, InvoicesFinite, SumAdd, SumType
<1>8. gl.ar = SumOver(Owed) /\ gl'.ar = SumOver(Owed')
  BY DEF LedgerBacksReceivables, Owed
<1>9. gl'.ar = gl.ar + SumOver(tR) - SumOver(d)
  <2> HIDE DEF u, d, t, tR
  <2> QED BY <1>5, <1>6, <1>7, <1>8
<1> QED BY <1>9

(* What a step adds within the total is a value of the abstract transactions.*)
LEMMA AddedType ==
  ASSUME \A i \in Invoices : Added[i] \in Nat /\ Added[i] <= Total[i]
  PROVE  Added \in Abstract!Payments
<1>1. SumOver(Total) = SumOn(Total, Invoices) /\ \A i \in Invoices : Total[i] \in Nat
  BY InvoicesAssumption, InvoicesFinite, SumOverIs
<1>2. ASSUME NEW i \in Invoices PROVE Added[i] \in 0..SumOver(Total)
  <2>1. Total[i] <= SumOn(Total, Invoices)
    BY <1>1, InvoicesFinite, SumBounds
  <2>2. SumOn(Total, Invoices) \in Int
    BY <1>1, InvoicesFinite, SumType DEF Values
  <2> QED BY <1>1, <2>1, <2>2
<1>3. Abstract!SumOf(Total) = SumOver(Total)
  BY AbstractSum
<1> QED BY <1>2, <1>3 DEF Abstract!Payments, Added

(* A step that recognises and collects is a transaction of Receivable.       *)
LEMMA StepTransacts ==
  ASSUME RowsInv, RowsInv', RowsExact, RowsExact', Collects,
         LedgerBacksReceivables, LedgerBacksReceivables'
  PROVE  Abstract!Next
<1> DEFINE R == Recognises
           d == Added
<1>1. ASSUME NEW i \in Invoices
      PROVE  /\ d[i] \in Nat /\ allocRows'[i] = allocRows[i] + d[i]
             /\ d[i] <= Total[i] /\ allocRows[i] + d[i] <= Total[i]
             /\ d[i] > 0 => inv'[i].rev
  <2>1. d[i] = payRows'[i] - payRows[i] /\ d[i] = allocRows'[i] - allocRows[i]
    BY DEF Added, Collects
  <2> HIDE DEF d
  <2> QED BY <2>1, MoveFacts
<1>2. d \in Abstract!Payments
  BY <1>1, AddedType
<1>3. Abstract!Transact(R, d)
  <2>1. \A i \in Invoices : d[i] > 0 =>
          /\ i \in {j \in Invoices : inv[j].rev} \cup R
          /\ allocRows[i] + d[i] <= Total[i]
    BY <1>1 DEF Recognises
  <2>2. {j \in Invoices : inv'[j].rev} = {j \in Invoices : inv[j].rev} \cup R
    BY MoveFacts DEF Recognises
  <2>3. allocRows' = [i \in Invoices |-> allocRows[i] + d[i]]
    <3> HIDE DEF d
    <3> QED BY <1>1 DEF RowsInv
  <2>4. R \cap {j \in Invoices : inv[j].rev} = {}
    BY DEF Recognises
  <2>5. gl'.ar = gl.ar + Abstract!SumOf([i \in R |-> Total[i]]) - Abstract!SumOf(d)
    BY BalanceMoves, AbstractSum
  <2>6. Netted' = Netted
    <3>1. \A i \in Invoices :
            payRows'[i] - allocRows'[i] = payRows[i] - allocRows[i]
      BY MoveFacts DEF Collects
    <3> QED BY <3>1 DEF Netted
  <2> HIDE DEF d, R
  <2> QED BY <2>1, <2>2, <2>3, <2>4, <2>5, <2>6 DEF Abstract!Transact
<1>4. R \in SUBSET Invoices
  BY DEF Recognises
<1> HIDE DEF R, d
<1> QED BY <1>2, <1>3, <1>4 DEF Abstract!Next, Abstract!Transact

(* A step that nets is a netting of Receivable.                              *)
LEMMA StepNets ==
  ASSUME RowsInv, RowsInv', RowsExact, RowsExact', Nets,
         LedgerBacksReceivables, LedgerBacksReceivables'
  PROVE  Abstract!Next
<1> DEFINE d == Added
<1>1. ASSUME NEW i \in Invoices
      PROVE  /\ d[i] \in Nat /\ payRows'[i] = payRows[i] + d[i]
             /\ payRows[i] \in Nat /\ allocRows[i] \in Nat
             /\ allocRows'[i] = allocRows[i] /\ d[i] <= Total[i]
             /\ d[i] > 0 => inv[i].rev /\ payRows[i] + d[i] <= Total[i]
             /\ inv'[i].rev = inv[i].rev
  <2>1. d[i] = payRows'[i] - payRows[i]
    BY DEF Added
  <2>2. /\ allocRows'[i] = allocRows[i] /\ revPosted'[i] = revPosted[i]
        /\ payRows'[i] > payRows[i] => inv[i].rev /\ payRows'[i] <= Total[i]
    BY DEF Nets
  <2>3. inv'[i].rev = inv[i].rev
    BY <2>2, MoveFacts
  <2> HIDE DEF d
  <2>4. /\ payRows[i] \in Nat /\ payRows'[i] \in Nat /\ Total[i] \in Nat
        /\ allocRows[i] \in Nat /\ payRows'[i] >= payRows[i]
    BY MoveFacts
  <2>5. d[i] \in Nat /\ payRows'[i] = payRows[i] + d[i] /\ d[i] <= Total[i]
    BY <2>1, <2>2, <2>4
  <2>6. d[i] > 0 => payRows'[i] > payRows[i]
    BY <2>4, <2>5
  <2> QED BY <2>2, <2>3, <2>4, <2>5, <2>6
<1>2. d \in Abstract!Payments
  BY <1>1, AddedType
<1>3. Abstract!Net(d)
  <2>1. \A i \in Invoices : d[i] > 0 =>
          /\ i \in {j \in Invoices : inv[j].rev}
          /\ allocRows[i] + Netted[i] + d[i] <= Total[i]
    <3>1. \A i \in Invoices : Netted[i] = payRows[i] - allocRows[i]
      BY DEF Netted
    <3> HIDE DEF d
    <3> QED BY <1>1, <3>1
  <2>2. {j \in Invoices : inv'[j].rev} = {j \in Invoices : inv[j].rev}
    BY <1>1
  <2>3. Netted' = [i \in Invoices |-> Netted[i] + d[i]]
    <3>1. \A i \in Invoices :
            payRows'[i] - allocRows'[i] = (payRows[i] - allocRows[i]) + d[i]
      <4> HIDE DEF d
      <4> QED BY <1>1
    <3> HIDE DEF d
    <3> QED BY <3>1 DEF Netted
  <2>4. allocRows' = allocRows
    BY <1>1 DEF RowsInv
  <2>5. gl'.ar = gl.ar - Abstract!SumOf(d)
    <3> DEFINE R == Recognises
               tR == [i \in R |-> Total[i]]
    <3>1. R = {}
      BY <1>1 DEF Recognises
    <3>2. tR \in [R -> Int] /\ \A i \in R : tR[i] = 0
      BY <3>1
    <3>3. gl'.ar = gl.ar + SumOver(tR) - SumOver(d)
      BY BalanceMoves
    <3> HIDE DEF tR, R
    <3>4. SumOver(tR) = 0
      BY <3>1, <3>2, FS_EmptySet, SumOverIs, SumZero
    <3>5. gl.ar \in Int
      BY DEF RowsInv
    <3>6. SumOver(d) \in Int
      <4>1. d \in [Invoices -> Int]
        BY <1>1 DEF Added
      <4> HIDE DEF d
      <4> QED BY <4>1, InvoicesFinite, SumOverIs, SumType DEF Values
    <3>7. Abstract!SumOf(d) = SumOver(d)
      BY AbstractSum
    <3> HIDE DEF d
    <3> QED BY <3>3, <3>4, <3>5, <3>6, <3>7
  <2> HIDE DEF d
  <2> QED BY <2>1, <2>2, <2>3, <2>4, <2>5 DEF Abstract!Net
<1> HIDE DEF d
<1> QED BY <1>2, <1>3 DEF Abstract!Next

LEMMA InitReceivable == Init => Abstract!Init
<1> SUFFICES ASSUME Init PROVE Abstract!Init
  OBVIOUS
<1>1. \A i \in Invoices : ~inv[i].rev
  BY DEF Init, NoRows, AbsentRow
<1>2. Netted = Abstract!Zero
  BY DEF Init, NoPlan, Netted, Abstract!Zero
<1> QED BY <1>1, <1>2 DEF Init, NoPlan, Abstract!Init, Abstract!Zero

(* Served one at a time, the requests implement the abstract receivable: every*)
(* step of recognition, payment, matching, allocation and netting is one      *)
(* transaction of it or changes nothing that it shows.                        *)
THEOREM ReceivableIsImplemented ==
  ASSUME Serial PROVE Spec => ImplementsReceivable
<1> DEFINE AllInv == IInv /\ RevInv /\ SerialInv /\ LedgerBacksReceivables
<1>1. Init => AllInv /\ Abstract!Init
  BY InitInv, InitRev, InitSerial, InitLedger, InitReceivable
<1>2. AllInv /\ [Next]_vars => AllInv'
  BY StepInv, StepRev, StepSerial, StepLedger
<1>3. AllInv /\ [Next]_vars => [Abstract!Next]_(Abstract!receivable)
  <2> SUFFICES ASSUME AllInv, [Next]_vars PROVE Abstract!Next
    OBVIOUS
  <2>1. AllInv'
    BY <1>2
  <2> QED BY <2>1, RowsMove, StepTransacts, StepNets DEF SerialInv, IInv
<1> QED BY <1>1, <1>2, <1>3, PTL DEF Spec, ImplementsReceivable, Abstract!Spec
================================================================================
