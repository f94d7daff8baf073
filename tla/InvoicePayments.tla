---------------------------- MODULE InvoicePayments ----------------------------
(***************************************************************************)
(* The receivable side of the ERP: how an invoice is recognised as revenue *)
(* and paid (apps/api/src/invoices/invoices.service.ts), how a bank        *)
(* statement line is matched to it (banking/bank-match.service.ts), how it *)
(* is netted against a payable (accounting/netting.service.ts) and how a   *)
(* digital signature locks it (signature/signature.service.ts).            *)
(*                                                                         *)
(* A worker is an HTTP request being served.  Its database transaction     *)
(* runs at READ COMMITTED, the default of every `prisma.$transaction` of   *)
(* the repository: each read sees what is committed at that moment, and an *)
(* UPDATE keeps its row locked until the commit.  So one step is one read, *)
(* and a transaction that updates one invoice is written and committed in  *)
(* a single step; one that updates several takes a step for each of them   *)
(* and keeps the rows it has written, uncommitted, in `held`.              *)
(***************************************************************************)
EXTENDS Integers, FiniteSets, Functions

CONSTANTS
  NInvoices,      \* invoices of one counterparty, numbered by due date
  Total,          \* totalAmount of an invoice, in units of 0.01
  CashInvoices,   \* those whose debitAccountCode is 101*, not 221
  ForeignInvoices,\* those whose currency is not AZN
  Tolerance,      \* MULTI_CURRENCY_ROUNDING_TOLERANCE
  NetOrder,       \* the order of netting (dueDate, id), a permutation
  Lines,          \* imported INFLOW lines of bank statements
  LineAmount,     \* amount of a line
  NoLine,         \* not a line
  Payable,        \* what account 531 owes the counterparty at the start
  Amounts,        \* amounts a request may ask for
  Roles,          \* roles of the users who send requests
  Ops,            \* the operations users call
  Workers,        \* requests that may be in service together
  MaxInFlight,    \* bound: requests in service at one time
  MaxRequests     \* bound: requests served in a behaviour

Invoices == 1..NInvoices
OpNames == {"SENT", "PAID", "PAY", "MATCH", "ALLOC", "NET", "SIGN", "CONFIRM"}

ASSUME InvoicesAssumption ==
  /\ NInvoices \in Nat \ {0}
  /\ Total \in [Invoices -> Nat \ {0}]
  /\ CashInvoices \subseteq Invoices
  /\ ForeignInvoices \subseteq Invoices
  /\ Tolerance \in Nat
  /\ NetOrder \in [Invoices -> Invoices]
  /\ \A i \in Invoices : \E k \in Invoices : NetOrder[k] = i
ASSUME LinesAssumption ==
  /\ IsFiniteSet(Lines)
  /\ LineAmount \in [Lines -> Nat \ {0}]
  /\ NoLine \notin Lines
ASSUME RequestsAssumption ==
  /\ Payable \in Nat
  /\ Amounts \subseteq Nat \ {0}
  /\ Roles \subseteq {"USER", "ACCOUNTANT"}
  /\ Ops \subseteq OpNames
  /\ MaxInFlight \in Nat
  /\ MaxRequests \in Nat

VARIABLES
  inv,        \* the committed invoice rows
  payRows,    \* per invoice, the sum of its InvoicePayment rows
  allocRows,  \* per invoice, the sum of its PaymentAllocation rows
  mirror,     \* per invoice, the sum of its INVOICE_PAYMENT_SYSTEM bank lines
  kmo,        \* per invoice, the sum of the cash orders (KMO) made for it
  revPosted,  \* per invoice, the number of revenue journals Dr 211 / Cr 601
  gl,         \* account balances, each on its normal side
  matched,    \* per bank line, the invoice it is matched to, 0 when none
  booked,     \* per bank line, how many times it was posted to the ledger
  logs,       \* per invoice, its DigitalSignatureLog rows of each status
  tx,         \* the request each worker is serving
  served      \* requests accepted so far

vars == <<inv, payRows, allocRows, mirror, kmo, revPosted, gl, matched, booked,
          logs, tx, served>>
books == <<payRows, allocRows, mirror, kmo, revPosted, gl>>
lineVars == <<matched, booked>>
otherRows == <<lineVars, logs>>

--------------------------------------------------------------------------------
(* Rows, requests and transactions                                         *)

\* InvoiceStatus. No code path of the repository writes CANCELLED, so no row
\* has it; ABSENT is an invoice not created yet.
Status == {"ABSENT", "DRAFT", "SENT", "PARTIALLY_PAID", "PAID",
           "LOCKED_BY_SIGNATURE"}

Row == [status : Status, paid : Nat, rev : BOOLEAN, recv : BOOLEAN]

AbsentRow == [status |-> "ABSENT", paid |-> 0, rev |-> FALSE, recv |-> FALSE]

Request == [op : OpNames, inv : Invoices, amount : Nat, cash : BOOLEAN,
            role : {"USER", "ACCOUNTANT"}, line : Lines \cup {NoLine}]

NoRequest == [op |-> "SENT", inv |-> 1, amount |-> 0, cash |-> FALSE,
              role |-> "ACCOUNTANT", line |-> NoLine]

\* The requests users may send; a parameter that the endpoint of an operation
\* does not take has its value in NoRequest.
Requests ==
  { r \in [op : Ops, inv : Invoices, amount : Amounts \cup {0}, cash : BOOLEAN,
           role : Roles \cup {"ACCOUNTANT"}, line : Lines \cup {NoLine}] :
      /\ r.op \in {"ALLOC", "NET"} => r.inv = 1
      /\ r.op \in {"PAY", "ALLOC", "NET"} <=> r.amount > 0
      /\ r.cash => r.op \in {"PAY", "ALLOC"}
      /\ r.role \in IF r.op \in {"SENT", "PAID", "PAY"}
                    THEN Roles ELSE {"ACCOUNTANT"}
      /\ r.op = "MATCH" <=> r.line # NoLine }

Pcs == {"idle", "head", "read", "write", "refresh", "rewrite", "line",
        "matchInvoice", "mark", "apply", "recognise", "remaining", "check",
        "snapshot", "bucketRead", "bucketWrite", "commit",
        "sign", "signed", "clear", "create", "confirm"}

NoPlan == [i \in Invoices |-> 0]
NoRows == [i \in Invoices |-> AbsentRow]

Tx == [pc : Pcs, req : Request,
       seen : Row,                  \* the invoice row it read last
       plan : [Invoices -> Nat],    \* amount of each bucket (ALLOC, NET)
       applied : Nat,               \* their sum
       pos : Nat,                   \* position of the bucket loop
       held : SUBSET Invoices,      \* rows it has written, not committed
       fresh : [Invoices -> Row]]   \* their uncommitted versions

Idle == [pc |-> "idle", req |-> NoRequest, seen |-> AbsentRow, plan |-> NoPlan,
         applied |-> 0, pos |-> 0, held |-> {}, fresh |-> NoRows]

Init ==
  /\ inv = NoRows
  /\ payRows = NoPlan
  /\ allocRows = NoPlan
  /\ mirror = NoPlan
  /\ kmo = NoPlan
  /\ revPosted = NoPlan
  /\ gl = [ar |-> 0, revenue |-> 0, cash |-> 0, bank |-> 0, fx |-> 0,
            payable |-> Payable]
  /\ matched = [l \in Lines |-> 0]
  /\ booked = [l \in Lines |-> 0]
  /\ logs = [i \in Invoices |-> [pending |-> 0, completed |-> 0]]
  /\ tx = [w \in Workers |-> Idle]
  /\ served = 0

--------------------------------------------------------------------------------
(* What the handlers compute                                               *)

LeastOf(a, b) == IF a <= b THEN a ELSE b

Remaining(i, row) == Total[i] - row.paid

\* Mutant: an invoice is PAID only when more than its total is paid.
PaymentStatusStrict(i, paid, current) ==
  IF current = "LOCKED_BY_SIGNATURE" THEN current
  ELSE IF paid > Total[i] THEN "PAID"
  ELSE IF paid > 0 THEN "PARTIALLY_PAID"
  ELSE IF current = "DRAFT" THEN "DRAFT" ELSE "SENT"

\* derivePaymentState: the status that a sum of payments gives a row.
PaymentStatus(i, paid, current) ==
  IF current = "LOCKED_BY_SIGNATURE" THEN current
  ELSE IF paid >= Total[i] THEN "PAID"
  ELSE IF paid > 0 THEN "PARTIALLY_PAID"
  ELSE IF current = "DRAFT" THEN "DRAFT" ELSE "SENT"

PaymentReceived(i, paid) == paid >= Total[i]

\* The row with its payment state derived for a given sum of payments.
Derived(i, row, paid) ==
  [row EXCEPT !.status = PaymentStatus(i, paid, row.status),
              !.recv = PaymentReceived(i, paid)]

\* `paidAmount: { increment: a }`, then the state derived from the re-read row.
Paid(i, row, a) ==
  Derived(i, [row EXCEPT !.paid = @ + a], row.paid + a)

\* Mutants: the amount is not capped by what remains; the rounding is taken
\* with the wrong sign.
PaymentUncapped(i, row, a) == a
RoundingSwapped(i, row, a) == LeastOf(a, Remaining(i, row)) - a

\* The part of an amount an invoice takes, and what is left for rounding.
Payment(i, row, a) == LeastOf(a, Remaining(i, row))
Rounding(i, row, a) == a - Payment(i, row, a)
Acceptable(i, row, a) ==
  /\ Payment(i, row, a) > 0
  /\ \/ Rounding(i, row, a) = 0
     \/ i \in ForeignInvoices /\ Rounding(i, row, a) <= Tolerance

\* assertUserMayMutateInvoiceInPaidStatus
MayMutate(role, status) == ~(role = "USER" /\ status = "PAID")

SumOver(f) == FoldFunction(LAMBDA a, b : a + b, 0, f)

Order(op) == IF op = "NET" THEN NetOrder ELSE [k \in Invoices |-> k]

\* The buckets of an amount: the debts are filled in the order of the
\* operation until the amount or the debts are exhausted.
Buckets(op, open, amount, plan) ==
  LET order == Order(op) IN
  /\ \A i \in Invoices : plan[i] <= open[i]
  /\ \A j, k \in Invoices :
       j < k /\ plan[order[k]] > 0 => plan[order[j]] = open[order[j]]
  /\ SumOver(plan) = LeastOf(amount, SumOver(open))

\* Mutant: allocation takes any issued invoice, recognised or not.
OpenIfIssued ==
  [i \in Invoices |->
     IF /\ inv[i].status \notin {"ABSENT", "LOCKED_BY_SIGNATURE"}
        /\ Remaining(i, inv[i]) > 0
     THEN Remaining(i, inv[i]) ELSE 0]

\* allocatePaymentAcrossInvoices reads the paidAmount of recognised invoices.
OpenForAllocation ==
  [i \in Invoices |->
     IF /\ inv[i].rev
        /\ inv[i].status \in {"SENT", "PARTIALLY_PAID", "PAID"}
        /\ Remaining(i, inv[i]) > 0
     THEN Remaining(i, inv[i]) ELSE 0]

\* NettingService sums the InvoicePayment rows instead.
OpenForNetting ==
  [i \in Invoices |->
     IF inv[i].rev /\ Total[i] > payRows[i] THEN Total[i] - payRows[i] ELSE 0]

--------------------------------------------------------------------------------
(* Steps every request shares                                              *)

Locked(i) == \E w \in Workers : i \in tx[w].held
InFlight == {w \in Workers : tx[w].pc # "idle"}

At(w, op, pc) == tx[w].req.op \in op /\ tx[w].pc = pc
Goto(w, pc) == tx' = [tx EXCEPT ![w].pc = pc]
ReadThen(w, row, pc) == tx' = [tx EXCEPT ![w].pc = pc, ![w].seen = row]
Finish(w) == tx' = [tx EXCEPT ![w] = Idle]

\* The request is rejected or its transaction committed nothing.
Reject(w) == Finish(w) /\ UNCHANGED <<inv, books, otherRows, served>>
Proceed == UNCHANGED <<inv, books, otherRows, served>>

\* InvoicesService.create: a DRAFT with the total of its items.
Create(i) ==
  /\ inv[i].status = "ABSENT"
  /\ inv' = [inv EXCEPT ![i].status = "DRAFT"]
  /\ UNCHANGED <<books, otherRows, tx, served>>

FirstPc(op) ==
  CASE op \in {"SENT", "PAID", "PAY"} -> "head"
    [] op = "MATCH" -> "line"
    [] op = "ALLOC" -> "snapshot"
    [] op = "NET"   -> "check"
    [] op = "SIGN" -> "sign"
    [] op = "CONFIRM" -> "confirm"

Arrive(w, r) ==
  /\ tx[w].pc = "idle"
  /\ Cardinality(InFlight) < MaxInFlight
  /\ served < MaxRequests
  /\ r.op \in {"ALLOC", "NET"} \/ inv[r.inv].status # "ABSENT"
  /\ tx' = [tx EXCEPT ![w].pc = FirstPc(r.op), ![w].req = r]
  /\ served' = served + 1
  /\ UNCHANGED <<inv, books, otherRows>>

\* A journal refused (closed period, unknown account), a lost connection or a
\* deadlock broken by the database: the transaction is rolled back.
Abort(w) == tx[w].pc # "idle" /\ Reject(w)

\* The payment, the allocation, the mirror line and the cash order that
\* applyPaymentInTransaction creates; `cash` is a debit account 101*.
BookPayment(i, a, cash, mirrored) ==
  /\ payRows' = [payRows EXCEPT ![i] = @ + a]
  /\ allocRows' = [allocRows EXCEPT ![i] = @ + a]
  /\ mirror' = IF mirrored THEN [mirror EXCEPT ![i] = @ + a] ELSE mirror
  /\ kmo' = IF cash THEN [kmo EXCEPT ![i] = @ + a] ELSE kmo

Debit(balances, cash, a) ==
  IF cash THEN [balances EXCEPT !.cash = @ + a]
          ELSE [balances EXCEPT !.bank = @ + a]

\* Its journals: Dr 211 / Cr 601 when the revenue of i is recognised with it,
\* Dr 101|221 / Cr 211 for the payment, Dr 101|221 / Cr FX for the rounding.
Post(i, recognise, a, rounding, cash) ==
  /\ revPosted' = IF recognise THEN [revPosted EXCEPT ![i] = @ + 1]
                               ELSE revPosted
  /\ gl' = LET t == IF recognise THEN Total[i] ELSE 0
           IN Debit([gl EXCEPT !.ar = @ + t - a, !.revenue = @ + t,
                               !.fx = @ + rounding], cash, a + rounding)

--------------------------------------------------------------------------------
(* updateStatus: PATCH .../status                                          *)

ReadHead(w) ==
  /\ At(w, {"SENT", "PAID", "PAY"}, "head")
  /\ IF MayMutate(tx[w].req.role, inv[tx[w].req.inv].status)
     THEN Goto(w, "read") /\ Proceed
     ELSE Reject(w)

ReadForSent(w) ==
  /\ At(w, {"SENT"}, "read")
  /\ LET row == inv[tx[w].req.inv]
     IN IF row.status = "LOCKED_BY_SIGNATURE" \/ row.paid > 0
        THEN Reject(w)
        ELSE ReadThen(w, row, "write") /\ Proceed

\* Mutant: the revenue is posted whether or not it was.
WriteSentAlwaysPosts(w) ==
  LET i == tx[w].req.inv IN
  /\ At(w, {"SENT"}, "write")
  /\ ~Locked(i)
  /\ inv' = [inv EXCEPT ![i].status = "SENT", ![i].rev = TRUE]
  /\ Post(i, TRUE, 0, 0, FALSE)
  /\ Finish(w)
  /\ UNCHANGED <<payRows, allocRows, mirror, kmo, otherRows, served>>

WriteSent(w) ==
  LET i == tx[w].req.inv IN
  /\ At(w, {"SENT"}, "write")
  /\ ~Locked(i)
  /\ inv' = [inv EXCEPT ![i].status = "SENT", ![i].rev = @ \/ ~tx[w].seen.rev]
  /\ Post(i, ~tx[w].seen.rev, 0, 0, FALSE)
  /\ Finish(w)
  /\ UNCHANGED <<payRows, allocRows, mirror, kmo, otherRows, served>>

\* With nothing to recognise and nothing to pay, no row is locked before the
\* last update: the re-read is a step of its own ("refresh").
ReadForPaid(w) ==
  /\ At(w, {"PAID"}, "read")
  /\ LET i == tx[w].req.inv
         row == inv[i]
     IN IF row.status = "LOCKED_BY_SIGNATURE"
        THEN Reject(w)
        ELSE /\ ReadThen(w, row, IF row.rev /\ Remaining(i, row) <= 0
                                 THEN "refresh" ELSE "write")
             /\ Proceed

WritePaid(w) ==
  LET i == tx[w].req.inv
      rest == Remaining(i, tx[w].seen)
      a == IF rest > 0 THEN rest ELSE 0
  IN
  /\ At(w, {"PAID"}, "write")
  /\ ~Locked(i)
  /\ inv' = [inv EXCEPT ![i] = [Paid(i, @, a) EXCEPT !.rev = TRUE]]
  /\ BookPayment(i, a, i \in CashInvoices, TRUE)
  /\ Post(i, ~tx[w].seen.rev, a, 0, i \in CashInvoices)
  /\ Finish(w)
  /\ UNCHANGED <<otherRows, served>>

RefreshPaid(w) ==
  /\ At(w, {"PAID"}, "refresh")
  /\ ReadThen(w, inv[tx[w].req.inv], "rewrite")
  /\ Proceed

RewritePaid(w) ==
  LET i == tx[w].req.inv
      row == Derived(i, tx[w].seen, tx[w].seen.paid)
  IN
  /\ At(w, {"PAID"}, "rewrite")
  /\ ~Locked(i)
  /\ inv' = [inv EXCEPT ![i].status = row.status, ![i].recv = row.recv,
                        ![i].rev = TRUE]
  /\ Finish(w)
  /\ UNCHANGED <<books, otherRows, served>>

--------------------------------------------------------------------------------
(* recordPayment: POST .../payments                                        *)

\* Mutant: a signed invoice takes payments.
ReadForPaymentSigned(w) ==
  /\ At(w, {"PAY"}, "read")
  /\ LET i == tx[w].req.inv
     IN IF inv[i].rev /\ Acceptable(i, inv[i], tx[w].req.amount)
        THEN ReadThen(w, inv[i], "write") /\ Proceed
        ELSE Reject(w)

ReadForPayment(w) ==
  /\ At(w, {"PAY"}, "read")
  /\ LET i == tx[w].req.inv
         row == inv[i]
     IN IF /\ row.status # "LOCKED_BY_SIGNATURE"
           /\ row.rev
           /\ Acceptable(i, row, tx[w].req.amount)
        THEN ReadThen(w, row, "write") /\ Proceed
        ELSE Reject(w)

\* Mutants: paidAmount is written as computed from the first read; so are the
\* status and paymentReceived.
WritePaymentAbsolute(w) ==
  LET i == tx[w].req.inv
      a == Payment(i, tx[w].seen, tx[w].req.amount)
      rounding == Rounding(i, tx[w].seen, tx[w].req.amount)
  IN
  /\ At(w, {"PAY"}, "write")
  /\ ~Locked(i)
  /\ inv' = [inv EXCEPT ![i] = Paid(i, tx[w].seen, a)]
  /\ BookPayment(i, a, tx[w].req.cash, TRUE)
  /\ Post(i, FALSE, a, rounding, tx[w].req.cash)
  /\ Finish(w)
  /\ UNCHANGED <<otherRows, served>>
WritePaymentStaleStatus(w) ==
  LET i == tx[w].req.inv
      a == Payment(i, tx[w].seen, tx[w].req.amount)
      rounding == Rounding(i, tx[w].seen, tx[w].req.amount)
  IN
  /\ At(w, {"PAY"}, "write")
  /\ ~Locked(i)
  /\ inv' = [inv EXCEPT ![i] = [Paid(i, tx[w].seen, a)
                                  EXCEPT !.paid = inv[i].paid + a]]
  /\ BookPayment(i, a, tx[w].req.cash, TRUE)
  /\ Post(i, FALSE, a, rounding, tx[w].req.cash)
  /\ Finish(w)
  /\ UNCHANGED <<otherRows, served>>

WritePayment(w) ==
  LET i == tx[w].req.inv
      a == Payment(i, tx[w].seen, tx[w].req.amount)
      rounding == Rounding(i, tx[w].seen, tx[w].req.amount)
  IN
  /\ At(w, {"PAY"}, "write")
  /\ ~Locked(i)
  /\ inv' = [inv EXCEPT ![i] = Paid(i, @, a)]
  /\ BookPayment(i, a, tx[w].req.cash, TRUE)
  /\ Post(i, FALSE, a, rounding, tx[w].req.cash)
  /\ Finish(w)
  /\ UNCHANGED <<otherRows, served>>

--------------------------------------------------------------------------------
(* confirmMatch: a bank statement line pays an invoice                     *)

\* Mutant: a matched line may be matched again.
ReadLineAnyMatch(w) ==
  At(w, {"MATCH"}, "line") /\ Goto(w, "matchInvoice") /\ Proceed

ReadLine(w) ==
  /\ At(w, {"MATCH"}, "line")
  /\ IF matched[tx[w].req.line] = 0
     THEN Goto(w, "matchInvoice") /\ Proceed
     ELSE Reject(w)

ReadMatchInvoice(w) ==
  /\ At(w, {"MATCH"}, "matchInvoice")
  /\ LET status == inv[tx[w].req.inv].status
     IN IF status = "LOCKED_BY_SIGNATURE"
        THEN Reject(w)
        ELSE /\ Goto(w, IF status = "PAID" THEN "mark" ELSE "apply")
             /\ Proceed

\* An invoice already PAID: the line is marked, nothing is posted.
MarkLine(w) ==
  /\ At(w, {"MATCH"}, "mark")
  /\ matched' = [matched EXCEPT ![tx[w].req.line] = tx[w].req.inv]
  /\ Finish(w)
  /\ UNCHANGED <<inv, books, booked, logs, served>>

\* The first read of applyBankPaymentInTransaction.
ReadForBank(w) ==
  /\ At(w, {"MATCH"}, "apply")
  /\ LET row == inv[tx[w].req.inv]
     IN IF row.status = "LOCKED_BY_SIGNATURE"
        THEN Reject(w)
        ELSE /\ ReadThen(w, row, IF row.rev THEN "remaining" ELSE "recognise")
             /\ Proceed

\* Its second read, which the remaining amount is computed from.
ReadRemaining(w) ==
  /\ At(w, {"MATCH"}, "remaining")
  /\ LET i == tx[w].req.inv
     IN IF Acceptable(i, inv[i], LineAmount[tx[w].req.line])
        THEN ReadThen(w, inv[i], "write") /\ Proceed
        ELSE Reject(w)

\* Mutant: the line is mirrored in the bank register, as a payment entered by
\* hand is.
SettleLineMirrored(w, before, read, recognise) ==
  LET i == tx[w].req.inv
      l == tx[w].req.line
      a == Payment(i, read, LineAmount[l])
      rounding == Rounding(i, read, LineAmount[l])
  IN
  /\ ~Locked(i)
  /\ inv' = [inv EXCEPT ![i] = Paid(i, before, a)]
  /\ BookPayment(i, a, i \in CashInvoices, TRUE)
  /\ Post(i, recognise, a, rounding, i \in CashInvoices)
  /\ matched' = [matched EXCEPT ![l] = i]
  /\ booked' = [booked EXCEPT ![l] = @ + 1]
  /\ Finish(w)
  /\ UNCHANGED <<logs, served>>

\* The payment of a line on the row `before`, whose remaining amount was
\* computed from the row `read`; then the line is marked as matched.
SettleLine(w, before, read, recognise) ==
  LET i == tx[w].req.inv
      l == tx[w].req.line
      a == Payment(i, read, LineAmount[l])
      rounding == Rounding(i, read, LineAmount[l])
  IN
  /\ ~Locked(i)
  /\ inv' = [inv EXCEPT ![i] = Paid(i, before, a)]
  /\ BookPayment(i, a, i \in CashInvoices, FALSE)
  /\ Post(i, recognise, a, rounding, i \in CashInvoices)
  /\ matched' = [matched EXCEPT ![l] = i]
  /\ booked' = [booked EXCEPT ![l] = @ + 1]
  /\ Finish(w)
  /\ UNCHANGED <<logs, served>>

WriteBank(w) ==
  /\ At(w, {"MATCH"}, "write")
  /\ SettleLine(w, inv[tx[w].req.inv], tx[w].seen, FALSE)

\* Revenue first: its update locks the row, so the second read is up to date.
RecogniseAndWriteBank(w) ==
  LET i == tx[w].req.inv
      row == [inv[i] EXCEPT !.rev = TRUE, !.status = "SENT"]
  IN
  /\ At(w, {"MATCH"}, "recognise")
  /\ IF Acceptable(i, row, LineAmount[tx[w].req.line])
     THEN SettleLine(w, row, row, TRUE)
     ELSE ~Locked(i) /\ Reject(w)

--------------------------------------------------------------------------------
(* allocatePaymentAcrossInvoices and createNetting: several invoices       *)

\* The invoices are read once, and the buckets computed from them.
PlanBuckets(w, open) ==
  \E applied \in 0..tx[w].req.amount,
     plan \in [Invoices -> 0..tx[w].req.amount] :
    /\ Buckets(tx[w].req.op, open, tx[w].req.amount, plan)
    /\ applied = SumOver(plan)
    /\ tx' = [tx EXCEPT ![w].pc = "bucketRead", ![w].plan = plan,
                         ![w].applied = applied, ![w].pos = 1]

ReadCandidates(w) ==
  /\ At(w, {"ALLOC"}, "snapshot")
  /\ IF \A i \in Invoices : OpenForAllocation[i] = 0
     THEN Reject(w)
     ELSE PlanBuckets(w, OpenForAllocation) /\ Proceed

\* The reads of createNetting before its transaction: at most the lesser of
\* the receivable and of the payable may be netted.
CheckNetting(w) ==
  /\ At(w, {"NET"}, "check")
  /\ IF tx[w].req.amount <= LeastOf(SumOver(OpenForNetting), gl.payable)
     THEN Goto(w, "snapshot") /\ Proceed
     ELSE Reject(w)

ReadNettingInvoices(w) ==
  /\ At(w, {"NET"}, "snapshot")
  /\ PlanBuckets(w, OpenForNetting)
  /\ Proceed

\* Mutant: a cash receipt settles the debts from the last one.
BucketCashLast(w) ==
  Order(tx[w].req.op)[IF tx[w].req.cash THEN NInvoices + 1 - tx[w].pos ELSE tx[w].pos]

Bucket(w) == Order(tx[w].req.op)[tx[w].pos]

\* Mutant: the loop does not move past an invoice without a bucket.
ReadBucketStuck(w) ==
  /\ At(w, {"ALLOC", "NET"}, "bucketRead")
  /\ Proceed
  /\ IF tx[w].pos > NInvoices
     THEN Goto(w, "commit")
     ELSE /\ tx[w].plan[Bucket(w)] > 0
          /\ ReadThen(w, inv[Bucket(w)], "bucketWrite")

\* Re-reads the invoice of the bucket; skips invoices without one. Netting
\* derives the state from payment rows: those committed and its own.
ReadBucket(w) ==
  /\ At(w, {"ALLOC", "NET"}, "bucketRead")
  /\ Proceed
  /\ IF tx[w].pos > NInvoices
     THEN Goto(w, "commit")
     ELSE LET i == Bucket(w)
              sum == IF tx[w].req.op = "NET"
                     THEN payRows[i] + tx[w].plan[i]
                     ELSE inv[i].paid + tx[w].plan[i]
          IN IF tx[w].plan[i] = 0
             THEN tx' = [tx EXCEPT ![w].pos = @ + 1]
             ELSE ReadThen(w, Derived(i, [inv[i] EXCEPT !.paid = sum], sum),
                           "bucketWrite")

\* The update waits for the row lock. Allocation writes paidAmount as computed
\* from its read; netting leaves paidAmount as it is.
WriteBucket(w) ==
  LET i == Bucket(w)
      seen == tx[w].seen
      row == [inv[i] EXCEPT !.status = seen.status, !.recv = seen.recv,
                !.paid = IF tx[w].req.op = "NET" THEN @ ELSE seen.paid]
  IN
  /\ At(w, {"ALLOC", "NET"}, "bucketWrite")
  /\ ~Locked(i)
  /\ tx' = [tx EXCEPT ![w].pc = "bucketRead", ![w].pos = @ + 1,
                      ![w].seen = AbsentRow,
                      ![w].held = @ \cup {i}, ![w].fresh[i] = row]
  /\ Proceed

PublishRows(w) ==
  inv' = [i \in Invoices |-> IF i \in tx[w].held THEN tx[w].fresh[i] ELSE inv[i]]

AddPlan(w, rows) == [i \in Invoices |-> rows[i] + tx[w].plan[i]]

\* Mutant: the journal is posted for the amount asked for, not for the buckets.
CommitAllocationRequested(w) ==
  /\ At(w, {"ALLOC"}, "commit")
  /\ PublishRows(w)
  /\ payRows' = AddPlan(w, payRows)
  /\ allocRows' = AddPlan(w, allocRows)
  /\ gl' = Debit([gl EXCEPT !.ar = @ - tx[w].req.amount], tx[w].req.cash,
                 tx[w].req.amount)
  /\ Finish(w)
  /\ UNCHANGED <<mirror, kmo, revPosted, otherRows, served>>

\* One journal Dr 101|221 / Cr 211 for the sum of the buckets; no mirror line
\* and no cash order.
CommitAllocation(w) ==
  LET sum == tx[w].applied IN
  /\ At(w, {"ALLOC"}, "commit")
  /\ PublishRows(w)
  /\ payRows' = AddPlan(w, payRows)
  /\ allocRows' = AddPlan(w, allocRows)
  /\ gl' = Debit([gl EXCEPT !.ar = @ - sum], tx[w].req.cash, sum)
  /\ Finish(w)
  /\ UNCHANGED <<mirror, kmo, revPosted, otherRows, served>>

\* One journal Dr 531 / Cr 211; InvoicePayment rows but no PaymentAllocation.
\* An amount the candidates could not take fails the transaction.
CommitNetting(w) ==
  LET a == tx[w].req.amount IN
  /\ At(w, {"NET"}, "commit")
  /\ IF tx[w].applied < a
     THEN Reject(w)
     ELSE /\ PublishRows(w)
          /\ payRows' = AddPlan(w, payRows)
          /\ gl' = [gl EXCEPT !.ar = @ - a, !.payable = @ - a]
          /\ Finish(w)
          /\ UNCHANGED <<allocRows, mirror, kmo, revPosted, otherRows, served>>

--------------------------------------------------------------------------------
(* initiateInvoiceSignature, and the confirmation that locks the invoice   *)

ReadForSignature(w) ==
  /\ At(w, {"SIGN"}, "sign")
  /\ IF inv[tx[w].req.inv].status = "LOCKED_BY_SIGNATURE"
     THEN Reject(w)
     ELSE Goto(w, "signed") /\ Proceed

ReadCompletedLog(w) ==
  /\ At(w, {"SIGN"}, "signed")
  /\ IF logs[tx[w].req.inv].completed > 0
     THEN Reject(w)
     ELSE Goto(w, "clear") /\ Proceed

\* No transaction: each statement commits on its own.
ClearPendingLogs(w) ==
  /\ At(w, {"SIGN"}, "clear")
  /\ logs' = [logs EXCEPT ![tx[w].req.inv].pending = 0]
  /\ Goto(w, "create")
  /\ UNCHANGED <<inv, books, lineVars, served>>

CreatePendingLog(w) ==
  /\ At(w, {"SIGN"}, "create")
  /\ logs' = [logs EXCEPT ![tx[w].req.inv].pending = @ + 1]
  /\ Finish(w)
  /\ UNCHANGED <<inv, books, lineVars, served>>

\* tryFinalizeMockSignature: the log is completed only while it is pending,
\* then the invoice is locked whatever its status is.
ConfirmSignature(w) ==
  LET i == tx[w].req.inv IN
  /\ At(w, {"CONFIRM"}, "confirm")
  /\ IF logs[i].pending = 0
     THEN Reject(w)
     ELSE /\ ~Locked(i)
          /\ logs' = [logs EXCEPT ![i].pending = @ - 1, ![i].completed = @ + 1]
          /\ inv' = [inv EXCEPT ![i].status = "LOCKED_BY_SIGNATURE"]
          /\ Finish(w)
          /\ UNCHANGED <<books, lineVars, served>>

--------------------------------------------------------------------------------
(* Waiting for rows                                                        *)

Waits(w) ==
  IF tx[w].pc = "bucketWrite" THEN {Bucket(w)}
  ELSE IF tx[w].pc \in {"write", "rewrite", "recognise", "confirm"}
       THEN {tx[w].req.inv} ELSE {}

\* Two transactions wait for rows that the other one holds. PostgreSQL notices
\* and rolls one of them back.
Deadlocked(w) ==
  \E v \in Workers \ {w} : /\ Waits(v) \cap tx[w].held # {}
                          /\ Waits(w) \cap tx[v].held # {}
BreakDeadlock(w) == Deadlocked(w) /\ Abort(w)

--------------------------------------------------------------------------------
UpdateStatus(w) ==
  \/ ReadForSent(w) \/ WriteSent(w)
  \/ ReadForPaid(w) \/ WritePaid(w) \/ RefreshPaid(w) \/ RewritePaid(w)
RecordPayment(w) == ReadForPayment(w) \/ WritePayment(w)
ConfirmMatch(w) ==
  \/ ReadLine(w) \/ ReadMatchInvoice(w) \/ MarkLine(w) \/ ReadForBank(w)
  \/ ReadRemaining(w) \/ WriteBank(w) \/ RecogniseAndWriteBank(w)
SettleMany(w) ==
  \/ ReadCandidates(w) \/ CheckNetting(w) \/ ReadNettingInvoices(w)
  \/ ReadBucket(w) \/ WriteBucket(w) \/ CommitAllocation(w) \/ CommitNetting(w)
Sign(w) ==
  \/ ReadForSignature(w) \/ ReadCompletedLog(w) \/ ClearPendingLogs(w)
  \/ CreatePendingLog(w) \/ ConfirmSignature(w)

\* A step of the request that worker w serves.
Serve(w) ==
  ReadHead(w) \/ UpdateStatus(w) \/ RecordPayment(w) \/ ConfirmMatch(w)
  \/ SettleMany(w) \/ Sign(w)

Next ==
  \/ \E i \in Invoices : Create(i)
  \/ \E w \in Workers : \E r \in Requests : Arrive(w, r)
  \/ \E w \in Workers : Serve(w)
  \/ \E w \in Workers : Abort(w)

Spec == Init /\ [][Next]_vars

\* Node and PostgreSQL serve the requests they have accepted, and PostgreSQL
\* breaks deadlocks; users need not send requests, and nothing need fail.
FairSpec ==
  Spec /\ \A w \in Workers : WF_vars(Serve(w)) /\ WF_vars(BreakDeadlock(w))

--------------------------------------------------------------------------------
(* Properties                                                              *)

\* Every variable has the type its declaration says, and rows a transaction
\* has written without committing belong to that transaction alone.
TypeOK ==
  /\ inv \in [Invoices -> Row]
  /\ payRows \in [Invoices -> Nat]
  /\ allocRows \in [Invoices -> Nat]
  /\ mirror \in [Invoices -> Nat]
  /\ kmo \in [Invoices -> Nat]
  /\ revPosted \in [Invoices -> Nat]
  /\ gl \in [ar : Int, revenue : Nat, cash : Nat, bank : Nat, fx : Nat,
             payable : Int]
  /\ matched \in [Lines -> Invoices \cup {0}]
  /\ booked \in [Lines -> Nat]
  /\ logs \in [Invoices -> [pending : Nat, completed : Nat]]
  /\ tx \in [Workers -> Tx]
  /\ served \in Nat
  /\ \A v, w \in Workers : v # w => tx[v].held \cap tx[w].held = {}

\* However requests interleave, account 211 holds the recognised revenue that
\* the InvoicePayment rows do not cover: netting and allocation post one journal
\* for many rows, and the rows are written from reads that may be stale.
LedgerBacksReceivables ==
  gl.ar = SumOver([i \in Invoices |-> revPosted[i] * Total[i] - payRows[i]])

\* Money is never collected against an invoice whose revenue is not in the
\* ledger, though the flag is read before the write that relies on it.
RevenueBeforePayment ==
  \A i \in Invoices : payRows[i] > 0 => revPosted[i] > 0

\* Invoice.paidAmount is the cached sum of the invoice's payments (TZ 12.2).
PaidIsSumOfPayments ==
  \A i \in Invoices : inv[i].paid = payRows[i]

\* Concurrent payments may leave the status behind, but never ahead: a PAID
\* invoice is covered, a PARTIALLY_PAID one is paid in part, and
\* paymentReceived says whether the amount paid covers the total.
StatusNeverAheadOfMoney ==
  \A i \in Invoices :
    /\ inv[i].status = "PAID" => payRows[i] >= Total[i]
    /\ inv[i].status = "PARTIALLY_PAID" => payRows[i] \in 1..(Total[i] - 1)
    /\ inv[i].recv = (payRows[i] >= Total[i])

\* The bank register (mirror lines and imported lines that were posted) and
\* the cash orders differ from the accounts 101 and 221 by rounding at most.
RegistersMatchMoney ==
  /\ gl.cash + gl.bank
       - SumOver(mirror) - SumOver([l \in Lines |-> booked[l] * LineAmount[l]])
       \in 0..gl.fx
  /\ gl.cash - SumOver(kmo) \in 0..gl.fx

\* Requests served one at a time recognise the revenue of an invoice once.
\* (schema.prisma: revenuePostedTransactionId is "for idempotent posting".)
RevenueOnce == \A i \in Invoices : revPosted[i] = IF inv[i].rev THEN 1 ELSE 0

\* What netting has set off against an invoice: it writes InvoicePayment rows
\* and no PaymentAllocation.
Netted == [i \in Invoices |-> payRows[i] - allocRows[i]]

\* Requests served one at a time never collect more money than an invoice's
\* total, nor net more. The two together may exceed it: netting leaves
\* paidAmount as it is, and the remaining amount is computed from paidAmount.
PaidWithinTotal ==
  \A i \in Invoices : allocRows[i] <= Total[i] /\ Netted[i] \in 0..Total[i]

\* Requests served one at a time leave every unsigned invoice with the status
\* that its revenue gives it and either the money collected or all its payment
\* rows, netting included: the operations differ in which of the two they use.
StatusTellsMoney ==
  \A i \in Invoices :
    \/ inv[i].status \in {"ABSENT", "LOCKED_BY_SIGNATURE"}
    \/ \E sum \in {allocRows[i], payRows[i]} :
         inv[i].status = IF ~inv[i].rev THEN "DRAFT"
                         ELSE IF sum >= Total[i] THEN "PAID"
                         ELSE IF sum > 0 THEN "PARTIALLY_PAID" ELSE "SENT"

\* The part of a line that an invoice must have taken if the line was booked.
LeastTaken(i, l) ==
  IF matched[l] = i
  THEN booked[l] * (LineAmount[l] - (IF i \in ForeignInvoices THEN Tolerance ELSE 0))
  ELSE 0

\* Requests served one at a time book a bank statement line at most once, and
\* on the invoice it is matched to: the lines matched to an invoice and booked
\* are covered, up to rounding, by its allocations that no mirror line explains.
LineBookedOnce ==
  /\ \A l \in Lines : booked[l] <= 1 /\ (booked[l] = 1 => matched[l] # 0)
  /\ \A i \in Invoices :
       SumOver([l \in Lines |-> LeastTaken(i, l)]) <= allocRows[i] - mirror[i]

\* Once an invoice is locked by a signature, no request of those served one at
\* a time changes its status, its revenue or its paidAmount, nor collects money
\* for it ("Invoice is locked by digital signature and cannot be changed").
\* Netting alone still adds payment rows and may set paymentReceived.
SignedRowIsFrozen ==
  [][\A i \in Invoices : inv[i].status = "LOCKED_BY_SIGNATURE"
       => /\ UNCHANGED <<inv[i].status, inv[i].paid, inv[i].rev>>
          /\ UNCHANGED <<allocRows[i], mirror[i], kmo[i], revPosted[i]>>]_vars

\* Requests lock the rows of several invoices in one order, but for netting,
\* which orders invoices due on the same day its own way: when two transactions
\* wait for one another, one allocates and one nets, and the invoices they wait
\* for are two that the orders disagree on.
OnlyTiesDeadlock ==
  \A v, w \in Workers :
    \A i \in Waits(v) \cap tx[w].held, j \in Waits(w) \cap tx[v].held :
      v # w => /\ {tx[v].req.op, tx[w].req.op} = {"ALLOC", "NET"}
               /\ \E p, q \in Invoices : /\ p < q /\ NetOrder[p] > NetOrder[q]
                                         /\ {NetOrder[p], NetOrder[q]} = {i, j}

\* Every request is answered, though it may wait for the rows of another one,
\* and though allocation and netting lock rows in different orders when
\* invoices are due on the same day.
RequestsAnswered == \A w \in Workers : tx[w].pc # "idle" ~> tx[w].pc = "idle"

\* Requests served one at a time implement the abstract receivable.
Abstract == INSTANCE Receivable WITH
  recognised <- {i \in Invoices : inv[i].rev},
  settled <- allocRows,
  netted <- Netted,
  balance <- gl.ar
ImplementsReceivable == Abstract!Spec
================================================================================
