# ERA Finance: TLA+ models and proofs

ERA Finance is a multi-tenant accounting system: a NestJS API (`apps/api`) over
PostgreSQL (Prisma) and Redis (BullMQ queues), with Next.js and browser-extension
front ends. All state of record is in the API's database. This directory models
the parts of the API where money, stock, a closed period or the ownership of an
organisation could be wrong although every single function is right, and proves
some of what the models show.

1. The system and its parts
2. How the database is modelled
3. Receivables: `InvoicePayments`, `Receivable`
4. Months: `PeriodClose`
5. Payment orders: `PaidOrders`, `OrderLife`
6. Stock: `Stock`
7. Ownership: `TenantRecovery`
8. Runs, bounds, fairness
9. Findings
10. Proofs
11. What is not modelled, and the plan

## 1. The system and its parts

Each request is one `async` function of a Node process; several instances run, so
any two requests may interleave between their database statements. Components
share tables rather than messages, so the interactions below are calls made inside
one database transaction, or rows that two components both write.

| component (under `apps/api/src`) | state it keeps | operations that change it | what is hard | what makes it correct |
|---|---|---|---|---|
| Invoices (`invoices`) | `Invoice` (status, `paidAmount`, `revenueRecognized`, `paymentReceived`), `InvoicePayment`, `PaymentAllocation` | create, set status, record payment, allocate across invoices, apply a bank payment | reads without a lock before an update; a cached sum; rounding of foreign amounts | one revenue journal, the cached sum equals the rows, never more than the total, an honest status |
| Bank matching (`banking/bank-match.service.ts`) | `BankStatementLine.isMatched` | confirm a match (by hand, automatically, by AI suggestion) | two confirmations of one line | a line is booked once |
| Bank registry mirror (`banking/banking-registry.helper.ts`) | system-made bank lines | made with a payment entered by hand | written on some paths only | register and ledger agree |
| Netting (`accounting/netting.service.ts`) | payment rows, journal Dr 531 / Cr 211 | create netting | limits read outside the transaction; several invoice rows | receivables stay backed |
| Signature (`signature`) | `DigitalSignatureLog`, `LOCKED_BY_SIGNATURE` | initiate, confirm | statements without a transaction; a status change in flight | signed once, frozen afterwards |
| Cash (`kassa`) | `CashOrder`, advance reports | draft, post, automatic KMO of a cash payment | numbering, double posting | every cash entry has one order |
| Journal (`accounting/accounting.service.ts`) | `Transaction`, `JournalEntry` in two ledgers | post, quick expense | the period check precedes the insertion | nothing in a closed month |
| Reporting (`reporting`) | `AccountBalance`, `isLocked`, `settings.reporting.closedPeriods` | close a month | a long transaction against postings; JSON written whole | closed stays closed; opening balances are right |
| Organisation settings (`organizations`) | `Organization.settings` (JSON) | period lock, inventory settings, general settings | read-modify-write of one document | no other part is lost |
| Depreciation (`fixed-assets`) | `FixedAsset.bookedDepreciation`, `FixedAssetDepreciationMonth` | monthly run (queue, by hand, in a close), immediate usage | the same month twice; two months at once | one charge an asset and month, never below salvage value |
| Currency revaluation (`fx`) | journals, `settings.fxRevaluation` | month-end cron | journal and state commit separately | once a month |
| Payment orders (`billing`) | `PaymentOrder`, subscription end and tier | create, webhook, top-up, settle | payments delivered twice; a settlement on another connection | applied once, acknowledged only when applied |
| Monthly billing (`billing`) | billing invoices, meters, modules | cron and queue, toggle, trial | two schedulers, a retry | one invoice a month; what is used is billed |
| Subscription, quota (`subscription`, `quota`) | subscription row, counters | trial, upgrade, read-only switch | counts checked before an insertion | limits hold |
| Inventory, manufacturing (`inventory`, `stock`, `manufacturing`) | `StockItem` (quantity, average cost), movements, orders | purchase, sale, transfer, adjustment, audit, release | read quantity, then write; cost layers | stock equals its movements and is never negative |
| Payroll (`hr`) | payroll run and slips, timesheets | run, approve, post, pay | a retried job; approval against editing | posted and paid once |
| Platform recovery (`platform-recovery`) | dual-approval requests, disputes, security mode, the owner | open, approve, transfer, counter-claim, expire | stale approvals; three commits of one transfer; the owner acts meanwhile | two different people, executed means done, owners are members |
| Approvals (`approvals`) | approval steps of a document | submit, decide | two approvers at once | nothing posted unapproved |
| Referrals (`referrals`) | referral rows and commissions | monthly worker, clawback | a repeated run | one commission a month |
| Audit trail (`audit`) | hash chain of log rows | append, verify, archive | concurrent appends read the same last hash | an unbroken chain |
| Integrations (`integrations`, `integration`) | runs, circuit state | retry, satellite events | repeats, half-open circuit | an event is applied once |
| Opening balances, bulk import (`migration`, `integrations`) | journals replaced on re-import | import | replace against a concurrent post | one set of opening entries |
| Treasury, prepaid (`treasury`, `prepaid`) | plans, amortisation rows | amortise a month | a repeated run | one charge a month |
| Compliance, tax limit (`compliance`) | alerts; turnover counted from rows | scan | cash counted twice | turnover is right |
| Authentication, guards, organisations, administration, access | users, memberships, sessions | login, invite, role change | little shared state | – |
| Queries, files, remote calls: reports, exports, PDF, OCR, mail, storage, notifications, front ends | none of record, or a cache | – | – | – |

Interactions that matter: a paid order extends the subscription and settles all
organisations of its owner; members join, leave and hand over while a dispute moves
the ownership; a count freezes a warehouse for every other document; payments, nettings and revenue post through the journal;
an invoice paid in cash makes a cash order; revenue recognition takes the cost
snapshot of the inventory; a close runs the depreciation and posts its journal in
the same transaction; close, period lock, inventory settings and revaluation write
the same settings document.

`PROJECT.json` lists every component with its files and what is or is not modelled
of it.

## 2. How the database is modelled

Every `prisma.$transaction` of the repository runs at PostgreSQL's default, READ
COMMITTED. So, in all modules:

* a step reads one committed row (or runs one query) or writes; between two steps
  of a request any step of any other request may come;
* an UPDATE locks its row until the commit. A transaction that updates one row and
  then re-reads it sees its own value: update, re-read and commit are one step.
  What is computed from a read *before* that update stays in `tx[w].seen`;
* a transaction that updates several rows, one after the other, takes a step for
  each. The rows it has written are in `tx[w].held` (others wait for them) and
  their uncommitted versions in `tx[w].fresh`; they show when it commits;
* a helper that is called inside a transaction but uses `this.prisma` runs on another
  connection of the pool: it commits by itself, at once, and waits for the rows the
  calling transaction holds. PostgreSQL sees no cycle in that, and only the time
  Prisma allows an interactive transaction ends it (`Timeout` of `PaidOrders`).
  Deletions inside a transaction do the same, by the soft-delete extension
  (`midway` in `TenantRecovery`);
* what `closePeriod` has written and not committed is in its `tx` record, and other
  requests wait for the rows it has updated (`Held`, `touched`);
* `prisma.x.update({ increment })` adds to the committed value at that moment;
  an update with a computed value overwrites it. The models keep the difference;
* `Abort` ends a request at any step with nothing committed: a validation or
  connection error, a crash, a broken deadlock. What an earlier transaction of the
  same request committed stays.

A worker or handler is a request in service. One worker means requests served one
at a time, which is how the unit tests of the repository run them.

## 3. Receivables: `InvoicePayments`, `Receivable`

State: `inv` (the row's `status`, `paidAmount`, `revenueRecognized`,
`paymentReceived`), the sums of an invoice's `InvoicePayment` rows (`payRows`), of
its `PaymentAllocation` rows (`allocRows`), of its mirror lines (`mirror`) and cash
orders (`kmo`), the number of its revenue journals (`revPosted`), the balances of
211, 601, 101, 221, 531 and exchange differences (`gl`), the match and the number
of postings of a bank line (`matched`, `booked`), and signature logs by status.
Sums stand for rows because every reader of those rows sums them.

| code | actions |
|---|---|
| `InvoicesService.create` | `Create` |
| `updateStatus` to SENT | `ReadHead`, `ReadForSent`, `WriteSent` |
| `updateStatus` to PAID | `ReadHead`, `ReadForPaid`, `WritePaid`; `RefreshPaid`, `RewritePaid` when nothing is left to recognise or to pay, since no row is then locked before the last update |
| `recordPayment` | `ReadHead`, `ReadForPayment`, `WritePayment` |
| `confirmMatch`, `applyBankPaymentInTransaction` | `ReadLine`, `ReadMatchInvoice`, `MarkLine`, `ReadForBank`, `ReadRemaining`, `WriteBank`, `RecogniseAndWriteBank` |
| `allocatePaymentAcrossInvoices` | `ReadCandidates`, `ReadBucket`, `WriteBucket`, `CommitAllocation` |
| `createNetting` | `CheckNetting`, `ReadNettingInvoices`, `ReadBucket`, `WriteBucket`, `CommitNetting` |
| `initiateInvoiceSignature` | `ReadForSignature`, `ReadCompletedLog`, `ClearPendingLogs`, `CreatePendingLog` |
| `tryFinalizeMockSignature` | `ConfirmSignature` |

`BookPayment` and `Post` are `applyPaymentInTransaction` with the journals, mirror
line and KMO it makes. `Derived` is `derivePaymentState`, `Payment`, `Rounding` and
`Acceptable` the cap and tolerance of foreign-currency payments. `Buckets` defines
the FIFO split by what it must satisfy, and TLC finds the plan that does.

Amounts are whole units of the smallest currency unit. VAT lines, IFRS mirrors and
the cost snapshot balance within themselves and are left out. Which line is matched
to which invoice is up to the environment: the code that suggests a pair changes
nothing.

`Receivable` is the specification of the receivable as an accountant would state
it: an invoice is recognised once, settled or netted only after that, money never
exceeds its total, a netting takes no more than is neither settled nor netted, and
account 211 is what is recognised and neither. `ImplementsReceivable` instantiates it
with `recognised <- {i : inv[i].rev}`, `settled <- allocRows` (money makes
`PaymentAllocation` rows), `netted <- Netted` (the payment rows beyond those) and
`balance <- gl.ar`: with requests served one at a time, each commit is one abstract
transaction (an allocation settles, a netting nets several invoices in one) and
everything else stutters. The asymmetry is the code's: netting counts all payment
rows, while money is checked against `paidAmount`, which netting leaves alone. So the
two together may exceed an invoice's total even one request after the other, and
`PaidWithinTotal` and `StatusTellsMoney` state what is left of it.

## 4. Months: `PeriodClose`

State: `settings` (the closed months, the period lock, the month last revalued),
per month the entries of posted documents, depreciation and revaluation, the number
of unlocked transactions and the saved balance, `charges` (the rows of
`FixedAssetDepreciationMonth`) and `booked` (`bookedDepreciation`, in monthly
charges). Months `1..NMonths` lie in the past; one account stands for all of them,
since snapshots and openings are computed for each account alone. A month has two
days, an earlier one and its last, and a date may have a time of day: the lock is
compared as 00:00 UTC of its day (`AfterLock`), the depreciation carries 00:00 of the
last day and the revaluation 12:00, so the lock on a month's last day keeps the one
out and lets the other in.

| code | actions |
|---|---|
| `postJournalInTransaction` | `CheckPeriod` (400 in a closed month, 423 under the lock), `InsertJournal` |
| `applySlRbForClosedMonth` (`runMonthlyDepreciation`) | `ReadAssets`, `ReadMonthRows`, `CheckPeriod`, `ChargeAssets` |
| `closePeriod` | the three above, then `MarkTransactions`, `SumEntries`, `SaveBalances`, `ReadSettings`, `CommitClose` |
| `patchPeriodLock`, `patchSettings`, `patchInventorySettings` | `ReadForUpdate`, `WriteSettings` |
| `FxRevaluationService.runForOrganization` | `ReadForRevaluation`, `CheckPeriod`, `PostRevaluation`, `PersistRevaluation` |
| `trialBalance`, opening balance | `Opening`, an operator |

The journal of a close's own depreciation is locked when it is made and is in its
sums: a transaction reads its own writes. The unique key on asset and month fails
the second insertion (`ChargeAssets` rejects), and a close holds the asset rows it
has updated until it commits. Revaluation journals are not final
(`isFinal = false`), so `History`, which is the sum of final entries, leaves them
out, as the code's queries do. Months are closed in any order, as `closePeriod` closes
whatever month it is given.

## 5. Payment orders: `PaidOrders`, `OrderLife`

State: `order` (`PaymentOrder.status`), `invoiced` (orders a PAID
`SubscriptionInvoice` names), `audits` (records of
`platform.billing.payment_applied`), `until` and `tier` of each organisation's
subscription, what the provider has captured, the answers given (`acked`), the
transaction that holds each row (`lock`) and the request in service (`job`).

| code | actions |
|---|---|
| `createPaymentOrder` | `CreateOrder` |
| `topUpBalance` (Drakaris) | `TopUp`, `LookUp`, `CreateByKey` |
| webhook `paid`, Drakaris callback | `PaidWebhook`, `DrakarisWebhook` |
| webhook `failed` | `FailedWebhook` |
| `finalizePaidOrder` | `ReadOrder`, `MarkPaid`, `ReadExpiry`, `WriteExpiry`, `RecordInvoice`, `Commit` |
| `settleOrganizationsForOwner` | `Activate`, `StampPeriod`, `ResetSpend` |
| `bumpTierAfterIntradayPayment` | `ReadTier`, `LiftBlock`, `RaiseTier` |
| `recordUsage` | `MeterUsage`, `AddUsage`, `StampUsagePeriod` |
| – (Prisma's time, the process) | `Timeout`, `Crash` |

`finalizePaidOrder` awaits the settlement inside its transaction, and the settlement
uses another connection. So rows are locked explicitly here, the writes of the
transaction stay in `job` until it commits, and a transaction that is rolled back for
its time leaves the settlement running (`job[h].open` is then FALSE). The settlement
finds organisations by `Organization.ownerId` only, while the payer of an
organisation without one is its member with the role OWNER: in one kind of
organisation the settlement waits for a row of its own caller, in the other it does
not. Both are in the instance.

`OrderLife` says what an order promises: opened once, then failed, or paid and
applied once. `Life == INSTANCE OrderLife WITH status <- order, applied <- audits`;
settling, locking, acknowledging and metering stutter.

External: row locks, the provider (it delivers what it captured until acknowledged,
and may again), Prisma's transaction time. Left out: orders for one module
(`createProRataModuleOrder` has no caller), the signatures of webhooks, amounts.

## 6. Stock: `Stock`

State: `item` (`StockItem.quantity`) and `moves` (its `StockMovement` rows) for each
warehouse and product, the documents (`settled` invoices, `draft` adjustments,
`count`s, production `order`s), `books` (the accounts of the stock and of work in
progress), `opening` (the version of account 000 an import compares).

A request is two steps, as the code is: everything is read, checked and computed
(`Begin` puts the plan in `job`), and then written in one transaction (`Commit`). The
plan holds the new quantity, computed from the one that was read.

| code | actions |
|---|---|
| `recordWarehouseReceipt`, `adjustStock`, `transferStock` | `Receive`, `AdjustIn`, `AdjustOut`, `Transfer`, then `CommitMove` |
| `recordWarehouseShipment` | `Ship`, `CommitShipment` |
| `importInventory` (opening balances) | `Import`, `CommitImport` |
| `postAdjustment` | `CreateDraft`, `PostDraft`, `CommitDraft` |
| `startCounting`, `setLineFact`, `submitForReview`, `classifyLine`, `complete`, `cancel` | `StartCounting`, `CommitCounting`, `SetFact`, `Submit`, `Classify`, `Complete`, `CommitCount`, `CancelCount` |
| `startOrder`, `completeOrder`, `cancelOrder` | `StartOrder`, `CommitOrder`, `FinishOrder`, `CommitFinish`, `CancelOrder`, `CommitCancel` |
| `releaseProduction` | `Release`, `CommitMove` |
| `assertWarehouseNotUnderReconciliation` | `Frozen`, in the guards of those that call it |

`Layers` is what `fifoIssueUnitCost` computes: the receipts of a cell in the order of
`documentDate`, `createdAt`, less what was issued, oldest first. `BooksMatchStock`
compares it with the accounts, provided documents were dated in the order they were
entered; `LayersCoverStock` needs no such proviso.

The organisation costs by FIFO and does not allow negative stock. Left out: moving
average cost, bins, by-products and overheads of production, the check of closed
periods (section 4), purchases, which post to 201 and move no stock, and
`postSaleInventoryInTransaction`, which nothing calls. A transfer is of one unit, and
a recipe has one component.

## 7. Ownership: `TenantRecovery`

State, of one organisation: `owner` (`ownerId`), `role` (the memberships, soft-deleted
ones as `"removed"`), `mode` (`OrganizationSecurityState`), `dispute` and `request`
(rows of `OwnershipDispute` and `DualApprovalRequest`), `late` (requests past
`expiresAt`), `job`, and three histories: who approved (`said`), what was transferred,
what is in the audit trail.

| code | actions |
|---|---|
| `acceptInvite` | `Join` |
| `transferOwnership` (the owner's hand-over) | `AskHandOver`, `CheckFreeze`, `ReadOwnership`, `ReadSuccessor`, `HandOver` |
| `removeMember` | `AskRemoval`, `CheckFreeze`, `ReadTarget`, `RemoveMember` |
| `openDispute`, `patchDisputeStatusScoped`, `recordCounterClaim` | `OpenDispute`, `PatchDispute`, `CounterClaim` |
| `createRequest` | `CreateRequest` |
| `approve` | `ReadToApprove`, `WriteApproval` |
| `DualApprovalGuard`, `executeTransfer`, `executeIfApproved` | `AskTransfer`, `ReadDispute`, `ReadApproval`, `TransferOwner`, `CommitTransfer`, `AppendAudit`, `MarkExecuted` |
| `verifyAuditChainDaily` | `BlockOrganisation`, at any time |
| – | `PassDeadline`, `Fail` |

The transfer, its entry in the audit trail and the status EXECUTED are three commits.
A HARD transfer removes the incumbent's membership with a `delete`, which the
soft-delete extension turns into an update on another connection: `TransferOwner`
commits it at once, and `CommitTransfer` the rest.

`Parties` restricts the environment: a claimant disputes somebody else, which
`openDispute` does not check. Roles below ADMIN are one, since nothing here tells
them apart. `lockUntil`, `activeDisputeId` and `approvalRequestId` are written and
never read. Left out: snapshots, certificates and mail, the step-up token (a check of
one request), the roll-back of data, which is only queued, and
`markApprovedIfTwoApprovers`, which nothing calls.

## 8. Runs, bounds, fairness

`MCInvoicePayments`, `MCPeriodClose`, `MCPaidOrders`, `MCStock` and
`MCTenantRecovery` give the constants their values.

| run | states | what it shows |
|---|---|---|
| `invoice_serial` | 175 000 | One request at a time, netting included, with failures anywhere: revenue once (`RevenueOnce`), money and netting each within the total (`PaidWithinTotal`), a status that the money or the payment rows give (`StatusTellsMoney`), a line booked once and on its invoice (`LineBookedOnce`), a signed row that takes no money (`SignedRowIsFrozen`), and `Receivable` implemented. |
| `invoice_concurrent` | 100 000 | Two requests in service: payments and matches lose nothing (`PaidIsSumOfPayments`), the status never runs ahead (`StatusNeverAheadOfMoney`), registers agree with the accounts up to rounding (`RegistersMatchMoney`). |
| `invoice_ledger` | 325 000 | Two in service, allocation and netting included, invoices due on the same day: 211 is revenue less payments (`LedgerBacksReceivables`), no payment without revenue (`RevenueBeforePayment`); netting and allocation lock the two invoices in opposite orders and do deadlock, but nothing else does (`OnlyTiesDeadlock`), and with PostgreSQL's detector every request is answered (`RequestsAnswered`). |
| `period_serial` | 894 000 | One request at a time, three months closed in any order and again: months that are closed or before the lock take nothing (`ClosedMonthsAreFrozen`), closed ones stay closed (`ClosedStaysClosed`), a close saves the right snapshot (`CloseTakesSnapshot`), openings after months closed in order are right and stay so whatever else is closed (`OpeningAfterClosedMonths`), no asset is over-depreciated (`NeverOverDepreciated`). |
| `period_concurrent` | 73 000 | Two in service, months in any order: no asset is charged twice (`ChargesAgree`), no snapshot of money rolled back (`SnapshotNeverAhead`). |
| `paid_orders` | 303 000 | Two handlers, deliveries repeated, transactions timed out, handlers that crash: an order is applied once and invoiced (`AppliedOnce`), what is acknowledged was applied (`AckMeansApplied`), no month that was not paid (`OnlyPaidMonths`), `OrderLife` implemented (`OrdersLiveOnce`), and every request ends although it may wait for itself (`NoRequestHangs`). |
| `stock` | 622 000 | One request at a time, each may fail: quantities are what movements add up to, layers cover them, the accounts hold their cost, a counted warehouse rests but for production, documents settle what they say. |
| `recovery` | 225 000 | Two requests in service: two people have approved every transfer (`AuthorisedByTwo`), EXECUTED means transferred and audited (`ExecutedIsDone`), ownership goes to a member (`NewOwnerIsMember`). |
| `invoice_revenue_race`, `period_late_posting`, `paid_orders_tier`, `stock_counted` | up to 15 000 | Each finds the violation of one documented promise (section 9). |

Bounds. Receivables: two invoices with totals 2 and 3, one of them in cash and the
other in a foreign currency with tolerance 1, are the smallest pair with partial
payments, payments above the rest, a rounding that is accepted and one that is not,
and an allocation that fills one debt and part of the next. One bank line of 2 pays
the first invoice in full or the second in part. Three to five requests
(`MaxRequests`) are enough for a request, its conflict and a later request that
notices.

With two invoices, `MCReversed` is the one order of equal due dates in which netting and
allocation disagree; the two workers then lock the rows crosswise.

Months: two are enough for a close against an earlier or later one; three are used
where the order of closed months matters. One asset is bought in the first month and
one in the last, each with a single charge, so that a second charge anywhere is one
too many.

Payment orders: one payer with two organisations, one of each kind (section 5), and
three orders: of two months, for an unlocked ceiling, and a top-up. One is paid until
next month and one is not paid, so an extension starts from the end of the
subscription in one and from today in the other. `TopTier = 1` is reached by the one
unlock there is.

Stock: two warehouses, one invoice of one piece, one draft, two counts of the same
warehouse (interchangeable), one production order, two days; lots of 2, counted
quantities of 1, four movements (`MaxMoves`). A receipt of 2, an issue of 1 and a
count of 1 leave layers that are partly consumed; the order of two days gives
documents dated before others.

Ownership: three super-admins, the requester and two approvers, each of whom may also
approve twice or late; an owner and a claimant who may be a member or an
outsider; one dispute and one request, which may be approved, expired and executed
again; two handlers. The same properties hold with three people and two roles for
those who join.

Every property of a passing run has a mutant of the code in `PROJECT.json` that
breaks it within the same bounds. The theorems of section 10 have no bounds.

Workers, handlers, counts and super-admins are interchangeable, which safety runs use
as a symmetry; the two runs with liveness do not. `CHECK_DEADLOCK FALSE` is set where
users may have nothing more to ask.

Fairness of `InvoicePayments`: weak fairness of `Serve(w)`, since Node and PostgreSQL
execute what they have accepted, and of `BreakDeadlock(w)`, since PostgreSQL rolls a
member of a wait cycle back after `deadlock_timeout`. Of `PaidOrders`: strong fairness
of `Serve(h)`, since PostgreSQL queues those who wait for a row, so that one whose row
is free again and again gets it; and weak fairness of `Timeout(h)`, since Prisma counts
the time of an open transaction whatever it does. Arrivals, failures and crashes are
never forced.

## 9. Findings

Each is a run that must fail, and shows the behaviour in its trace.

* `invoice_revenue_race`: two status changes (or a status change and a bank match)
  read `revenueRecognized = false` and both post Dr 211 / Cr 601, although the
  schema describes the link as "for idempotent posting".
* `period_late_posting`: a posting that read the settings before a close committed
  inserts into the closed month, unlocked and missing from its snapshot.
* `paid_orders_tier`: the settlement of a paid order waits for the organisation's row,
  which its own caller has just updated, until the transaction is rolled back after
  Prisma's time. The order of an organisation that names its owner stays PENDING,
  while the settlement goes on and raises the tier, again at every delivery.
* `stock_counted`: an order in production before the count began is completed during
  it and puts its product into the counted stock, one request at a time. The header of
  inventory-reconciliation-lock.ts, stock.service.ts:16, PRD.md:985 and TZ.md:1109 say
  that every movement is checked; `completeOrder` and `cancelOrder` do not ask.

Behaviour that the models also have and no run is spent on:

Receivables and months.
* A netting adds payment rows and never touches `paidAmount`, which TZ.md calls the
  cached sum of payments; payments, allocation and bank matching compute what is left
  from the cache. So an invoice that was netted is collected again in full, and its
  payment rows exceed its total, with one request after the other.
* A netting does not ask for the signature: it adds payment rows to a signed invoice and
  may set its `paymentReceived` (`SignedRowIsFrozen` names what is left unchanged).
* With two requests in service `PaidWithinTotal`, `StatusTellsMoney`, `LineBookedOnce`
  and `SignedRowIsFrozen` are false: two payments are checked against the same rest, and
  two confirmations of one line both post it.
* `allocatePaymentAcrossInvoices` writes `paidAmount` as computed from its read,
  where the other paths increment: a payment in between disappears from the cache.
  This is why `PaidIsSumOfPayments` is checked without ALLOC.
* A status change that read the invoice before its signature was confirmed overwrites
  `LOCKED_BY_SIGNATURE`; two pending logs of one invoice may both complete.
* Runs of the depreciation for two months read the same `bookedDepreciation`, and
  both charge what remains of an asset: `NeverOverDepreciated` holds only one
  request at a time.
* Another writer of the settings document, or a second close, writes back the closed
  months as they were before a close (TZ.md:362).
* The prompt to close a month offers the latest open one (reporting.service.ts:1196),
  TZ.md:1899 the earliest; closing in that order, an earlier month may still take entries
  that a later snapshot does not have, and nothing refreshes it. A trial balance that
  starts after an open month which follows a closed one leaves the open month out
  (`OpeningIsHistory`, which is stated and false). `OpeningAfterClosedMonths` says which
  openings are right nevertheless: those after a month that was closed when all the
  earlier ones were.
* TZ.md:2380 has every entry up to the period lock refused. accounting.service.ts:132
  compares times, and the lock is 00:00 UTC of its day: with the lock on the last day of
  a month, the revaluation of that month (12:00 UTC) and any document of that day with a
  time are posted (`ClosedMonthsAreFrozen` states the exception).
* A revaluation whose state was not saved after its journal was posted is posted
  again, and revaluation journals never become final.

Payment orders.
* Two orders of one organisation paid at the same time read the same `expiresAt`: the
  months of one are lost. `OnlyPaidMonths` is therefore an upper bound.
* Drakaris' callback is answered with success whatever happened, so a payment whose
  transaction failed is not delivered again (`AckMeansApplied` leaves that entry out).
* An order that was marked FAILED and whose payment arrives later is refused for good.
* The other organisations of the owner are settled before the payment commits, and stay
  so when it does not.

Stock.
* Two requests that move one product overwrite each other's quantity
  (`QuantityIsMovements` fails with two handlers), and an invoice may be shipped twice.
* Two counts of one warehouse run together when two requests start them at once:
  TZ.md:1097 names a partial unique index, `inventory_audits_active_per_warehouse_uidx`,
  that no migration creates, and the plain read of `startCounting` is all there is.
* A count may be cancelled while it is started or completed, and an order completed
  twice, by two requests that read the same status; a fact that is entered after its
  line was classified may give the line the wrong sign.

Ownership.
* `OwnerIsMember` is stated and false, although auth.service.ts:1653 refuses to "remove
  owner": a removal that read the role before the hand-over deletes the new owner's
  membership, and a HARD transfer that fails after its delete leaves the old one
  without a membership.
* An approval computed from an older row puts a request that was APPROVED or EXECUTED
  back to PENDING; two approvals at once count as one.
* Under one request the ownership may be transferred again: when the process stops
  before EXECUTED is written, or two executions overlap.
* A counter-claim that comes between the check of the dispute and the transfer is
  overwritten by EXECUTED; one that comes after the transfer reopens the dispute.
* A crash after the transfer leaves it without its entry in the audit trail.
* `openDispute` overwrites HARD_BLOCK_PLATFORM. POST_TRANSFER_LOCK freezes nothing, and
  nothing sets NORMAL again.
* A claimant who was removed from the organisation cannot be invited again, and every
  transfer to them fails (the unique key counts soft-deleted rows).
* A transfer whose incumbent is not the owner leaves two members with the role OWNER.

## 10. Proofs

All theorems hold for every number of invoices, months, orders, warehouses, people,
workers and requests, from the named assumptions on the constants alone (sets that a
model sums over are finite, amounts are numbers, dates are in range). A theorem
that needs more says so in its `ASSUME`: that requests are served one at a time
(`Serial`, `MaxInFlight <= 1`, `OneHandler`), or that an operation is not used. None
restricts what is asked one request after the other, and each is one without which the
property is false: section 9 or a run shows how.

**`SumTheorems`.** The totals of the models are folds of the community modules, that
is recursions over an element that `CHOOSE` picks. `SumOn(v, S)` is any function on
the subsets of `S` that adds one value at a time (`IsSum`); `SumExists` and `SumsEqual`
say that there is one and that the order does not matter, by the smallest
counterexample (well-foundedness of strict inclusion) since induction over data is out
of reach. `FoldIsSum` identifies the folds with it. The rest is what the proofs below
use: taking out an element (`SumRemove`), changing one value (`SumPoint`), adding and
comparing sums (`SumAdd`, `SumMonotone`), zero and restricted sums.

**`InvoicePaymentsProofs`: `TypeCorrect`** (`Spec => []TypeOK`). The invariant is
`IInv == TxInv /\ RowsInv`. `RowsInv` is `TypeOK` of the rows; `TxInv` types the
workers, says that the rows they hold are disjoint, and adds what makes the type
inductive: a request that is about to pay was given a positive payment by its read
(so sums of payments stay natural numbers, whatever else was paid since), a match
has a line, and the bucket loop stands at an invoice when it writes. One
lemma per action, over a few lemmas on `Payment`, `Derived`, `BookPayment` and
`Post`.

**`InvoiceMoneyProofs`**, for any requests that interleave.
* `PaymentsAreNeverLost`, `StatusIsHonest`, without ALLOC and NET (`NoBatches`), the
  two operations that are known to break the cached sum. The invariant `PayInv` is the
  two properties and what a request remembers: one that skips the payment (`refresh`,
  `rewrite`) saw an invoice with nothing to pay, which stays true since no payment is
  taken back (`OthersUndisturbed`). `RowKeepsPay` and `PaymentKeepsPay` carry the
  argument: increment and re-derivation happen under one row lock.
* `RevenueComesFirst` and `LedgerAlwaysBacks`, for all operations. `RevInv`: a request
  past its revenue check saw an invoice whose revenue is in the ledger, which stays so,
  and the buckets a batch plans add up to what its one journal posts (`PlanAddsUp`); with it each commit moves 211 by what it adds to the owed amounts
  (`SumPoint`).
* `RegistersFollowMoney`, without ALLOC, which makes no mirror line. The property is
  inductive with `TypeOK`.
* `OnlyTiesEverDeadlock`, for all operations and any order of due dates. `HeldInv`: a
  batch holds rows of positions it has passed only, and nobody else holds a row while it
  waits. So whoever is in a cycle of two is a batch (`WaitingFacts`), and waits for a row
  that comes later in its own order than the one it holds: two batches with the same
  order cannot, and an allocation and a netting only for invoices on which the orders
  disagree (`CyclesAreTies`).

**`InvoiceSerialProofs`**, one request at a time (`Serial`), netting and every other
operation included: `RevenueIsRecognisedOnce`, `NoInvoiceIsOverpaid`,
`StatusFollowsMoney`, `LinesAreBookedOnce`, `SignedRowsStay` from one invariant,
`SerialInv`. Row, payment rows, allocations and revenue journal of each invoice agree
(`RowExact`): `paidAmount` is what was collected, netting the rest of the payment rows,
each within the total, and the status that of one of the two sums, since an operation
derives it from the sum it reads. The allocations of an invoice that no mirror line
explains cover the lines booked on it (`LinesExact`). What the request in service has
read is still so (`Knows`); for a batch that is its plan, which fits what is open by the
operation's own count (`Fits`) and is partly written to rows that are not committed
(`LoopAt`). **`ReceivableIsImplemented`** is the refinement: with
`LedgerBacksReceivables`, every commit is a step of `Receivable`, a batch settling or
netting all the invoices of its plan at once.

**`PeriodCloseProofs`.**
* `ChargesAlwaysAgree`, concurrent. Inductive only with `HeldInv`: a close that has
  charged its assets and not committed is alone on their rows, and its month is still
  missing there. `HoldStep` establishes it from the wait and the unique key, `BookStep`
  uses it for the commit (cardinalities of the asset and month sets grow by what is
  booked), `QuietStep` covers all other steps.
* `SnapshotsAreNeverAhead`, `PeriodTypes`, concurrent. `BalanceInv`: what a close has
  summed is no more than the entries there are now and its own (`SumFits`, entries only
  grow), and the transactions it locks are unlocked still (`MarksFit`). The latter is
  why `unlocked` never falls below zero, and it needs that two closes of one month do
  not both have some (`Apart`), which holds because the first one holds the rows
  (`touched`), and a month with unlocked transactions has rows (`Touchable`).
* One request at a time and finitely many workers: `SerialClosedStaysClosed`,
  `SerialClosedMonthsAreFrozen` from `SerialInv` (whoever is about to write the settings
  has read them as they are, whoever is about to post was let in by them);
  `AssetsAreNotOverDepreciated`, `SerialCloseTakesSnapshot` from `KnowsInv` (assets as
  read, planned charges still due, the sum still that of all the entries). A snapshot
  that is not written because its sum is zero was zero before: that case needs
  `SnapshotNeverAhead`.
  What `SerialClosedMonthsAreFrozen` leaves out is the day of the lock itself (section 9).
* `SerialOpeningAfterClosedMonths`, months closed in any order. `ClosedOpensRight`: the
  close of a month whose predecessors are closed saves the balance of all the entries
  before the next. `OpensRightStays`: months up to it are closed and take nothing more
  (`FrozenTotal`), its snapshot is saved again only by a close that sums the same entries
  (`SavedByCommit`), and closes of other months do not change which snapshot the trial
  balance starts from.

**`PaidOrdersProofs`: `OrderTypes`, `OrderAppliedOnce`, `AcknowledgedIsApplied`,
`OrdersImplementLife`** (the refinement of `OrderLife`). The invariant adds
`HoldersOwnTheirOrders`: a transaction that has marked its order, and was not rolled
back, holds the order's row, and the others see the order PENDING. A guarded update
without the row lock, or a lock that a timeout does not release with the transaction,
would break it. `EveryStepIsAnOrderStep` is the one lemma that looks at every action;
`AppliedOnce` and the refinement follow from it, since an order step is either a step
of `OrderLife` or leaves `order` and `audits` as they are. **`OnlyPaidMonthsAreGiven`**
adds `PaidInv`: the expiry a transaction has read is within what the paid orders pay
for, and the one it has written within that and the months of its own order
(`JobsWithin`). What it read may be outdated, but orders that were paid since only raise
the limit.

**`StockProofs`: `StockNeverNegative`, `StockTypes`**, for any number of overlapping
requests. The invariant (`SafeInv`) says that every plan in service writes natural
numbers: a quantity may be overwritten, but never with a negative one. `TypeInv` adds
that plans hold movements of at least one piece and sums that are numbers, for which
the cost of an issue must be one: it is a sum of layers, and layers are prices of
movements (`LayersType`, `IssueCostIs`). For one handler (`OneHandler`):
* `SerialOnlyProductionMovesCountedStock`: `SerialInv` says that what a plan was made
  from is still so (`StillSo`) when it is committed – the warehouse is not counted, the
  order is in progress –, and needs that a warehouse is under one count at a time. What
  the documentation promises without the exception for production is refuted by the run
  `stock_counted`.
* `QuantityFollowsMovements`, `SerialDocumentsSettle`: `SettleInv` says that a quantity is
  the net of its movements (`CellsFit`), the one its count began with and the net of
  what moved since (`LinesFit`), and that a plan writes the quantity its movements lead
  to, and the one its document settles (`PlansSettle`). Its lemmas are on `Net` of
  appended movements and of the tail since a count began.
* `SerialIssuesAreCovered`: for every sequence of movements, sorting it by date keeps its
  `Net` (`SortedMovements`), and its layers are no fewer than its `Net`
  (`LayersCoverNet`), since an issue takes at most its quantity of them. What `FoldLeft`
  computes is first shown to exist and to be reached step by step
  (`SequenceFoldExists`, `SequenceFoldRuns`); the rest is induction over prefixes.
* `SerialBooksMatchStock`: `BooksInv` says that every plan moves the accounts of the
  stock by the sum of what its movements gain (`PlanGain`: an IN its price, an OUT the
  layers it takes) and work in progress by what its order carries (`PlanWip`).
  `CellWorth` relates that to the layers: while documents are entered in the order of
  their dates sorting does nothing (`OrderedIsSorted`), one more movement takes or adds
  layers at the ends (`LayersOfAppend`), and an issue takes no more than there are, by
  `LayersCoverStock`. Without the order of dates a later document changes what earlier
  issues took, and the books keep what was posted then. That is the hypothesis of the
  property itself.

These are false with two handlers (section 9).

**`RecoveryProofs`: `TransfersAreAuthorised`, `ExecutedRequestsAreDone`,
`OwnershipGoesToMembers`, `RecoveryTypes`**, for any number of handlers. Approvals may
be lost, so the row says too little; it never says too much: `RowsInv` bounds the
approvers of a row by those who have approved, without the requester. `JobOK` is what a
handler knows of its request, stated over histories that only grow (`EnoughForever`),
so that no other handler can take it back. `OwnershipGoesToMembers` is an action
property: it follows from the guards of the two steps that write `owner`, and the types.

Model-checked only: liveness (`RequestsAnswered`, `NoRequestHangs`), which the prover
does not reach, and the runs that expect a violation. Every safety invariant, action
property and refinement that a run finds to hold is a theorem.

## 11. What is not modelled, and the plan

Left out for good: queries and exports, file formats and rendering, OCR, mail,
notifications, language-model calls and remote adapters (they write nothing that
another component relies on, or only after a person confirms it), password and
token handling, the tenant filter (a predicate added to every query), front ends
and translations, which are most of the repository's lines.

Next, in this order, with what a reading of the code suggests each would show:

1. `MonthlyBilling`: the cron and the queue of monthly invoicing, usage meters, toggles
   of modules in between; each month billed once, what is used is billed. There is no
   unique key on owner and period; usage metered between the read and the reset of the
   spend is dropped (billing-monthly.service.ts:111, :214), and the first usage of a new
   month zeroes a balance that was not billed yet (billing-meter.service.ts:145); a stop
   between the invoice and the reset neither blocks nor zeroes; paying an invoice resets
   the current month's spend of all the owner's organisations. `Referrals` belongs to it:
   a commission is upserted once per item and overwrites itself (referrals.service.ts:265).
2. `AuditChain`: appends that read the last hash, verification, archiving. Concurrent
   appends fork the chain; a value whose keys JSONB reorders does not verify; rows written
   without a hash count as broken; archiving cuts the chain; the nightly check then blocks
   the organisation (`BlockOrganisation` of `TenantRecovery`).
3. `Approvals`: nothing separates requester and approver; a stale rejection overwrites an
   approved step; two submissions at once make two chains.
4. `CashOrders` with the tax turnover limit: two postings of one draft, cash gaps checked
   for backdated orders only. `Payroll`: several registries of one run, wages posted twice.
5. Immediate usage of fixed assets; `CircuitBreaker`; replacement of opening account
   balances; prepaid amortisation; moving average cost and bins in `Stock`.

Theorems still worth proving: that the serial theorems of `Stock` hold for several
requests when no two of them have a cell or a warehouse in common; and for each module
above its type invariant and its main safety property.
