-------------------------------- MODULE PaidOrders --------------------------------
(***************************************************************************)
(* Paying for a subscription: payment orders, the webhooks of the payment  *)
(* providers and the settlement that follows a payment                     *)
(* (apps/api/src/billing/payment-provider.service.ts,                      *)
(* billing-settlement.service.ts, billing.service.ts,                      *)
(* billing-platform.service.ts and                                         *)
(* integrations/payment-providers/drakaris/drakaris.service.ts).           *)
(*                                                                         *)
(* finalizePaidOrder is one transaction, and it calls the settlement,      *)
(* whose statements do not use the transaction's client but this.prisma:   *)
(* another connection of the pool.  They commit one by one, they wait for  *)
(* the rows the transaction has updated, and the database cannot see that  *)
(* the transaction is waiting for them.  So the rows' locks are modelled,  *)
(* with the time Prisma allows an interactive transaction, after which it  *)
(* rolls it back while the code that started it goes on.                   *)
(*                                                                         *)
(* Transactions run at READ COMMITTED: a step is one statement or one      *)
(* read; what a transaction has written is in its `job` until it commits.  *)
(***************************************************************************)
EXTENDS Naturals, FiniteSets, Functions

CONSTANTS
  Orgs, Orders, Users,
  NoUser,
  OwnerId,    \* Organization.ownerId, or NoUser
  OwnerRole,  \* the first member of the organisation with the role OWNER
  OrgOf,      \* the organisation an order is for
  Months,     \* monthsApplied of an order
  Unlocks,    \* the orders that unlock a tier's spending ceiling
  ByDrakaris, \* the orders Drakaris opens with its own transaction-id
  PaidUntil,  \* the month each subscription was paid until at first
  Now,        \* the current month
  TopTier,    \* the last tariff tier
  Handlers,   \* requests that may be in service together
  Nobody

ASSUME SubscriptionsAssumption ==
  /\ Orgs # {}
  /\ NoUser \notin Users
  /\ OwnerId \in [Orgs -> Users \cup {NoUser}]
  /\ OwnerRole \in [Orgs -> Users \cup {NoUser}]
  /\ PaidUntil \in [Orgs -> Nat]
  /\ Now \in Nat
  /\ TopTier \in Nat
ASSUME OrdersAssumption ==
  /\ Orders # {}
  /\ OrgOf \in [Orders -> Orgs]
  /\ Months \in [Orders -> Nat \ {0}]
  /\ Unlocks \subseteq Orders
  /\ ByDrakaris \subseteq Orders
ASSUME HandlersAssumption == Nobody \notin Handlers

VARIABLES
  order,     \* PaymentOrder.status, NONE before the row exists
  invoiced,  \* the orders a PAID SubscriptionInvoice names
  audits,    \* per order, the platform.billing.payment_applied records
  until,     \* OrganizationSubscription.expiresAt, as a month
  tier,      \* OrganizationSubscription.currentTier
  captured,  \* the orders the provider has taken the money of
  acked,     \* the payments acknowledged: pairs <<order, entry point>>
  lock,      \* the open transaction that holds a row
  job        \* the request each handler is serving

vars == <<order, invoiced, audits, until, tier, captured, acked, lock, job>>
books == <<order, invoiced, audits, until>>

--------------------------------------------------------------------------------
(* Rows, requests and transactions                                         *)

OrderRow(n) == <<"order", n>>
OrgRow(o) == <<"organization", o>>
SubRow(o) == <<"subscription", o>>
Rows == {OrderRow(n) : n \in Orders} \cup {OrgRow(o) : o \in Orgs}
          \cup {SubRow(o) : o \in Orgs}

Statuses == {"NONE", "PENDING", "PAID", "FAILED"}

TxPcs == {"mark", "extend", "write", "record"}
SettlePcs == {"activate", "period", "tier", "lift", "raise", "spend"}
Pcs == TxPcs \cup SettlePcs \cup
       {"idle", "lookup", "create", "read", "commit", "usage", "meter"}

Entries == {"webhook", "topUp", "drakarisWebhook", "meter"}

Job == [pc : Pcs,
        via : Entries,
        n : Orders,
        open : BOOLEAN,            \* its transaction is open
        seen : Nat,                \* the expiresAt or the tier it read
        until : Nat,               \* the expiresAt it wrote
        todo : SUBSET Orgs,        \* the organisations left to settle
        org : Orgs]                \* the one it is settling, or metering

Idle == [pc |-> "idle", via |-> "meter", n |-> CHOOSE n \in Orders : TRUE,
         open |-> FALSE, seen |-> 0, until |-> 0, todo |-> {},
         org |-> CHOOSE o \in Orgs : TRUE]

Init ==
  /\ order = [n \in Orders |-> "NONE"]
  /\ invoiced = {}
  /\ audits = [n \in Orders |-> 0]
  /\ until = PaidUntil
  /\ tier = [o \in Orgs |-> 0]
  /\ captured = {}
  /\ acked = {}
  /\ lock = [r \in Rows |-> Nobody]
  /\ job = [h \in Handlers |-> Idle]

Free(r) == lock[r] = Nobody

Take(h, r) == lock' = [lock EXCEPT ![r] = h]

Released(h) == [r \in Rows |-> IF lock[r] = h THEN Nobody ELSE lock[r]]

Go(h, pc) == job' = [job EXCEPT ![h].pc = pc]

Finish(h) ==
  /\ job' = [job EXCEPT ![h] = Idle]
  /\ lock' = Released(h)

\* resolveOwnerUserId
Owner(o) == IF OwnerId[o] # NoUser THEN OwnerId[o] ELSE OwnerRole[o]

\* The organisations settleOrganizationsForOwner finds for the payer.
Settled(n) == {o \in Orgs : OwnerId[o] = Owner(OrgOf[n])}

Later(a, b) == IF a > b THEN a ELSE b

--------------------------------------------------------------------------------
(* The customer, the provider and the requests                             *)

\* The owner opens an order and is sent to the provider's page.
CreateOrder(n) ==
  /\ n \notin ByDrakaris
  /\ order[n] = "NONE"
  /\ order' = [order EXCEPT ![n] = "PENDING"]
  /\ UNCHANGED <<invoiced, audits, until, tier, captured, acked, lock, job>>

\* The provider takes the money; a customer may try again after a failure.
Capture(n) ==
  /\ n \in ByDrakaris \/ order[n] # "NONE"
  /\ captured' = captured \cup {n}
  /\ UNCHANGED <<books, tier, acked, lock, job>>

\* A provider delivers what it captured until it is acknowledged, and may
\* deliver it again.
Receive(h, n, via, pc) ==
  /\ job[h].pc = "idle"
  /\ n \in captured
  /\ job' = [job EXCEPT ![h] = [Idle EXCEPT !.pc = pc, !.via = via, !.n = n]]
  /\ UNCHANGED <<books, tier, captured, acked, lock>>

PaidWebhook(h, n) ==
  /\ n \notin ByDrakaris
  /\ Receive(h, n, "webhook", "read")

TopUp(h, n) ==
  /\ n \in ByDrakaris
  /\ Receive(h, n, "topUp", "lookup")

DrakarisWebhook(h, n) ==
  /\ n \in ByDrakaris
  /\ order[n] # "NONE"
  /\ Receive(h, n, "drakarisWebhook", "read")

\* Mutant: the order fails whatever its status is.
FailedWebhookAlways(n) ==
  /\ n \notin ByDrakaris
  /\ order[n] # "NONE"
  /\ Free(OrderRow(n))
  /\ order' = [order EXCEPT ![n] = "FAILED"]
  /\ UNCHANGED <<invoiced, audits, until, tier, captured, acked, lock, job>>

\* One statement: the row is updated if its status still is PENDING.
FailedWebhook(n) ==
  /\ n \notin ByDrakaris
  /\ order[n] = "PENDING"
  /\ Free(OrderRow(n))
  /\ order' = [order EXCEPT ![n] = "FAILED"]
  /\ UNCHANGED <<invoiced, audits, until, tier, captured, acked, lock, job>>

\* Mutant: every entry answers that it is done.
AnsweredAlways(h, done) == acked \cup {<<job[h].n, job[h].via>>}

\* handleDrakarisWebhook answers { ok: true } whatever happened; the other
\* entries answer with an error when they did not finish.
Answered(h, done) ==
  IF done \/ job[h].via = "drakarisWebhook"
  THEN acked \cup {<<job[h].n, job[h].via>>} ELSE acked

\* The request ends, its transaction with it, and is answered.
End(h, done) ==
  /\ acked' = Answered(h, done)
  /\ Finish(h)
  /\ UNCHANGED <<books, tier, captured>>

--------------------------------------------------------------------------------
(* topUpBalance opens the order of a Drakaris transaction                  *)

LookUp(h) ==
  /\ job[h].pc = "lookup"
  /\ \/ /\ order[job[h].n] = "PAID"
        /\ End(h, TRUE)
     \/ /\ order[job[h].n] # "PAID"
        /\ Go(h, IF order[job[h].n] = "PENDING" THEN "read" ELSE "create")
        /\ UNCHANGED <<books, tier, captured, acked, lock>>

\* idempotencyKey is unique: of two requests that found no order one fails.
CreateByKey(h) ==
  /\ job[h].pc = "create"
  /\ \/ /\ order[job[h].n] = "NONE"
        /\ order' = [order EXCEPT ![job[h].n] = "PENDING"]
        /\ Go(h, "read")
        /\ UNCHANGED <<invoiced, audits, until, tier, captured, acked, lock>>
     \/ /\ order[job[h].n] # "NONE"
        /\ End(h, FALSE)

--------------------------------------------------------------------------------
(* finalizePaidOrder                                                       *)

\* The order is PAID already: recordPaidOrderInvoice, which finds its invoice
\* or writes it, and the transaction commits.
RecordAgain(h) ==
  /\ order[job[h].n] = "PAID"
  /\ invoiced' = invoiced \cup {job[h].n}
  /\ acked' = Answered(h, TRUE)
  /\ Finish(h)
  /\ UNCHANGED <<order, audits, until, tier, captured>>

ReadOrder(h) ==
  /\ job[h].pc = "read"
  /\ \/ RecordAgain(h)
     \/ /\ \/ order[job[h].n] \notin {"PAID", "PENDING"}
           \/ Owner(OrgOf[job[h].n]) = NoUser
        /\ order[job[h].n] # "PAID"
        /\ End(h, FALSE)
     \/ /\ order[job[h].n] = "PENDING"
        /\ Owner(OrgOf[job[h].n]) # NoUser
        /\ job' = [job EXCEPT ![h].pc = "mark", ![h].open = TRUE]
        /\ UNCHANGED <<books, tier, captured, acked, lock>>

\* Mutant: the order is marked without looking at its status again.
MarkPaidUnguarded(h) ==
  /\ job[h].pc = "mark"
  /\ Free(OrderRow(job[h].n))
  /\ Take(h, OrderRow(job[h].n))
  /\ Go(h, "extend")
  /\ UNCHANGED <<books, tier, captured, acked>>

\* The guarded update waits for the row, then looks at its status again.
MarkPaid(h) ==
  /\ job[h].pc = "mark"
  /\ Free(OrderRow(job[h].n))
  /\ \/ /\ order[job[h].n] = "PENDING"
        /\ Take(h, OrderRow(job[h].n))
        /\ Go(h, "extend")
        /\ UNCHANGED <<books, tier, captured, acked>>
     \/ RecordAgain(h)
     \/ /\ order[job[h].n] \notin {"PENDING", "PAID"}
        /\ End(h, FALSE)

ReadExpiry(h) ==
  /\ job[h].pc = "extend"
  /\ job' = [job EXCEPT ![h].pc = "write", ![h].seen = until[OrgOf[job[h].n]]]
  /\ UNCHANGED <<books, tier, captured, acked, lock>>

\* extendSubscriptionByMonths: from the later of now and what it read.
Extended(seen, n) == Later(seen, Now) + Months[n]

\* Mutant: the subscription is updated outside the transaction.
WriteExpiryAtOnce(h) ==
  /\ job[h].pc = "write"
  /\ Free(SubRow(OrgOf[job[h].n]))
  /\ until' = [until EXCEPT ![OrgOf[job[h].n]] = Extended(job[h].seen, job[h].n)]
  /\ job' = [job EXCEPT ![h].pc = "record",
                        ![h].until = Extended(job[h].seen, job[h].n)]
  /\ UNCHANGED <<order, invoiced, audits, tier, captured, acked, lock>>

WriteExpiry(h) ==
  /\ job[h].pc = "write"
  /\ Free(SubRow(OrgOf[job[h].n]))
  /\ Take(h, SubRow(OrgOf[job[h].n]))
  /\ job' = [job EXCEPT ![h].pc = "record",
                        ![h].until = Extended(job[h].seen, job[h].n)]
  /\ UNCHANGED <<books, tier, captured, acked>>

\* What follows in the loop of the settlement: one more organisation, in the
\* order of an unsorted query, or the end of the transaction.
SettleNext(j) ==
  IF j.todo = {} THEN {[j EXCEPT !.pc = "commit"]}
  ELSE {[j EXCEPT !.pc = "activate", !.org = o, !.todo = @ \ {o}] : o \in j.todo}

\* The audit record, the invoice, and the update of the organisation.
RecordInvoice(h) ==
  /\ job[h].pc = "record"
  /\ Free(OrgRow(OrgOf[job[h].n]))
  /\ Take(h, OrgRow(OrgOf[job[h].n]))
  /\ \E j \in SettleNext([job[h] EXCEPT !.todo = Settled(job[h].n)]) :
       job' = [job EXCEPT ![h] = j]
  /\ UNCHANGED <<books, tier, captured, acked>>

\* The last step of a paid order: all its transaction wrote shows at once.
\* When the transaction was rolled back meanwhile, the commit fails.
Commit(h) ==
  LET n == job[h].n IN
  /\ job[h].pc = "commit"
  /\ \/ /\ ~job[h].open
        /\ End(h, FALSE)
     \/ /\ job[h].open
        /\ order' = [order EXCEPT ![n] = "PAID"]
        /\ invoiced' = invoiced \cup {n}
        /\ audits' = [audits EXCEPT ![n] = @ + 1]
        /\ until' = [until EXCEPT ![OrgOf[n]] = job[h].until]
        /\ acked' = Answered(h, TRUE)
        /\ Finish(h)
        /\ UNCHANGED <<tier, captured>>

--------------------------------------------------------------------------------
(* settleOrganizationsForOwner, statement by statement, on a connection of *)
(* its own: each waits until no transaction holds its row.                 *)

\* A statement of the settlement on row r, after which the job is at pc.
Statement(h, pc, r, next) ==
  /\ job[h].pc = pc
  /\ Free(r)
  /\ Go(h, next)
  /\ UNCHANGED <<books, tier, captured, acked, lock>>

\* The organisation is ACTIVE again and its counters are zero.
Activate(h) == Statement(h, "activate", OrgRow(job[h].org), "period")

\* billingPeriodKey; then only the organisation whose ceiling was unlocked
\* has its tier raised, the others start the month anew.
StampPeriod(h) ==
  Statement(h, "period", SubRow(job[h].org),
            IF job[h].n \in Unlocks /\ job[h].org = OrgOf[job[h].n]
            THEN "tier" ELSE "spend")

\* bumpTierAfterIntradayPayment reads the tier...
ReadTier(h) ==
  /\ job[h].pc = "tier"
  /\ job' = [job EXCEPT ![h].pc = "lift", ![h].seen = tier[job[h].org]]
  /\ UNCHANGED <<books, tier, captured, acked, lock>>

LiftBlock(h) == Statement(h, "lift", OrgRow(job[h].org), "raise")

\* Mutant: the last tier has a next one.
RaiseTierForever(h) ==
  /\ job[h].pc = "raise"
  /\ Free(SubRow(job[h].org))
  /\ tier' = [tier EXCEPT ![job[h].org] = job[h].seen + 1]
  /\ \E j \in SettleNext(job[h]) : job' = [job EXCEPT ![h] = j]
  /\ UNCHANGED <<books, captured, acked, lock>>

\* ... and writes the next one, if there is one.
RaiseTier(h) ==
  /\ job[h].pc = "raise"
  /\ \/ /\ job[h].seen < TopTier
        /\ Free(SubRow(job[h].org))
        /\ tier' = [tier EXCEPT ![job[h].org] = job[h].seen + 1]
     \/ /\ job[h].seen >= TopTier
        /\ UNCHANGED tier
  /\ \E j \in SettleNext(job[h]) : job' = [job EXCEPT ![h] = j]
  /\ UNCHANGED <<books, captured, acked, lock>>

\* resetMonthlySpendAfterInvoiced
ResetSpend(h) ==
  /\ job[h].pc = "spend"
  /\ Free(OrgRow(job[h].org))
  /\ \E j \in SettleNext(job[h]) : job' = [job EXCEPT ![h] = j]
  /\ UNCHANGED <<books, tier, captured, acked, lock>>

--------------------------------------------------------------------------------
(* recordUsage: its transaction holds the organisation's row while a third *)
(* connection, the control plane's, updates the subscription's.            *)

MeterUsage(h, o) ==
  /\ job[h].pc = "idle"
  /\ job' = [job EXCEPT ![h] = [Idle EXCEPT !.pc = "usage", !.open = TRUE, !.org = o]]
  /\ UNCHANGED <<books, tier, captured, acked, lock>>

AddUsage(h) ==
  /\ job[h].pc = "usage"
  /\ Free(OrgRow(job[h].org))
  /\ Take(h, OrgRow(job[h].org))
  /\ Go(h, "meter")
  /\ UNCHANGED <<books, tier, captured, acked>>

StampUsagePeriod(h) ==
  /\ job[h].pc = "meter"
  /\ Free(SubRow(job[h].org))
  /\ Finish(h)
  /\ UNCHANGED <<books, tier, captured, acked>>

--------------------------------------------------------------------------------
(* Time and crashes                                                        *)

Close(h) ==
  /\ job' = [job EXCEPT ![h].open = FALSE]
  /\ lock' = Released(h)

\* Mutant: the time of a transaction does not run during the settlement.
TimeoutOfStatements(h) ==
  /\ job[h].open
  /\ job[h].pc \notin SettlePcs
  /\ IF job[h].pc = "commit"
     THEN Close(h) /\ UNCHANGED <<books, tier, captured, acked>>
     ELSE End(h, FALSE)

\* Prisma rolls back a transaction that takes too long.  The next statement
\* of the transaction fails; the settlement's do not belong to it.
Timeout(h) ==
  /\ job[h].open
  /\ IF job[h].pc \in SettlePcs \cup {"commit"}
     THEN Close(h) /\ UNCHANGED <<books, tier, captured, acked>>
     ELSE End(h, FALSE)

\* The API stops: the request is not answered, its transaction rolled back.
Crash(h) ==
  /\ job[h].pc # "idle"
  /\ Finish(h)
  /\ UNCHANGED <<books, tier, captured, acked>>

Serve(h) ==
  \/ LookUp(h) \/ CreateByKey(h)
  \/ ReadOrder(h) \/ MarkPaid(h) \/ ReadExpiry(h) \/ WriteExpiry(h)
  \/ RecordInvoice(h) \/ Commit(h)
  \/ Activate(h) \/ StampPeriod(h) \/ ReadTier(h) \/ LiftBlock(h)
  \/ RaiseTier(h) \/ ResetSpend(h)
  \/ AddUsage(h) \/ StampUsagePeriod(h)

Next ==
  \/ \E n \in Orders : CreateOrder(n) \/ Capture(n) \/ FailedWebhook(n)
  \/ \E h \in Handlers, n \in Orders :
       PaidWebhook(h, n) \/ TopUp(h, n) \/ DrakarisWebhook(h, n)
  \/ \E h \in Handlers, o \in Orgs : MeterUsage(h, o)
  \/ \E h \in Handlers : Serve(h) \/ Timeout(h) \/ Crash(h)

Spec == Init /\ [][Next]_vars

\* A statement waits its turn in the queue of its row, so one that can go on
\* again and again is served; a transaction is timed out whatever it does.
Fairness == \A h \in Handlers : SF_vars(Serve(h)) /\ WF_vars(Timeout(h))

FairSpec == Spec /\ Fairness

--------------------------------------------------------------------------------
(* Properties                                                              *)

TypeOK ==
  /\ order \in [Orders -> Statuses]
  /\ invoiced \subseteq Orders
  /\ audits \in [Orders -> Nat]
  /\ until \in [Orgs -> Nat]
  /\ tier \in [Orgs -> 0..TopTier]
  /\ captured \subseteq Orders
  /\ acked \subseteq Orders \X Entries
  /\ lock \in [Rows -> Handlers \cup {Nobody}]
  /\ job \in [Handlers -> Job]

\* An order that is PAID was applied to the subscription once and has its
\* invoice, and no other order has either, however often its payment was
\* delivered, timed out or interrupted (TZ.md 14.8.8).
AppliedOnce ==
  \A n \in Orders :
    /\ audits[n] = IF order[n] = "PAID" THEN 1 ELSE 0
    /\ n \in invoiced <=> order[n] = "PAID"

\* A payment that was acknowledged, so that the provider will not deliver it
\* again, was applied.  Drakaris' callback is acknowledged whatever happens.
AckMeansApplied ==
  \A n \in Orders, via \in Entries \ {"drakarisWebhook"} :
    <<n, via>> \in acked => order[n] = "PAID" /\ n \in invoiced

PaidFor(o) == {n \in Orders : OrgOf[n] = o /\ order[n] = "PAID"}

\* A subscription never runs longer than its paid orders pay for.
OnlyPaidMonths ==
  \A o \in Orgs :
    until[o] <= FoldFunctionOnSet(LAMBDA a, b : a + b, Later(PaidUntil[o], Now),
                                  Months, PaidFor(o))

\* An organisation's tier is raised by orders that are paid, once by each.
\* The settlement raises it while the order is not paid yet, and may do so
\* again for the same payment.
TierWasPaidFor ==
  \A o \in Orgs : tier[o] <= Cardinality(Unlocks \cap PaidFor(o))

Life == INSTANCE OrderLife WITH status <- order, applied <- audits

\* An order lives as OrderLife says: paid and applied once, or failed.
OrdersLiveOnce == Life!Spec

\* A request comes to its end although the settlement waits for the rows its
\* own caller has updated, and may wait for a metering that waits for it.
NoRequestHangs ==
  \A h \in Handlers : job[h].pc # "idle" ~> job[h].pc = "idle"
================================================================================
