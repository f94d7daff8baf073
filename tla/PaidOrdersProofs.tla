---------------------------- MODULE PaidOrdersProofs ----------------------------
(***************************************************************************)
(* Proofs about PaidOrders: its types, that an order is applied once, that *)
(* an acknowledged payment was applied, that orders live as OrderLife says *)
(* and that a subscription runs no longer than is paid for.  The argument: *)
(* from the guarded update that marks it until the transaction ends, a     *)
(* handler holds the row of its order, which the others therefore still    *)
(* see PENDING, and only the holder can change.                            *)
(***************************************************************************)
EXTENDS PaidOrders, SumTheorems, TLAPS

\* The steps of finalizePaidOrder before, and after, the order is marked.
MarkedPcs == {"extend", "write", "record"}

\* A transaction that has marked its order.
Holds(h) == job[h].open /\ job[h].pc \in MarkedPcs \cup SettlePcs \cup {"commit"}

HoldersOwnTheirOrders ==
  \A h \in Handlers :
    /\ job[h].pc \in TxPcs => job[h].open
    /\ Holds(h) => /\ lock[OrderRow(job[h].n)] = h
                   /\ order[job[h].n] = "PENDING"

IInv == TypeOK /\ AppliedOnce /\ AckMeansApplied /\ HoldersOwnTheirOrders

LEMMA IdleType == Idle \in Job
<1>1. (CHOOSE n \in Orders : TRUE) \in Orders
  BY OrdersAssumption
<1>2. (CHOOSE o \in Orgs : TRUE) \in Orgs
  BY SubscriptionsAssumption
<1>. QED
  BY <1>1, <1>2 DEF Idle, Job, Pcs, Entries

LEMMA RowsAreDistinct ==
  /\ \A n \in Orders, o \in Orgs : OrderRow(n) # OrgRow(o)
  /\ \A n \in Orders, o \in Orgs : OrderRow(n) # SubRow(o)
  /\ \A n, m \in Orders : OrderRow(n) = OrderRow(m) => n = m
  /\ \A n \in Orders : OrderRow(n) \in Rows
  /\ \A o \in Orgs : OrgRow(o) \in Rows /\ SubRow(o) \in Rows
BY DEF OrderRow, OrgRow, SubRow, Rows

LEMMA SettleNextType ==
  ASSUME NEW j \in Job, NEW k \in SettleNext(j)
  PROVE  /\ k \in Job /\ k.n = j.n /\ k.open = j.open /\ k.via = j.via
         /\ k.pc \in {"activate", "commit"}
<1>1. CASE j.todo = {}
  BY <1>1 DEF SettleNext, Job, Pcs
<1>2. CASE j.todo # {}
  <2>1. PICK o \in j.todo :
          k = [j EXCEPT !.pc = "activate", !.org = o, !.todo = @ \ {o}]
    BY <1>2 DEF SettleNext
  <2>2. o \in Orgs /\ j.todo \ {o} \subseteq Orgs
    BY DEF Job
  <2>3. "activate" \in Pcs
    BY DEF Pcs, SettlePcs
  <2>. QED
    BY <2>1, <2>2, <2>3 DEF Job
<1>. QED
  BY <1>1, <1>2

LEMMA FinishType ==
  ASSUME TypeOK, NEW h \in Handlers, Finish(h)
  PROVE  /\ job' \in [Handlers -> Job]
         /\ lock' \in [Rows -> Handlers \cup {Nobody}]
BY IdleType DEF TypeOK, Finish, Released

LEMMA AnsweredType ==
  ASSUME TypeOK, NEW h \in Handlers, NEW done \in BOOLEAN
  PROVE  Answered(h, done) \subseteq Orders \X Entries
BY DEF TypeOK, Job, Answered

LEMMA EndType ==
  ASSUME TypeOK, NEW h \in Handlers, NEW done \in BOOLEAN, End(h, done)
  PROVE  TypeOK'
BY FinishType, AnsweredType DEF TypeOK, End, books

LEMMA RecordAgainType ==
  ASSUME TypeOK, NEW h \in Handlers, RecordAgain(h)
  PROVE  TypeOK'
<1>1. job[h].n \in Orders
  BY DEF TypeOK, Job
<1>. QED
  BY <1>1, FinishType, AnsweredType DEF TypeOK, RecordAgain

LEMMA GoType ==
  ASSUME TypeOK, NEW h \in Handlers, NEW pc \in Pcs, Go(h, pc)
  PROVE  job' \in [Handlers -> Job]
BY DEF TypeOK, Job, Go

LEMMA TakeType ==
  ASSUME TypeOK, NEW h \in Handlers, NEW r \in Rows, Take(h, r)
  PROVE  lock' \in [Rows -> Handlers \cup {Nobody}]
BY DEF TypeOK, Take

LEMMA JobFields ==
  ASSUME TypeOK, NEW h \in Handlers
  PROVE  /\ job[h] \in Job /\ job[h].n \in Orders /\ job[h].org \in Orgs
         /\ job[h].seen \in Nat /\ job[h].until \in Nat
         /\ OrgOf[job[h].n] \in Orgs
BY OrdersAssumption DEF TypeOK, Job

LEMMA JobType ==
  ASSUME TypeOK, NEW h \in Handlers, NEW j \in Job, job' = [job EXCEPT ![h] = j]
  PROVE  job' \in [Handlers -> Job]
BY DEF TypeOK

LEMMA SettleStepType ==
  ASSUME TypeOK, NEW h \in Handlers, NEW pc, NEW r, NEW next \in Pcs,
         Statement(h, pc, r, next)
  PROVE  TypeOK'
BY GoType DEF TypeOK, Statement, books

LEMMA TypeStep == TypeOK /\ [Next]_vars => TypeOK'
<1>. SUFFICES ASSUME TypeOK, [Next]_vars PROVE TypeOK'
  OBVIOUS
<1>1. ASSUME NEW n \in Orders, CreateOrder(n) PROVE TypeOK'
  BY <1>1 DEF TypeOK, CreateOrder, Statuses
<1>2. ASSUME NEW n \in Orders, Capture(n) PROVE TypeOK'
  BY <1>2 DEF TypeOK, Capture, books
<1>3. ASSUME NEW n \in Orders, FailedWebhook(n) PROVE TypeOK'
  BY <1>3 DEF TypeOK, FailedWebhook, Statuses
<1>4. ASSUME NEW h \in Handlers, NEW n \in Orders,
             PaidWebhook(h, n) \/ TopUp(h, n) \/ DrakarisWebhook(h, n)
      PROVE  TypeOK'
  <2>1. PICK via \in Entries, pc \in Pcs : Receive(h, n, via, pc)
    BY <1>4 DEF PaidWebhook, TopUp, DrakarisWebhook, Entries, Pcs
  <2>2. [Idle EXCEPT !.pc = pc, !.via = via, !.n = n] \in Job
    BY IdleType DEF Job
  <2>. QED
    BY <2>1, <2>2 DEF TypeOK, Receive, books
<1>5. ASSUME NEW h \in Handlers, NEW o \in Orgs, MeterUsage(h, o) PROVE TypeOK'
  <2>1. [Idle EXCEPT !.pc = "usage", !.open = TRUE, !.org = o] \in Job
    BY IdleType DEF Job, Pcs
  <2>. QED
    BY <1>5, <2>1 DEF TypeOK, MeterUsage, books
<1>6. ASSUME NEW h \in Handlers, LookUp(h) PROVE TypeOK'
  <2>1. CASE End(h, TRUE)
    BY <2>1, EndType
  <2>2. CASE Go(h, IF order[job[h].n] = "PENDING" THEN "read" ELSE "create")
               /\ UNCHANGED <<books, tier, captured, acked, lock>>
    <3>1. (IF order[job[h].n] = "PENDING" THEN "read" ELSE "create") \in Pcs
      BY DEF Pcs
    <3>. QED
      BY <2>2, <3>1, GoType DEF TypeOK, books
  <2>. QED
    BY <1>6, <2>1, <2>2 DEF LookUp
<1>7. ASSUME NEW h \in Handlers, CreateByKey(h) PROVE TypeOK'
  <2>1. CASE End(h, FALSE)
    BY <2>1, EndType
  <2>2. CASE order' = [order EXCEPT ![job[h].n] = "PENDING"] /\ Go(h, "read")
               /\ UNCHANGED <<invoiced, audits, until, tier, captured, acked, lock>>
    <3>1. "read" \in Pcs
      BY DEF Pcs
    <3>. QED
      BY <2>2, <3>1, GoType DEF TypeOK, Statuses
  <2>. QED
    BY <1>7, <2>1, <2>2 DEF CreateByKey
<1>8. ASSUME NEW h \in Handlers, ReadOrder(h) PROVE TypeOK'
  <2>1. CASE End(h, FALSE) \/ RecordAgain(h)
    BY <2>1, EndType, RecordAgainType
  <2>2. CASE job' = [job EXCEPT ![h].pc = "mark", ![h].open = TRUE]
               /\ UNCHANGED <<books, tier, captured, acked, lock>>
    <3>1. [job[h] EXCEPT !.pc = "mark", !.open = TRUE] \in Job
      BY JobFields DEF Job, Pcs, TxPcs
    <3>2. job' = [job EXCEPT ![h] = [job[h] EXCEPT !.pc = "mark", !.open = TRUE]]
      BY <2>2 DEF TypeOK
    <3>. QED
      BY <2>2, <3>1, <3>2, JobType DEF TypeOK, books
  <2>. QED
    BY <1>8, <2>1, <2>2 DEF ReadOrder
<1>9. ASSUME NEW h \in Handlers, MarkPaid(h) PROVE TypeOK'
  <2>1. CASE End(h, FALSE) \/ RecordAgain(h)
    BY <2>1, EndType, RecordAgainType
  <2>2. CASE Take(h, OrderRow(job[h].n)) /\ Go(h, "extend")
               /\ UNCHANGED <<books, tier, captured, acked>>
    <3>1. "extend" \in Pcs /\ OrderRow(job[h].n) \in Rows
      BY RowsAreDistinct, JobFields DEF Pcs, TxPcs
    <3>. QED
      BY <2>2, <3>1, GoType, TakeType DEF TypeOK, books
  <2>. QED
    BY <1>9, <2>1, <2>2 DEF MarkPaid
<1>10. ASSUME NEW h \in Handlers, ReadExpiry(h) PROVE TypeOK'
  <2>1. until[OrgOf[job[h].n]] \in Nat /\ "write" \in Pcs
    BY JobFields DEF TypeOK, Pcs, TxPcs
  <2>2. [job[h] EXCEPT !.pc = "write", !.seen = until[OrgOf[job[h].n]]] \in Job
    BY <2>1, JobFields DEF Job
  <2>3. job' = [job EXCEPT ![h] = [job[h] EXCEPT !.pc = "write", !.seen = until[OrgOf[job[h].n]]]]
    BY <1>10 DEF TypeOK, ReadExpiry
  <2>. QED
    BY <1>10, <2>2, <2>3, JobType DEF TypeOK, ReadExpiry, books
<1>11. ASSUME NEW h \in Handlers, WriteExpiry(h) PROVE TypeOK'
  <2>1. Extended(job[h].seen, job[h].n) \in Nat
    BY JobFields, OrdersAssumption, SubscriptionsAssumption DEF Extended, Later
  <2>2. "record" \in Pcs /\ SubRow(OrgOf[job[h].n]) \in Rows
    BY RowsAreDistinct, JobFields DEF Pcs, TxPcs
  <2>3. job' \in [Handlers -> Job]
    <3>. DEFINE u == Extended(job[h].seen, job[h].n)
    <3>1. [job[h] EXCEPT !.pc = "record", !.until = u] \in Job
      <4>. HIDE DEF u
      <4>. QED
        BY <2>1, <2>2, JobFields DEF Job, u
    <3>2. job' = [job EXCEPT ![h] = [job[h] EXCEPT !.pc = "record", !.until = u]]
      BY <1>11 DEF TypeOK, WriteExpiry
    <3>. QED
      BY <3>1, <3>2, JobType
  <2>. QED
    BY <1>11, <2>2, <2>3, TakeType DEF TypeOK, WriteExpiry, books
<1>12. ASSUME NEW h \in Handlers, RecordInvoice(h) PROVE TypeOK'
  <2>1. [job[h] EXCEPT !.todo = Settled(job[h].n)] \in Job
    BY JobFields DEF Job, Settled
  <2>2. job' \in [Handlers -> Job]
    BY <1>12, <2>1, SettleNextType DEF TypeOK, RecordInvoice
  <2>3. OrgRow(OrgOf[job[h].n]) \in Rows
    BY RowsAreDistinct, JobFields
  <2>. QED
    BY <1>12, <2>2, <2>3, TakeType DEF TypeOK, RecordInvoice, books
<1>13. ASSUME NEW h \in Handlers, Commit(h) PROVE TypeOK'
  <2>1. CASE End(h, FALSE)
    BY <2>1, EndType
  <2>2. CASE ~End(h, FALSE)
    <3>1. job[h].n \in Orders /\ job[h].until \in Nat
      BY JobFields
    <3>2. acked' \subseteq Orders \X Entries
      BY <1>13, <2>2, AnsweredType DEF Commit
    <3>3. job' \in [Handlers -> Job] /\ lock' \in [Rows -> Handlers \cup {Nobody}]
      BY <1>13, <2>2, FinishType DEF Commit
    <3>4. order' \in [Orders -> Statuses]
      BY <1>13, <2>2, <3>1 DEF TypeOK, Commit, Statuses
    <3>5. invoiced' \subseteq Orders /\ audits' \in [Orders -> Nat]
      <4>1. audits[job[h].n] + 1 \in Nat
        BY <3>1 DEF TypeOK
      <4>2. audits' = [audits EXCEPT ![job[h].n] = @ + 1]
        BY <1>13, <2>2 DEF Commit
      <4>3. invoiced' = invoiced \cup {job[h].n}
        BY <1>13, <2>2 DEF Commit
      <4>. QED
        BY <3>1, <4>1, <4>2, <4>3 DEF TypeOK
    <3>6. until' \in [Orgs -> Nat]
      BY <1>13, <2>2, <3>1 DEF TypeOK, Commit
    <3>7. tier' \in [Orgs -> 0..TopTier] /\ captured' \subseteq Orders
      BY <1>13, <2>2 DEF TypeOK, Commit
    <3>. QED
      BY <3>2, <3>3, <3>4, <3>5, <3>6, <3>7 DEF TypeOK
  <2>. QED
    BY <2>1, <2>2
<1>14. ASSUME NEW h \in Handlers, Activate(h) \/ StampPeriod(h) \/ LiftBlock(h)
       PROVE  TypeOK'
  <2>1. {"period", "tier", "spend", "raise"} \subseteq Pcs
    BY DEF Pcs, SettlePcs
  <2>2. CASE Activate(h)
    BY <2>1, <2>2, SettleStepType DEF Activate
  <2>3. CASE StampPeriod(h)
    <3>. DEFINE next == IF job[h].n \in Unlocks /\ job[h].org = OrgOf[job[h].n]
                        THEN "tier" ELSE "spend"
    <3>1. next \in Pcs
      BY <2>1
    <3>2. Statement(h, "period", SubRow(job[h].org), next)
      BY <2>3 DEF StampPeriod
    <3>. QED
      BY <3>1, <3>2, SettleStepType
  <2>4. CASE LiftBlock(h)
    BY <2>1, <2>4, SettleStepType DEF LiftBlock
  <2>. QED
    BY <1>14, <2>2, <2>3, <2>4
<1>15. ASSUME NEW h \in Handlers, ReadTier(h) PROVE TypeOK'
  <2>1. tier[job[h].org] \in Nat /\ "lift" \in Pcs
    BY JobFields, SubscriptionsAssumption DEF TypeOK, Pcs, SettlePcs
  <2>. QED
    <3>1. [job[h] EXCEPT !.pc = "lift", !.seen = tier[job[h].org]] \in Job
      BY <2>1, JobFields DEF Job
    <3>2. job' = [job EXCEPT ![h] = [job[h] EXCEPT !.pc = "lift", !.seen = tier[job[h].org]]]
      BY <1>15 DEF TypeOK, ReadTier
    <3>. QED
      BY <1>15, <3>1, <3>2, JobType DEF TypeOK, ReadTier, books
<1>16. ASSUME NEW h \in Handlers, RaiseTier(h) \/ ResetSpend(h) PROVE TypeOK'
  <2>1. job' \in [Handlers -> Job]
    BY <1>16, JobFields, SettleNextType DEF TypeOK, RaiseTier, ResetSpend
  <2>2. tier' \in [Orgs -> 0..TopTier]
    BY <1>16, JobFields, SubscriptionsAssumption DEF TypeOK, RaiseTier, ResetSpend
  <2>. QED
    BY <1>16, <2>1, <2>2 DEF TypeOK, RaiseTier, ResetSpend, books
<1>17. ASSUME NEW h \in Handlers, AddUsage(h) PROVE TypeOK'
  <2>1. "meter" \in Pcs /\ OrgRow(job[h].org) \in Rows
    BY RowsAreDistinct, JobFields DEF Pcs
  <2>. QED
    BY <1>17, <2>1, GoType, TakeType DEF TypeOK, AddUsage, books
<1>18. ASSUME NEW h \in Handlers, StampUsagePeriod(h) \/ Crash(h) PROVE TypeOK'
  BY <1>18, FinishType DEF TypeOK, StampUsagePeriod, Crash, books
<1>19. ASSUME NEW h \in Handlers, Timeout(h) PROVE TypeOK'
  <2>1. CASE End(h, FALSE)
    BY <2>1, EndType
  <2>2. CASE Close(h) /\ UNCHANGED <<books, tier, captured, acked>>
    BY <2>2 DEF TypeOK, Close, Released, Job, books
  <2>. QED
    BY <1>19, <2>1, <2>2 DEF Timeout
<1>20. CASE UNCHANGED vars
  BY <1>20 DEF TypeOK, vars
<1>. QED
  BY <1>1, <1>2, <1>3, <1>4, <1>5, <1>6, <1>7, <1>8, <1>9, <1>10, <1>11, <1>12,
     <1>13, <1>14, <1>15, <1>16, <1>17, <1>18, <1>19, <1>20
     DEF Next, Serve

--------------------------------------------------------------------------------
(* What a step does to the orders                                          *)

\* The orders and their records are left alone.
OrdersUnchanged == UNCHANGED <<order, invoiced, audits>>

Moves(n, from, to) ==
  order[n] = from /\ order' = [order EXCEPT ![n] = to]

\* Order n is opened, or failed.
Opens(n) == Moves(n, "NONE", "PENDING") /\ UNCHANGED <<invoiced, audits>>
Fails(n) == Moves(n, "PENDING", "FAILED") /\ UNCHANGED <<invoiced, audits>>

\* Order n is paid, applied and invoiced.
Pays(n) ==
  /\ Moves(n, "PENDING", "PAID")
  /\ invoiced' = invoiced \cup {n}
  /\ audits' = [audits EXCEPT ![n] = @ + 1]

OrderStep == OrdersUnchanged \/ \E n \in Orders : Opens(n) \/ Fails(n) \/ Pays(n)

LEMMA PaidAgain ==
  ASSUME IInv, NEW h \in Handlers, RecordAgain(h)
  PROVE  OrdersUnchanged
<1>1. job[h].n \in invoiced
  BY JobFields DEF IInv, AppliedOnce, RecordAgain
<1>. QED
  BY <1>1 DEF RecordAgain, OrdersUnchanged

LEMMA EndKeepsOrders ==
  ASSUME NEW h, NEW done, End(h, done)
  PROVE  OrdersUnchanged
BY DEF End, OrdersUnchanged, books

LEMMA EveryStepIsAnOrderStep == IInv /\ [Next]_vars => OrderStep
<1>. SUFFICES ASSUME IInv, [Next]_vars PROVE OrderStep
  OBVIOUS
<1>1. ASSUME NEW n \in Orders, CreateOrder(n) PROVE OrderStep
  BY <1>1 DEF CreateOrder, OrderStep, Opens, Moves
<1>2. ASSUME NEW n \in Orders, Capture(n) PROVE OrderStep
  BY <1>2 DEF Capture, OrderStep, OrdersUnchanged, books
<1>3. ASSUME NEW n \in Orders, FailedWebhook(n) PROVE OrderStep
  BY <1>3 DEF FailedWebhook, OrderStep, Fails, Moves
<1>4. ASSUME NEW h \in Handlers, NEW n \in Orders,
             PaidWebhook(h, n) \/ TopUp(h, n) \/ DrakarisWebhook(h, n)
      PROVE  OrderStep
  BY <1>4 DEF PaidWebhook, TopUp, DrakarisWebhook, Receive, OrderStep,
              OrdersUnchanged, books
<1>5. ASSUME NEW h \in Handlers, NEW o \in Orgs, MeterUsage(h, o) PROVE OrderStep
  BY <1>5 DEF MeterUsage, OrderStep, OrdersUnchanged, books
<1>6. ASSUME NEW h \in Handlers, LookUp(h) PROVE OrderStep
  BY <1>6, EndKeepsOrders DEF LookUp, OrderStep, OrdersUnchanged, books
<1>7. ASSUME NEW h \in Handlers, CreateByKey(h) PROVE OrderStep
  <2>1. CASE End(h, FALSE)
    BY <2>1, EndKeepsOrders DEF OrderStep
  <2>2. CASE ~End(h, FALSE)
    <3>1. Opens(job[h].n)
      BY <1>7, <2>2 DEF CreateByKey, Opens, Moves
    <3>. QED
      BY <3>1, JobFields DEF OrderStep, IInv
  <2>. QED
    BY <2>1, <2>2
<1>8. ASSUME NEW h \in Handlers, ReadOrder(h) \/ MarkPaid(h) PROVE OrderStep
  <2>1. CASE End(h, FALSE)
    BY <2>1, EndKeepsOrders DEF OrderStep
  <2>2. CASE RecordAgain(h)
    BY <2>2, PaidAgain DEF OrderStep
  <2>3. CASE UNCHANGED books
    BY <2>3 DEF OrderStep, OrdersUnchanged, books
  <2>. QED
    BY <1>8, <2>1, <2>2, <2>3 DEF ReadOrder, MarkPaid, books
<1>9. ASSUME NEW h \in Handlers, Commit(h) PROVE OrderStep
  <2>1. CASE End(h, FALSE)
    BY <2>1, EndKeepsOrders DEF OrderStep
  <2>2. CASE ~End(h, FALSE)
    <3>1. order[job[h].n] = "PENDING"
      BY <1>9, <2>2 DEF Commit, IInv, HoldersOwnTheirOrders, Holds
    <3>2. Pays(job[h].n)
      BY <1>9, <2>2, <3>1 DEF Commit, Pays, Moves
    <3>. QED
      BY <3>2, JobFields DEF OrderStep, IInv
  <2>. QED
    BY <2>1, <2>2
<1>10. ASSUME NEW h \in Handlers,
              \/ ReadExpiry(h) \/ WriteExpiry(h) \/ RecordInvoice(h)
              \/ Activate(h) \/ StampPeriod(h) \/ ReadTier(h) \/ LiftBlock(h)
              \/ RaiseTier(h) \/ ResetSpend(h) \/ AddUsage(h)
              \/ StampUsagePeriod(h) \/ Crash(h)
       PROVE  OrderStep
  <2>1. UNCHANGED books
    BY <1>10 DEF ReadExpiry, WriteExpiry, RecordInvoice, Activate, StampPeriod,
       ReadTier, LiftBlock, RaiseTier, ResetSpend, AddUsage, StampUsagePeriod,
       Crash, Statement
  <2>. QED
    BY <2>1 DEF OrderStep, OrdersUnchanged, books
<1>11. ASSUME NEW h \in Handlers, Timeout(h) PROVE OrderStep
  BY <1>11, EndKeepsOrders DEF Timeout, OrderStep, OrdersUnchanged, books
<1>12. CASE UNCHANGED vars
  BY <1>12 DEF vars, OrderStep, OrdersUnchanged
<1>. QED
  BY <1>1, <1>2, <1>3, <1>4, <1>5, <1>6, <1>7, <1>8, <1>9, <1>10, <1>11, <1>12
     DEF Next, Serve

LEMMA AppliedOnceStep ==
  ASSUME TypeOK, AppliedOnce, OrderStep
  PROVE  AppliedOnce'
<1>1. CASE OrdersUnchanged
  BY <1>1 DEF OrdersUnchanged, AppliedOnce
<1>2. ASSUME NEW n \in Orders, Opens(n) \/ Fails(n) PROVE AppliedOnce'
  BY <1>2 DEF TypeOK, AppliedOnce, Opens, Fails, Moves
<1>3. ASSUME NEW n \in Orders, Pays(n) PROVE AppliedOnce'
  <2>1. audits[n] = 0
    BY <1>3 DEF AppliedOnce, Pays, Moves
  <2>2. audits'[n] = 1 /\ order'[n] = "PAID"
    BY <1>3, <2>1 DEF TypeOK, Pays, Moves
  <2>3. \A m \in Orders \ {n} : audits'[m] = audits[m] /\ order'[m] = order[m]
    BY <1>3 DEF TypeOK, Pays, Moves
  <2>4. invoiced' = invoiced \cup {n}
    BY <1>3 DEF Pays
  <2>. QED
    BY <2>2, <2>3, <2>4 DEF AppliedOnce
<1>. QED
  BY <1>1, <1>2, <1>3 DEF OrderStep

LEMMA PaidStaysPaid ==
  ASSUME TypeOK, OrderStep
  PROVE  /\ \A n \in Orders : order[n] = "PAID" => order'[n] = "PAID"
         /\ invoiced \subseteq invoiced'
BY DEF TypeOK, OrderStep, OrdersUnchanged, Opens, Fails, Pays, Moves

--------------------------------------------------------------------------------
(* Acknowledgements                                                        *)

\* The acknowledgements a request adds when it ends.
LEMMA AnswerIsHonest ==
  ASSUME IInv, OrderStep, NEW h \in Handlers, NEW done \in BOOLEAN,
         acked' = Answered(h, done),
         done => order'[job[h].n] = "PAID" /\ job[h].n \in invoiced'
  PROVE  AckMeansApplied'
BY PaidStaysPaid DEF IInv, AckMeansApplied, Answered

LEMMA AckStep == IInv /\ [Next]_vars => AckMeansApplied'
<1>. SUFFICES ASSUME IInv, [Next]_vars PROVE AckMeansApplied'
  OBVIOUS
<1>0. OrderStep
  BY EveryStepIsAnOrderStep
<1>1. CASE acked' = acked
  BY <1>0, <1>1, PaidStaysPaid DEF IInv, AckMeansApplied
<1>2. ASSUME NEW h \in Handlers, End(h, FALSE) PROVE AckMeansApplied'
  BY <1>0, <1>2, AnswerIsHonest DEF End
<1>3. ASSUME NEW h \in Handlers, RecordAgain(h) PROVE AckMeansApplied'
  <2>1. job[h].n \in Orders
    BY JobFields DEF IInv
  <2>2. order'[job[h].n] = "PAID" /\ job[h].n \in invoiced'
    BY <1>3, <2>1 DEF RecordAgain
  <2>. QED
    BY <1>0, <1>3, <2>2, AnswerIsHonest DEF RecordAgain
<1>4. ASSUME NEW h \in Handlers, LookUp(h) PROVE AckMeansApplied'
  <2>1. CASE acked' = acked
    BY <1>1, <2>1
  <2>2. CASE End(h, TRUE) /\ order[job[h].n] = "PAID"
    <3>1. job[h].n \in Orders /\ job[h].n \in invoiced
      BY <2>2, JobFields DEF IInv, AppliedOnce
    <3>2. order'[job[h].n] = "PAID" /\ job[h].n \in invoiced'
      BY <2>2, <3>1, <1>0, PaidStaysPaid DEF IInv
    <3>. QED
      BY <1>0, <2>2, <3>2, AnswerIsHonest DEF End
  <2>. QED
    BY <1>4, <2>1, <2>2 DEF LookUp
<1>5. ASSUME NEW h \in Handlers, Commit(h) PROVE AckMeansApplied'
  <2>1. CASE End(h, FALSE)
    BY <1>2, <2>1
  <2>2. CASE ~End(h, FALSE)
    <3>1. job[h].n \in Orders
      BY JobFields DEF IInv
    <3>2. order'[job[h].n] = "PAID" /\ job[h].n \in invoiced'
      BY <1>5, <2>2, <3>1 DEF Commit, IInv, TypeOK
    <3>3. acked' = Answered(h, TRUE)
      BY <1>5, <2>2 DEF Commit
    <3>. QED
      BY <1>0, <3>2, <3>3, AnswerIsHonest
  <2>. QED
    BY <2>1, <2>2
<1>6. ASSUME NEW h \in Handlers,
             CreateByKey(h) \/ ReadOrder(h) \/ MarkPaid(h) \/ Timeout(h)
      PROVE  AckMeansApplied'
  BY <1>1, <1>2, <1>3, <1>6 DEF CreateByKey, ReadOrder, MarkPaid, Timeout
<1>7. ASSUME NEW h \in Handlers,
             \/ ReadExpiry(h) \/ WriteExpiry(h) \/ RecordInvoice(h)
             \/ Activate(h) \/ StampPeriod(h) \/ ReadTier(h) \/ LiftBlock(h)
             \/ RaiseTier(h) \/ ResetSpend(h) \/ AddUsage(h)
             \/ StampUsagePeriod(h) \/ Crash(h)
      PROVE  AckMeansApplied'
  BY <1>1, <1>7 DEF ReadExpiry, WriteExpiry, RecordInvoice, Activate,
     StampPeriod, ReadTier, LiftBlock, RaiseTier, ResetSpend, AddUsage,
     StampUsagePeriod, Crash, Statement
<1>8. ASSUME NEW n \in Orders, CreateOrder(n) \/ Capture(n) \/ FailedWebhook(n)
      PROVE  AckMeansApplied'
  BY <1>1, <1>8 DEF CreateOrder, Capture, FailedWebhook
<1>9. ASSUME NEW h \in Handlers, NEW n \in Orders,
             PaidWebhook(h, n) \/ TopUp(h, n) \/ DrakarisWebhook(h, n)
      PROVE  AckMeansApplied'
  BY <1>1, <1>9 DEF PaidWebhook, TopUp, DrakarisWebhook, Receive
<1>10. ASSUME NEW h \in Handlers, NEW o \in Orgs, MeterUsage(h, o)
       PROVE  AckMeansApplied'
  BY <1>1, <1>10 DEF MeterUsage
<1>11. CASE UNCHANGED vars
  BY <1>1, <1>11 DEF vars
<1>. QED
  BY <1>4, <1>5, <1>6, <1>7, <1>8, <1>9, <1>10, <1>11 DEF Next, Serve

--------------------------------------------------------------------------------
(* A transaction that marked its order holds it                            *)

Own(h) ==
  /\ job[h].pc \in TxPcs => job[h].open
  /\ Holds(h) => /\ lock[OrderRow(job[h].n)] = h
                 /\ order[job[h].n] = "PENDING"

\* No job but h's changes, no lock of another handler is released, and an
\* order that another handler holds keeps its status.
OnlyTouches(h) ==
  /\ \A g \in Handlers \ {h} : job'[g] = job[g]
  /\ \A g \in Handlers \ {h}, n \in Orders :
       lock[OrderRow(n)] = g => lock'[OrderRow(n)] = g
  /\ \A n \in Orders :
       \/ order'[n] = order[n]
       \/ order[n] = "NONE"
       \/ lock[OrderRow(n)] \in {h, Nobody}

LEMMA OthersKeepTheirs ==
  ASSUME IInv, NEW h \in Handlers, OnlyTouches(h), Own(h)'
  PROVE  HoldersOwnTheirOrders'
<1>1. ASSUME NEW g \in Handlers \ {h} PROVE Own(g)'
  <2>1. job'[g] = job[g] /\ job[g].n \in Orders /\ Own(g)
    BY JobFields DEF OnlyTouches, IInv, HoldersOwnTheirOrders, Own
  <2>2. CASE Holds(g)
    <3>1. lock[OrderRow(job[g].n)] = g /\ order[job[g].n] = "PENDING"
      BY <2>1, <2>2 DEF Own
    <3>2. lock'[OrderRow(job[g].n)] = g
      BY <2>1, <3>1 DEF OnlyTouches
    <3>3. order'[job[g].n] = "PENDING"
      BY <2>1, <3>1, HandlersAssumption DEF OnlyTouches
    <3>. QED
      BY <2>1, <3>2, <3>3 DEF Own, Holds
  <2>. QED
    BY <2>1, <2>2 DEF Own, Holds
<1>. QED
  BY <1>1 DEF HoldersOwnTheirOrders, Own

\* Steps that end a request: the job is idle and holds nothing.
LEMMA FinishKeeps ==
  ASSUME IInv, NEW h \in Handlers, Finish(h),
         \A n \in Orders : \/ order'[n] = order[n] \/ order[n] = "NONE"
                          \/ lock[OrderRow(n)] \in {h, Nobody}
  PROVE  HoldersOwnTheirOrders'
<1>1. job'[h].pc = "idle"
  BY DEF IInv, TypeOK, Finish, Idle
<1>2. Own(h)'
  BY <1>1 DEF Own, Holds, TxPcs, MarkedPcs, SettlePcs
<1>3. OnlyTouches(h)
  BY RowsAreDistinct, HandlersAssumption DEF IInv, TypeOK, Finish, Released, OnlyTouches
<1>. QED
  BY <1>2, <1>3, OthersKeepTheirs

LEMMA EndKeeps ==
  ASSUME IInv, NEW h \in Handlers, NEW done, End(h, done)
  PROVE  HoldersOwnTheirOrders'
BY FinishKeeps DEF End, books

LEMMA RecordAgainKeeps ==
  ASSUME IInv, NEW h \in Handlers, RecordAgain(h)
  PROVE  HoldersOwnTheirOrders'
BY FinishKeeps DEF RecordAgain

\* Steps that change no order and no lock, and whose job goes on.
LEMMA GoKeeps ==
  ASSUME IInv, NEW h \in Handlers, NEW j, job' = [job EXCEPT ![h] = j],
         UNCHANGED <<order, lock>>,
         j.pc \in TxPcs => j.open,
         j.open /\ j.pc \in MarkedPcs \cup SettlePcs \cup {"commit"} =>
           Holds(h) /\ j.n = job[h].n
  PROVE  HoldersOwnTheirOrders'
<1>1. job'[h] = j /\ \A g \in Handlers \ {h} : job'[g] = job[g]
  BY DEF IInv, TypeOK
<1>2. OnlyTouches(h)
  BY <1>1 DEF OnlyTouches
<1>3. Own(h)'
  BY <1>1 DEF Own, Holds, IInv, HoldersOwnTheirOrders
<1>. QED
  BY <1>2, <1>3, OthersKeepTheirs

\* Steps that take a row of an organisation or a subscription.
LEMMA TakeKeeps ==
  ASSUME IInv, NEW h \in Handlers, NEW j, job' = [job EXCEPT ![h] = j],
         NEW r \in Rows, Free(r), Take(h, r), UNCHANGED order,
         \A n \in Orders : r # OrderRow(n),
         j.pc \in TxPcs => j.open,
         j.open /\ j.pc \in MarkedPcs \cup SettlePcs \cup {"commit"} =>
           Holds(h) /\ j.n = job[h].n
  PROVE  HoldersOwnTheirOrders'
<1>1. job'[h] = j /\ \A g \in Handlers \ {h} : job'[g] = job[g]
  BY DEF IInv, TypeOK
<1>2. \A n \in Orders : lock'[OrderRow(n)] = lock[OrderRow(n)]
  BY RowsAreDistinct DEF Take, IInv, TypeOK
<1>3. OnlyTouches(h)
  BY <1>1, <1>2 DEF OnlyTouches
<1>4. Own(h)'
  BY <1>1, <1>2, JobFields DEF Own, Holds, IInv, HoldersOwnTheirOrders
<1>. QED
  BY <1>3, <1>4, OthersKeepTheirs

LEMMA StatementKeeps ==
  ASSUME IInv, NEW h \in Handlers, NEW pc \in SettlePcs, NEW r,
         NEW next \in SettlePcs, Statement(h, pc, r, next)
  PROVE  HoldersOwnTheirOrders'
<1>. DEFINE j == [job[h] EXCEPT !.pc = next]
<1>1. job' = [job EXCEPT ![h] = j]
  BY DEF Statement, Go, IInv, TypeOK
<1>2. j.pc = next /\ j.open = job[h].open /\ j.n = job[h].n
  BY JobFields DEF IInv, Job
<1>3. next \notin TxPcs
  BY DEF TxPcs, SettlePcs
<1>4. job[h].pc = pc
  BY DEF Statement
<1>5. j.open => Holds(h)
  BY <1>2, <1>4 DEF Holds
<1>6. UNCHANGED <<order, lock>>
  BY DEF Statement, books
<1>. HIDE DEF j
<1>. QED
  BY <1>1, <1>2, <1>3, <1>5, <1>6, GoKeeps

LEMMA HoldersStep == IInv /\ [Next]_vars => HoldersOwnTheirOrders'
<1>. SUFFICES ASSUME IInv, [Next]_vars PROVE HoldersOwnTheirOrders'
  OBVIOUS
<1>1. ASSUME NEW n \in Orders, CreateOrder(n) \/ Capture(n) \/ FailedWebhook(n)
      PROVE  HoldersOwnTheirOrders'
  <2>1. UNCHANGED <<job, lock>>
    BY <1>1 DEF CreateOrder, Capture, FailedWebhook
  <2>2. \A m \in Orders : \/ order'[m] = order[m] \/ order[m] = "NONE"
                          \/ lock[OrderRow(m)] = Nobody
    BY <1>1 DEF CreateOrder, Capture, FailedWebhook, Free, books, IInv, TypeOK
  <2>3. ASSUME NEW h \in Handlers PROVE Own(h)'
    <3>1. Own(h) /\ job[h].n \in Orders
      BY JobFields DEF IInv, HoldersOwnTheirOrders, Own
    <3>. QED
      BY <2>1, <2>2, <3>1, HandlersAssumption DEF Own, Holds
  <2>. QED
    BY <2>3 DEF HoldersOwnTheirOrders, Own
<1>2. ASSUME NEW h \in Handlers, NEW n \in Orders,
             PaidWebhook(h, n) \/ TopUp(h, n) \/ DrakarisWebhook(h, n)
      PROVE  HoldersOwnTheirOrders'
  <2>1. PICK via \in Entries, pc \in {"read", "lookup"} : Receive(h, n, via, pc)
    BY <1>2 DEF PaidWebhook, TopUp, DrakarisWebhook, Entries
  <2>. DEFINE j == [Idle EXCEPT !.pc = pc, !.via = via, !.n = n]
  <2>2. j.pc = pc /\ job' = [job EXCEPT ![h] = j] /\ UNCHANGED <<order, lock>>
    BY <2>1, IdleType DEF Receive, books, Job
  <2>3. pc \notin TxPcs \cup MarkedPcs \cup SettlePcs \cup {"commit"}
    BY DEF TxPcs, MarkedPcs, SettlePcs
  <2>. HIDE DEF j
  <2>. QED
    BY <2>2, <2>3, GoKeeps
<1>3. ASSUME NEW h \in Handlers, NEW o \in Orgs, MeterUsage(h, o)
      PROVE  HoldersOwnTheirOrders'
  <2>. DEFINE j == [Idle EXCEPT !.pc = "usage", !.open = TRUE, !.org = o]
  <2>1. j.pc = "usage" /\ job' = [job EXCEPT ![h] = j] /\ UNCHANGED <<order, lock>>
    BY <1>3, IdleType DEF MeterUsage, books, Job
  <2>2. "usage" \notin TxPcs \cup MarkedPcs \cup SettlePcs \cup {"commit"}
    BY DEF TxPcs, MarkedPcs, SettlePcs
  <2>. HIDE DEF j
  <2>. QED
    BY <2>1, <2>2, GoKeeps
<1>4. ASSUME NEW h \in Handlers, LookUp(h) PROVE HoldersOwnTheirOrders'
  <2>1. CASE End(h, TRUE)
    BY <2>1, EndKeeps
  <2>2. CASE ~End(h, TRUE)
    <3>. DEFINE pc == IF order[job[h].n] = "PENDING" THEN "read" ELSE "create"
                j == [job[h] EXCEPT !.pc = pc]
    <3>1. job' = [job EXCEPT ![h] = j] /\ UNCHANGED <<order, lock>>
      BY <1>4, <2>2 DEF LookUp, Go, books, IInv, TypeOK
    <3>2. j.pc = pc
      BY JobFields DEF IInv, Job
    <3>3. pc \notin TxPcs \cup MarkedPcs \cup SettlePcs \cup {"commit"}
      BY DEF TxPcs, MarkedPcs, SettlePcs
    <3>. HIDE DEF j, pc
    <3>. QED
      BY <3>1, <3>2, <3>3, GoKeeps
  <2>. QED
    BY <2>1, <2>2
<1>5. ASSUME NEW h \in Handlers, CreateByKey(h) PROVE HoldersOwnTheirOrders'
  <2>1. CASE End(h, FALSE)
    BY <2>1, EndKeeps
  <2>2. CASE ~End(h, FALSE)
    <3>. DEFINE j == [job[h] EXCEPT !.pc = "read"]
    <3>0. job[h].n \in Orders /\ order[job[h].n] = "NONE" /\ lock' = lock
          /\ order' = [order EXCEPT ![job[h].n] = "PENDING"] /\ Go(h, "read")
      BY <1>5, <2>2, JobFields DEF CreateByKey, IInv
    <3>1. job' = [job EXCEPT ![h] = j] /\ j.pc = "read"
      BY <3>0, JobFields DEF Go, IInv, TypeOK, Job
    <3>. HIDE DEF j
    <3>2. job'[h].pc = "read" /\ \A g \in Handlers \ {h} : job'[g] = job[g]
      BY <3>1 DEF IInv, TypeOK
    <3>3. Own(h)'
      BY <3>2 DEF Own, Holds, TxPcs, MarkedPcs, SettlePcs
    <3>4. OnlyTouches(h)
      BY <3>0, <3>2 DEF OnlyTouches, IInv, TypeOK
    <3>. QED
      BY <3>3, <3>4, OthersKeepTheirs
  <2>. QED
    BY <2>1, <2>2
<1>6. ASSUME NEW h \in Handlers, ReadOrder(h) PROVE HoldersOwnTheirOrders'
  <2>1. CASE End(h, FALSE) \/ RecordAgain(h)
    BY <2>1, EndKeeps, RecordAgainKeeps
  <2>2. CASE ~(End(h, FALSE) \/ RecordAgain(h))
    <3>1. PICK j \in Job : /\ j.pc = "mark" /\ j.open = TRUE
                           /\ job' = [job EXCEPT ![h] = j]
      <4>. DEFINE k == [job[h] EXCEPT !.pc = "mark", !.open = TRUE]
      <4>1. k \in Job /\ k.pc = "mark" /\ k.open = TRUE
        BY JobFields DEF IInv, Job, Pcs, TxPcs
      <4>2. job' = [job EXCEPT ![h] = k]
        BY <1>6, <2>2 DEF ReadOrder, IInv, TypeOK
      <4>. HIDE DEF k
      <4>. QED
        BY <4>1, <4>2
    <3>2. UNCHANGED <<order, lock>>
      BY <1>6, <2>2 DEF ReadOrder, books
    <3>3. "mark" \notin MarkedPcs \cup SettlePcs \cup {"commit"}
      BY DEF MarkedPcs, SettlePcs
    <3>. QED
      BY <3>1, <3>2, <3>3, GoKeeps
  <2>. QED
    BY <2>1, <2>2
<1>7. ASSUME NEW h \in Handlers, MarkPaid(h) PROVE HoldersOwnTheirOrders'
  <2>1. CASE End(h, FALSE) \/ RecordAgain(h)
    BY <2>1, EndKeeps, RecordAgainKeeps
  <2>2. CASE ~(End(h, FALSE) \/ RecordAgain(h))
    <3>. DEFINE n == job[h].n
                j == [job[h] EXCEPT !.pc = "extend"]
    <3>0. /\ n \in Orders /\ OrderRow(n) \in Rows
          /\ order[n] = "PENDING" /\ lock[OrderRow(n)] = Nobody
          /\ lock' = [lock EXCEPT ![OrderRow(n)] = h] /\ order' = order
          /\ Go(h, "extend") /\ job[h].pc = "mark" /\ job[h].open
      BY <1>7, <2>2, JobFields, RowsAreDistinct
         DEF MarkPaid, Take, Free, books, IInv, HoldersOwnTheirOrders, TxPcs
    <3>1. job' = [job EXCEPT ![h] = j] /\ j.n = n /\ j.open = job[h].open
      BY <3>0, JobFields DEF Go, IInv, TypeOK, Job
    <3>. HIDE DEF j
    <3>2. job'[h] = j /\ \A g \in Handlers \ {h} : job'[g] = job[g]
      BY <3>1 DEF IInv, TypeOK
    <3>3. lock'[OrderRow(n)] = h
      BY <3>0 DEF IInv, TypeOK
    <3>4. Own(h)'
      BY <3>0, <3>1, <3>2, <3>3 DEF Own
    <3>5. \A g \in Handlers \ {h}, m \in Orders :
            lock[OrderRow(m)] = g => lock'[OrderRow(m)] = g
      BY <3>0, HandlersAssumption, RowsAreDistinct DEF IInv, TypeOK
    <3>6. OnlyTouches(h)
      BY <3>0, <3>2, <3>5 DEF OnlyTouches
    <3>. QED
      BY <3>4, <3>6, OthersKeepTheirs
  <2>. QED
    BY <2>1, <2>2
<1>8. ASSUME NEW h \in Handlers, ReadExpiry(h) PROVE HoldersOwnTheirOrders'
  <2>1. PICK j \in Job : /\ j.pc = "write" /\ j.n = job[h].n
                         /\ j.open = job[h].open /\ job' = [job EXCEPT ![h] = j]
    <3>. DEFINE k == [job[h] EXCEPT !.pc = "write", !.seen = until[OrgOf[job[h].n]]]
    <3>1. until[OrgOf[job[h].n]] \in Nat
      BY JobFields DEF IInv, TypeOK
    <3>2. k \in Job /\ k.pc = "write" /\ k.n = job[h].n /\ k.open = job[h].open
      BY <3>1, JobFields DEF IInv, Job, Pcs, TxPcs
    <3>3. job' = [job EXCEPT ![h] = k]
      BY <1>8 DEF ReadExpiry, IInv, TypeOK
    <3>. HIDE DEF k
    <3>. QED
      BY <3>2, <3>3
  <2>2. UNCHANGED <<order, lock>> /\ job[h].pc = "extend" /\ job[h].open
    BY <1>8 DEF ReadExpiry, books, IInv, HoldersOwnTheirOrders, TxPcs
  <2>3. Holds(h)
    BY <2>2 DEF Holds, MarkedPcs
  <2>. QED
    BY <2>1, <2>2, <2>3, GoKeeps
<1>9. ASSUME NEW h \in Handlers, WriteExpiry(h) PROVE HoldersOwnTheirOrders'
  <2>. DEFINE r == SubRow(OrgOf[job[h].n])
  <2>1. PICK j \in Job : /\ j.pc = "record" /\ j.n = job[h].n
                         /\ j.open = job[h].open /\ job' = [job EXCEPT ![h] = j]
    <3>. DEFINE k == [job[h] EXCEPT !.pc = "record",
                                    !.until = Extended(job[h].seen, job[h].n)]
    <3>1. Extended(job[h].seen, job[h].n) \in Nat
      BY JobFields, OrdersAssumption, SubscriptionsAssumption
         DEF Extended, Later, IInv
    <3>2. k \in Job /\ k.pc = "record" /\ k.n = job[h].n /\ k.open = job[h].open
      BY <3>1, JobFields DEF IInv, Job, Pcs, TxPcs
    <3>3. job' = [job EXCEPT ![h] = k]
      BY <1>9 DEF WriteExpiry, IInv, TypeOK
    <3>. HIDE DEF k
    <3>. QED
      BY <3>2, <3>3
  <2>2. job[h].pc = "write" /\ job[h].open
    BY <1>9 DEF WriteExpiry, IInv, HoldersOwnTheirOrders, TxPcs
  <2>3. Holds(h)
    BY <2>2 DEF Holds, MarkedPcs
  <2>4. /\ r \in Rows /\ \A n \in Orders : r # OrderRow(n)
        /\ Free(r) /\ Take(h, r) /\ UNCHANGED order
    BY <1>9, RowsAreDistinct, JobFields DEF WriteExpiry, IInv, books
  <2>. HIDE DEF r
  <2>. QED
    BY <2>1, <2>2, <2>3, <2>4, TakeKeeps
<1>10. ASSUME NEW h \in Handlers, RecordInvoice(h) PROVE HoldersOwnTheirOrders'
  <2>. DEFINE r == OrgRow(OrgOf[job[h].n])
              k == [job[h] EXCEPT !.todo = Settled(job[h].n)]
  <2>1. k \in Job /\ k.n = job[h].n /\ k.open = job[h].open
    BY JobFields DEF IInv, Job, Settled
  <2>2. PICK j \in SettleNext(k) : job' = [job EXCEPT ![h] = j]
    BY <1>10 DEF RecordInvoice, IInv, TypeOK
  <2>3. /\ j.n = job[h].n /\ j.open = job[h].open
        /\ j.pc \in {"activate", "commit"}
    BY <2>1, SettleNextType
  <2>4. job[h].pc = "record" /\ job[h].open
    BY <1>10 DEF RecordInvoice, IInv, HoldersOwnTheirOrders, TxPcs
  <2>5. Holds(h)
    BY <2>4 DEF Holds, MarkedPcs
  <2>6. /\ r \in Rows /\ \A n \in Orders : r # OrderRow(n)
        /\ Free(r) /\ Take(h, r) /\ UNCHANGED order
    BY <1>10, RowsAreDistinct, JobFields DEF RecordInvoice, IInv, books
  <2>. HIDE DEF r
  <2>. QED
    BY <2>2, <2>3, <2>4, <2>5, <2>6, TakeKeeps
<1>11. ASSUME NEW h \in Handlers, Commit(h) PROVE HoldersOwnTheirOrders'
  <2>1. CASE End(h, FALSE)
    BY <2>1, EndKeeps
  <2>2. CASE ~End(h, FALSE)
    <3>1. /\ job[h].n \in Orders /\ job[h].open /\ job[h].pc = "commit"
          /\ order' = [order EXCEPT ![job[h].n] = "PAID"] /\ Finish(h)
      BY <1>11, <2>2, JobFields DEF Commit, IInv
    <3>2. lock[OrderRow(job[h].n)] = h
      BY <3>1 DEF Holds, IInv, HoldersOwnTheirOrders
    <3>. QED
      BY <3>1, <3>2, FinishKeeps DEF IInv, TypeOK
  <2>. QED
    BY <2>1, <2>2
<1>12. ASSUME NEW h \in Handlers, Activate(h) PROVE HoldersOwnTheirOrders'
  BY <1>12, StatementKeeps DEF Activate, SettlePcs
<1>13. ASSUME NEW h \in Handlers, StampPeriod(h) PROVE HoldersOwnTheirOrders'
  <2>. DEFINE next == IF job[h].n \in Unlocks /\ job[h].org = OrgOf[job[h].n]
                      THEN "tier" ELSE "spend"
  <2>1. next \in SettlePcs /\ "period" \in SettlePcs
    BY DEF SettlePcs
  <2>2. Statement(h, "period", SubRow(job[h].org), next)
    BY <1>13 DEF StampPeriod
  <2>. HIDE DEF next
  <2>. QED
    BY <2>1, <2>2, StatementKeeps
<1>14. ASSUME NEW h \in Handlers, LiftBlock(h) PROVE HoldersOwnTheirOrders'
  BY <1>14, StatementKeeps DEF LiftBlock, SettlePcs
<1>15. ASSUME NEW h \in Handlers, ReadTier(h) PROVE HoldersOwnTheirOrders'
  <2>1. PICK j \in Job : /\ j.pc = "lift" /\ j.n = job[h].n
                         /\ j.open = job[h].open /\ job' = [job EXCEPT ![h] = j]
    <3>. DEFINE k == [job[h] EXCEPT !.pc = "lift", !.seen = tier[job[h].org]]
    <3>1. tier[job[h].org] \in Nat
      BY JobFields, SubscriptionsAssumption DEF IInv, TypeOK
    <3>2. k \in Job /\ k.pc = "lift" /\ k.n = job[h].n /\ k.open = job[h].open
      BY <3>1, JobFields DEF IInv, Job, Pcs, SettlePcs
    <3>3. job' = [job EXCEPT ![h] = k]
      BY <1>15 DEF ReadTier, IInv, TypeOK
    <3>. HIDE DEF k
    <3>. QED
      BY <3>2, <3>3
  <2>2. UNCHANGED <<order, lock>> /\ job[h].pc = "tier"
    BY <1>15 DEF ReadTier, books
  <2>3. job[h].open => Holds(h)
    BY <2>2 DEF Holds, SettlePcs
  <2>4. "lift" \notin TxPcs
    BY DEF TxPcs
  <2>. QED
    BY <2>1, <2>2, <2>3, <2>4, GoKeeps
<1>16. ASSUME NEW h \in Handlers, RaiseTier(h) \/ ResetSpend(h)
       PROVE  HoldersOwnTheirOrders'
  <2>1. PICK j \in SettleNext(job[h]) : job' = [job EXCEPT ![h] = j]
    BY <1>16 DEF RaiseTier, ResetSpend, IInv, TypeOK
  <2>2. /\ j.n = job[h].n /\ j.open = job[h].open
        /\ j.pc \in {"activate", "commit"}
    BY SettleNextType, JobFields DEF IInv
  <2>3. UNCHANGED <<order, lock>> /\ job[h].pc \in SettlePcs
    BY <1>16 DEF RaiseTier, ResetSpend, books, SettlePcs
  <2>4. job[h].open => Holds(h)
    BY <2>3 DEF Holds
  <2>5. j.pc \notin TxPcs
    BY <2>2 DEF TxPcs
  <2>. QED
    BY <2>1, <2>2, <2>3, <2>4, <2>5, GoKeeps
<1>17. ASSUME NEW h \in Handlers, AddUsage(h) PROVE HoldersOwnTheirOrders'
  <2>. DEFINE r == OrgRow(job[h].org)
              j == [job[h] EXCEPT !.pc = "meter"]
  <2>1. job' = [job EXCEPT ![h] = j] /\ j.pc = "meter"
    BY <1>17, JobFields DEF AddUsage, Go, IInv, TypeOK, Job
  <2>2. "meter" \notin TxPcs \cup MarkedPcs \cup SettlePcs \cup {"commit"}
    BY DEF TxPcs, MarkedPcs, SettlePcs
  <2>3. /\ r \in Rows /\ \A n \in Orders : r # OrderRow(n)
        /\ Free(r) /\ Take(h, r) /\ UNCHANGED order
    BY <1>17, RowsAreDistinct, JobFields DEF AddUsage, IInv, books
  <2>. HIDE DEF r, j
  <2>. QED
    BY <2>1, <2>2, <2>3, TakeKeeps
<1>18. ASSUME NEW h \in Handlers, StampUsagePeriod(h) \/ Crash(h)
       PROVE  HoldersOwnTheirOrders'
  BY <1>18, FinishKeeps DEF StampUsagePeriod, Crash, books
<1>19. ASSUME NEW h \in Handlers, Timeout(h) PROVE HoldersOwnTheirOrders'
  <2>1. CASE End(h, FALSE)
    BY <2>1, EndKeeps
  <2>2. CASE Close(h) /\ UNCHANGED <<books, tier, captured, acked>>
            /\ job[h].pc \in SettlePcs \cup {"commit"}
    <3>1. /\ job'[h].open = FALSE /\ job'[h].pc = job[h].pc
          /\ \A g \in Handlers \ {h} : job'[g] = job[g]
      BY <2>2, JobFields DEF Close, IInv, TypeOK, Job
    <3>2. Own(h)'
      BY <2>2, <3>1 DEF Own, Holds, TxPcs, SettlePcs
    <3>3. OnlyTouches(h)
      BY <2>2, <3>1, RowsAreDistinct, HandlersAssumption
         DEF Close, Released, OnlyTouches, IInv, TypeOK, books
    <3>. QED
      BY <3>2, <3>3, OthersKeepTheirs
  <2>. QED
    BY <1>19, <2>1, <2>2 DEF Timeout
<1>20. CASE UNCHANGED vars
  BY <1>20 DEF vars, IInv, HoldersOwnTheirOrders, Holds
<1>. QED
  BY <1>1, <1>2, <1>3, <1>4, <1>5, <1>6, <1>7, <1>8, <1>9, <1>10, <1>11, <1>12,
     <1>13, <1>14, <1>15, <1>16, <1>17, <1>18, <1>19, <1>20
     DEF Next, Serve

--------------------------------------------------------------------------------
(* The theorems                                                            *)

LEMMA InvariantHoldsAtFirst == Init => IInv
<1>. SUFFICES ASSUME Init PROVE IInv
  OBVIOUS
<1>1. TypeOK
  BY IdleType, SubscriptionsAssumption DEF Init, TypeOK, Statuses
<1>2. AppliedOnce /\ AckMeansApplied
  BY DEF Init, AppliedOnce, AckMeansApplied
<1>3. \A h \in Handlers : job[h].pc = "idle"
  BY DEF Init, Idle
<1>4. HoldersOwnTheirOrders
  BY <1>3 DEF HoldersOwnTheirOrders, Holds, TxPcs, MarkedPcs, SettlePcs
<1>. QED
  BY <1>1, <1>2, <1>4 DEF IInv

LEMMA InvariantIsKept == IInv /\ [Next]_vars => IInv'
BY TypeStep, EveryStepIsAnOrderStep, AppliedOnceStep, AckStep, HoldersStep DEF IInv

LEMMA InvariantHolds == Spec => []IInv
BY InvariantHoldsAtFirst, InvariantIsKept, PTL DEF Spec

\* The variables keep their types, a tier never passes the last one.
THEOREM OrderTypes == Spec => []TypeOK
BY InvariantHolds, PTL DEF IInv

\* finalizePaidOrder applies an order once, whatever is delivered again,
\* times out or stops (TZ.md 14.8.8).
THEOREM OrderAppliedOnce == Spec => []AppliedOnce
BY InvariantHolds, PTL DEF IInv

\* A webhook or a top-up that is answered with success has been applied.
THEOREM AcknowledgedIsApplied == Spec => []AckMeansApplied
BY InvariantHolds, PTL DEF IInv

LEMMA OrderStepIsLifeStep == OrderStep => [Life!Next]_Life!vars
<1>1. CASE OrdersUnchanged
  BY <1>1 DEF OrdersUnchanged, Life!vars
<1>2. ASSUME NEW n \in Orders, Opens(n) PROVE Life!Open(n)
  BY <1>2 DEF Opens, Moves, Life!Open
<1>3. ASSUME NEW n \in Orders, Fails(n) PROVE Life!Fail(n)
  BY <1>3 DEF Fails, Moves, Life!Fail
<1>4. ASSUME NEW n \in Orders, Pays(n) PROVE Life!Pay(n)
  BY <1>4 DEF Pays, Moves, Life!Pay
<1>. QED
  BY <1>1, <1>2, <1>3, <1>4 DEF OrderStep, Life!Next

\* The code's orders live as OrderLife says: each step of a request opens,
\* fails or pays one order, or leaves the orders alone.
THEOREM OrdersImplementLife == Spec => OrdersLiveOnce
<1>1. Init => Life!Init
  BY DEF Init, Life!Init
<1>2. IInv /\ [Next]_vars => [Life!Next]_Life!vars
  BY EveryStepIsAnOrderStep, OrderStepIsLifeStep
<1>. QED
  BY <1>1, <1>2, InvariantHolds, PTL DEF Spec, Life!Spec, OrdersLiveOnce

--------------------------------------------------------------------------------
(* A subscription runs no longer than its paid orders pay for.  What a     *)
(* transaction has read or written of it stays within what is paid, counted *)
(* with its own order: the sum only grows, and the order of an open         *)
(* transaction is not in it yet.                                            *)

\* The month a subscription may run until.
Limit(o) == Later(PaidUntil[o], Now) + SumOn(Months, PaidFor(o))

WrittenPcs == {"record", "commit"} \cup SettlePcs

JobWithin(j) ==
  /\ j.pc = "write" => j.seen <= Limit(OrgOf[j.n])
  /\ j.pc \in WrittenPcs => j.until <= Limit(OrgOf[j.n]) + Months[j.n]

JobsWithin == \A h \in Handlers : JobWithin(job[h])

PaidInv ==
  /\ \A o \in Orgs : IsFiniteSet(PaidFor(o)) /\ until[o] <= Limit(o)
  /\ JobsWithin

LEMMA MonthsAreValues ==
  ASSUME NEW o \in Orgs
  PROVE  Values(Months, PaidFor(o))
BY OrdersAssumption DEF Values, PaidFor

LEMMA LimitType ==
  ASSUME NEW o \in Orgs, IsFiniteSet(PaidFor(o))
  PROVE  /\ Limit(o) \in Int /\ Now <= Limit(o)
         /\ Later(PaidUntil[o], Now) \in Nat
<1>1. SumOn(Months, PaidFor(o)) \in Int
  BY MonthsAreValues, SumType
<1>2. Later(PaidUntil[o], Now) \in Nat /\ Now <= Later(PaidUntil[o], Now)
  BY SubscriptionsAssumption DEF Later
<1>3. 0 <= SumOn(Months, PaidFor(o))
  <2> DEFINE zero == [n \in PaidFor(o) |-> 0]
  <2>1. \A n \in PaidFor(o) : zero[n] = 0 /\ zero[n] <= Months[n]
    BY OrdersAssumption DEF PaidFor
  <2>2. Values(zero, PaidFor(o))
    BY DEF Values
  <2> HIDE DEF zero
  <2>3. SumOn(zero, PaidFor(o)) = 0
    BY <2>1, SumZero
  <2>4. SumOn(zero, PaidFor(o)) <= SumOn(Months, PaidFor(o))
    BY <2>1, <2>2, MonthsAreValues, SumMonotone
  <2> QED BY <2>3, <2>4
<1>4. Now \in Nat
  BY SubscriptionsAssumption
<1> QED BY <1>1, <1>2, <1>3, <1>4 DEF Limit

\* One more order is paid.
LEMMA OneMorePaid ==
  ASSUME NEW o \in Orgs, NEW n \in Orders, OrgOf[n] = o, TypeOK,
         IsFiniteSet(PaidFor(o)), order[n] # "PAID",
         order' = [order EXCEPT ![n] = "PAID"]
  PROVE  IsFiniteSet(PaidFor(o)') /\ Limit(o)' = Limit(o) + Months[n]
<1> DEFINE S == PaidFor(o)
           T == PaidFor(o)'
<1>1. T = S \cup {n} /\ n \notin S
  BY DEF PaidFor, TypeOK
<1>2. IsFiniteSet(T)
  BY <1>1, FS_AddElement
<1>3. T \ {n} = S /\ n \in T
  BY <1>1
<1>4. Values(Months, T) /\ Values(Months, S) /\ Months[n] \in Nat
  BY OrdersAssumption DEF Values, PaidFor
<1> HIDE DEF S, T
<1>5. SumOn(Months, T) = Months[n] + SumOn(Months, S)
  BY <1>2, <1>3, <1>4, SumRemove
<1>6. SumOn(Months, S) \in Int
  BY <1>4, SumType DEF S
<1>7. Limit(o) = Later(PaidUntil[o], Now) + SumOn(Months, S)
  BY DEF Limit, S
<1>8. Limit(o)' = Later(PaidUntil[o], Now) + SumOn(Months, T)
  BY DEF Limit, T
<1>9. Later(PaidUntil[o], Now) \in Nat
  BY LimitType
<1>10. Limit(o)' = Limit(o) + Months[n]
  BY <1>4, <1>5, <1>6, <1>7, <1>8, <1>9
<1> QED BY <1>2, <1>10 DEF T

\* What may be used is never less than before.
LEMMA LimitGrows ==
  ASSUME TypeOK, OrderStep, NEW o \in Orgs, IsFiniteSet(PaidFor(o))
  PROVE  IsFiniteSet(PaidFor(o)') /\ Limit(o) <= Limit(o)' /\ Limit(o)' \in Int
<1>0. Limit(o) \in Int
  BY LimitType
<1>1. CASE PaidFor(o)' = PaidFor(o)
  <2>1. Limit(o)' = Limit(o)
    BY <1>1 DEF Limit
  <2> QED BY <1>0, <1>1, <2>1
<1>2. CASE OrdersUnchanged
  <2>1. PaidFor(o)' = PaidFor(o)
    BY <1>2 DEF OrdersUnchanged, PaidFor
  <2> QED BY <1>1, <2>1
<1>3. ASSUME NEW n \in Orders, Opens(n) \/ Fails(n) \/ Pays(n), OrgOf[n] # o
      PROVE  PaidFor(o)' = PaidFor(o)
  BY <1>3 DEF PaidFor, Opens, Fails, Pays, Moves, TypeOK
<1>4. ASSUME NEW n \in Orders, Opens(n) \/ Fails(n)
      PROVE  PaidFor(o)' = PaidFor(o)
  BY <1>4 DEF PaidFor, Opens, Fails, Moves, TypeOK
<1>5. ASSUME NEW n \in Orders, Pays(n), OrgOf[n] = o
      PROVE  IsFiniteSet(PaidFor(o)') /\ Limit(o) <= Limit(o)' /\ Limit(o)' \in Int
  <2>1. Months[n] \in Nat
    BY OrdersAssumption
  <2>2. order[n] # "PAID" /\ order' = [order EXCEPT ![n] = "PAID"]
    BY <1>5 DEF Pays, Moves
  <2>3. IsFiniteSet(PaidFor(o)') /\ Limit(o)' = Limit(o) + Months[n]
    BY <1>5, <2>2, OneMorePaid
  <2> QED BY <1>0, <2>1, <2>3
<1> QED BY <1>1, <1>2, <1>3, <1>4, <1>5 DEF OrderStep

\* What is within the limit before a step is within it after.
LEMMA WithinStays ==
  ASSUME IInv, PaidInv, OrderStep, NEW j \in Job, JobWithin(j)
  PROVE  JobWithin(j)'
<1> DEFINE o == OrgOf[j.n]
<1>1. /\ o \in Orgs /\ j.seen \in Nat /\ j.until \in Nat /\ Months[j.n] \in Nat
  BY OrdersAssumption DEF Job
<1>2. IsFiniteSet(PaidFor(o)) /\ Limit(o) \in Int
  BY <1>1, LimitType DEF PaidInv
<1>3. Limit(o) <= Limit(o)' /\ Limit(o)' \in Int
  BY <1>1, <1>2, LimitGrows DEF IInv
<1>4. /\ j.pc = "write" => j.seen <= Limit(o)
      /\ j.pc \in WrittenPcs => j.until <= Limit(o) + Months[j.n]
  BY DEF JobWithin
<1> HIDE DEF o
<1>5. /\ j.pc = "write" => j.seen <= Limit(o)'
      /\ j.pc \in WrittenPcs => j.until <= Limit(o)' + Months[j.n]
  BY <1>1, <1>2, <1>3, <1>4
<1> QED BY <1>5 DEF JobWithin, o

LEMMA OneJobWithin ==
  ASSUME IInv, PaidInv, OrderStep, NEW h \in Handlers, NEW j \in Job,
         job' = [job EXCEPT ![h] = j], JobWithin(j)
  PROVE  JobsWithin'
<1>1. ASSUME NEW g \in Handlers PROVE JobWithin(job[g])'
  <2>1. job'[g] = IF g = h THEN j ELSE job[g]
    BY DEF IInv, TypeOK
  <2>2. PICK k \in Job : k = job'[g] /\ JobWithin(k)
    BY <2>1, JobFields DEF IInv, PaidInv, JobsWithin
  <2>3. JobWithin(k)'
    BY <2>2, WithinStays
  <2> QED BY <2>2, <2>3 DEF JobWithin, Limit, PaidFor
<1> QED BY <1>1 DEF JobsWithin

\* A job that is elsewhere has nothing to keep.
LEMMA ElsewhereWithin ==
  ASSUME NEW j, j.pc \notin {"write"} \cup WrittenPcs
  PROVE  JobWithin(j)
BY DEF JobWithin

LEMMA FinishWithin ==
  ASSUME IInv, PaidInv, OrderStep, NEW h \in Handlers, Finish(h)
  PROVE  JobsWithin'
<1>1. Idle.pc = "idle"
  BY DEF Idle
<1>2. JobWithin(Idle)
  BY <1>1, ElsewhereWithin DEF WrittenPcs, SettlePcs
<1> QED BY <1>2, IdleType, OneJobWithin DEF Finish

\* A job that goes on with what it has written.
LEMMA WrittenStays ==
  ASSUME NEW j \in Job, NEW k, JobWithin(j), j.pc \in WrittenPcs,
         k.n = j.n, k.until = j.until, k.pc # "write"
  PROVE  JobWithin(k)
BY DEF JobWithin

LEMMA GoWithin ==
  ASSUME IInv, PaidInv, OrderStep, NEW h \in Handlers, NEW pc \in Pcs, Go(h, pc),
         pc # "write", pc \in WrittenPcs => job[h].pc \in WrittenPcs
  PROVE  JobsWithin'
<1> DEFINE j == [job[h] EXCEPT !.pc = pc]
<1>1. /\ j \in Job /\ j.pc = pc /\ j.n = job[h].n /\ j.until = job[h].until
      /\ job[h] \in Job
  BY JobFields DEF IInv, Job
<1>2. job' = [job EXCEPT ![h] = j]
  BY DEF Go, IInv, TypeOK
<1> HIDE DEF j
<1>3. JobWithin(j)
  BY <1>1, ElsewhereWithin, WrittenStays DEF PaidInv, JobsWithin
<1> QED BY <1>1, <1>2, <1>3, OneJobWithin

LEMMA SettleWithin ==
  ASSUME IInv, PaidInv, OrderStep, NEW h \in Handlers, job[h].pc \in WrittenPcs,
         NEW todo \in SUBSET Orgs,
         NEW j \in SettleNext([job[h] EXCEPT !.todo = todo]),
         job' = [job EXCEPT ![h] = j]
  PROVE  JobsWithin'
<1> DEFINE k == [job[h] EXCEPT !.todo = todo]
<1>1. k \in Job /\ k.n = job[h].n /\ k.until = job[h].until
  BY JobFields DEF IInv, Job
<1>2. j \in Job /\ j.n = k.n /\ j.pc \in {"activate", "commit"}
  <2> HIDE DEF k
  <2> QED BY <1>1, SettleNextType DEF k
<1>3. j.until = k.until
  BY <1>1 DEF SettleNext, Job
<1> HIDE DEF k
<1>4. JobWithin(job[h]) /\ job[h] \in Job
  BY JobFields DEF IInv, PaidInv, JobsWithin
<1>5. JobWithin(j)
  BY <1>1, <1>2, <1>3, <1>4, WrittenStays
<1> QED BY <1>2, <1>5, OneJobWithin

\* The requests that are received and the steps before the order is marked.
LEMMA OpeningStepsWithin ==
  ASSUME IInv, PaidInv, OrderStep, NEW h \in Handlers,
         \/ \E n \in Orders : PaidWebhook(h, n) \/ TopUp(h, n) \/ DrakarisWebhook(h, n)
         \/ \E o \in Orgs : MeterUsage(h, o)
         \/ LookUp(h) \/ CreateByKey(h) \/ ReadOrder(h) \/ MarkPaid(h)
         \/ AddUsage(h) \/ StampUsagePeriod(h) \/ Crash(h)
  PROVE  JobsWithin'
<1>0. {"read", "lookup", "create", "mark", "extend", "meter", "usage"}
        \cap ({"write"} \cup WrittenPcs) = {}
  BY DEF WrittenPcs, SettlePcs
<1>1. CASE Finish(h)
  BY <1>1, FinishWithin
<1>2. ASSUME NEW n \in Orders,
             PaidWebhook(h, n) \/ TopUp(h, n) \/ DrakarisWebhook(h, n)
      PROVE  JobsWithin'
  <2>1. PICK via \in Entries, pc \in {"read", "lookup"} : Receive(h, n, via, pc)
    BY <1>2 DEF PaidWebhook, TopUp, DrakarisWebhook, Entries
  <2> DEFINE j == [Idle EXCEPT !.pc = pc, !.via = via, !.n = n]
  <2>2. j \in Job /\ j.pc = pc
    BY IdleType DEF Job, Pcs
  <2>3. job' = [job EXCEPT ![h] = j]
    BY <2>1 DEF Receive
  <2> HIDE DEF j
  <2> QED BY <1>0, <2>2, <2>3, ElsewhereWithin, OneJobWithin
<1>3. ASSUME NEW o \in Orgs, MeterUsage(h, o) PROVE JobsWithin'
  <2> DEFINE j == [Idle EXCEPT !.pc = "usage", !.open = TRUE, !.org = o]
  <2>1. j \in Job /\ j.pc = "usage"
    BY IdleType DEF Job, Pcs
  <2>2. job' = [job EXCEPT ![h] = j]
    BY <1>3 DEF MeterUsage
  <2> HIDE DEF j
  <2> QED BY <1>0, <2>1, <2>2, ElsewhereWithin, OneJobWithin
<1>4. ASSUME NEW pc \in {"read", "create", "extend", "meter"}, Go(h, pc)
      PROVE  JobsWithin'
  <2>1. pc \in Pcs
    BY DEF Pcs, TxPcs
  <2> QED BY <1>0, <1>4, <2>1, GoWithin
<1>5. CASE LookUp(h)
  <2>1. \/ Finish(h)
        \/ Go(h, IF order[job[h].n] = "PENDING" THEN "read" ELSE "create")
    BY <1>5 DEF LookUp, End
  <2> QED BY <1>1, <1>4, <2>1
<1>6. CASE CreateByKey(h) \/ AddUsage(h) \/ StampUsagePeriod(h) \/ Crash(h)
  BY <1>1, <1>4, <1>6 DEF CreateByKey, AddUsage, StampUsagePeriod, Crash, End
<1>7. CASE MarkPaid(h)
  BY <1>1, <1>4, <1>7 DEF MarkPaid, RecordAgain, End
<1>8. CASE ReadOrder(h)
  <2>1. Finish(h) \/ job' = [job EXCEPT ![h].pc = "mark", ![h].open = TRUE]
    BY <1>8 DEF ReadOrder, RecordAgain, End
  <2>2. CASE job' = [job EXCEPT ![h].pc = "mark", ![h].open = TRUE]
    <3> DEFINE j == [job[h] EXCEPT !.pc = "mark", !.open = TRUE]
    <3>1. j \in Job /\ j.pc = "mark"
      BY JobFields DEF IInv, Job, Pcs, TxPcs
    <3>2. job' = [job EXCEPT ![h] = j]
      BY <2>2 DEF IInv, TypeOK
    <3> HIDE DEF j
    <3> QED BY <1>0, <3>1, <3>2, ElsewhereWithin, OneJobWithin
  <2> QED BY <1>1, <2>1, <2>2
<1> QED BY <1>2, <1>3, <1>5, <1>6, <1>7, <1>8

LEMMA ReadExpiryWithin ==
  ASSUME IInv, PaidInv, OrderStep, NEW h \in Handlers, ReadExpiry(h)
  PROVE  JobsWithin'
<1> DEFINE o == OrgOf[job[h].n]
           j == [job[h] EXCEPT !.pc = "write", !.seen = until[o]]
<1>1. o \in Orgs /\ until[o] \in Nat
  BY JobFields DEF IInv, TypeOK
<1>2. j \in Job /\ j.pc = "write" /\ j.seen = until[o] /\ j.n = job[h].n
  BY <1>1, JobFields DEF IInv, Job, Pcs, TxPcs
<1>3. job' = [job EXCEPT ![h] = j]
  BY DEF ReadExpiry, IInv, TypeOK
<1>4. until[o] <= Limit(o)
  BY <1>1 DEF PaidInv
<1>5. "write" \notin WrittenPcs
  BY DEF WrittenPcs, SettlePcs
<1> HIDE DEF j
<1>6. JobWithin(j)
  BY <1>2, <1>4, <1>5 DEF JobWithin
<1> QED BY <1>2, <1>3, <1>6, OneJobWithin

LEMMA WriteExpiryWithin ==
  ASSUME IInv, PaidInv, OrderStep, NEW h \in Handlers, WriteExpiry(h)
  PROVE  JobsWithin'
<1> DEFINE n == job[h].n
           o == OrgOf[n]
           new == Extended(job[h].seen, n)
           j == [job[h] EXCEPT !.pc = "record", !.until = new]
<1>1. /\ n \in Orders /\ o \in Orgs /\ job[h].seen \in Nat /\ Now \in Nat
      /\ Months[n] \in Nat
  BY JobFields, OrdersAssumption, SubscriptionsAssumption DEF IInv
<1>2. new = Later(job[h].seen, Now) + Months[n] /\ new \in Nat
  BY <1>1 DEF Extended, Later
<1>3. job[h].seen <= Limit(o) /\ Now <= Limit(o) /\ Limit(o) \in Int
  <2>1. job[h].pc = "write" /\ JobWithin(job[h]) /\ IsFiniteSet(PaidFor(o))
    BY <1>1 DEF WriteExpiry, PaidInv, JobsWithin
  <2> QED BY <1>1, <2>1, LimitType DEF JobWithin
<1>4. Later(job[h].seen, Now) <= Limit(o) /\ Later(job[h].seen, Now) \in Nat
  BY <1>1, <1>3 DEF Later
<1>5. new <= Limit(o) + Months[n]
  BY <1>1, <1>2, <1>3, <1>4
<1>6. job' = [job EXCEPT ![h] = j]
  BY DEF WriteExpiry, IInv, TypeOK
<1> HIDE DEF new
<1>7. j \in Job /\ j.pc = "record" /\ j.until = new /\ j.n = n
  BY <1>2, JobFields DEF IInv, Job, Pcs, TxPcs
<1> HIDE DEF j
<1>8. JobWithin(j)
  BY <1>5, <1>7 DEF JobWithin
<1> QED BY <1>6, <1>7, <1>8, OneJobWithin

\* The steps after the subscription's new term is written.
LEMMA SettlingStepsWithin ==
  ASSUME IInv, PaidInv, OrderStep, NEW h \in Handlers,
         \/ RecordInvoice(h) \/ Activate(h) \/ StampPeriod(h) \/ ReadTier(h)
         \/ LiftBlock(h) \/ RaiseTier(h) \/ ResetSpend(h)
  PROVE  JobsWithin'
<1>0. /\ SettlePcs \subseteq Pcs /\ SettlePcs \subseteq WrittenPcs
      /\ "record" \in WrittenPcs /\ "write" \notin SettlePcs
  BY DEF Pcs, WrittenPcs, SettlePcs
<1>1. ASSUME NEW pc \in SettlePcs, NEW r, NEW next \in SettlePcs,
             Statement(h, pc, r, next)
      PROVE  JobsWithin'
  <2>1. Go(h, next) /\ job[h].pc = pc
    BY <1>1 DEF Statement
  <2> QED BY <1>0, <2>1, GoWithin
<1>2. CASE Activate(h) \/ LiftBlock(h)
  <2>1. {"activate", "period", "lift", "raise"} \subseteq SettlePcs
    BY DEF SettlePcs
  <2> QED BY <1>1, <1>2, <2>1 DEF Activate, LiftBlock
<1>3. CASE StampPeriod(h)
  <2> DEFINE next == IF job[h].n \in Unlocks /\ job[h].org = OrgOf[job[h].n]
                     THEN "tier" ELSE "spend"
  <2>1. "period" \in SettlePcs /\ next \in SettlePcs
    BY DEF SettlePcs
  <2>2. Statement(h, "period", SubRow(job[h].org), next)
    BY <1>3 DEF StampPeriod
  <2> HIDE DEF next
  <2> QED BY <1>1, <2>1, <2>2
<1>4. CASE ReadTier(h)
  <2> DEFINE j == [job[h] EXCEPT !.pc = "lift", !.seen = tier[job[h].org]]
  <2>1. tier[job[h].org] \in Nat
    BY JobFields, SubscriptionsAssumption DEF IInv, TypeOK
  <2>2. /\ j \in Job /\ j.pc = "lift" /\ j.n = job[h].n /\ j.until = job[h].until
        /\ job[h] \in Job
    BY <2>1, JobFields DEF IInv, Job, Pcs, SettlePcs
  <2>3. job' = [job EXCEPT ![h] = j] /\ job[h].pc = "tier"
    BY <1>4 DEF ReadTier, IInv, TypeOK
  <2>4. "tier" \in WrittenPcs
    BY DEF WrittenPcs, SettlePcs
  <2> HIDE DEF j
  <2>5. JobWithin(j)
    BY <2>2, <2>3, <2>4, WrittenStays DEF PaidInv, JobsWithin
  <2> QED BY <2>2, <2>3, <2>5, OneJobWithin
<1>5. CASE RecordInvoice(h)
  <2>1. Settled(job[h].n) \in SUBSET Orgs /\ job[h].pc \in WrittenPcs
    BY <1>0, <1>5 DEF Settled, RecordInvoice
  <2>2. PICK j \in SettleNext([job[h] EXCEPT !.todo = Settled(job[h].n)]) :
          job' = [job EXCEPT ![h] = j]
    BY <1>5 DEF RecordInvoice
  <2> QED BY <2>1, <2>2, SettleWithin
<1>6. CASE RaiseTier(h) \/ ResetSpend(h)
  <2>1. PICK j \in SettleNext(job[h]) : job' = [job EXCEPT ![h] = j]
    BY <1>6 DEF RaiseTier, ResetSpend
  <2>2. job[h].pc \in WrittenPcs
    BY <1>0, <1>6 DEF RaiseTier, ResetSpend, SettlePcs
  <2>3. job[h] = [job[h] EXCEPT !.todo = job[h].todo] /\ job[h].todo \in SUBSET Orgs
    BY JobFields DEF IInv, Job
  <2> QED BY <2>1, <2>2, <2>3, SettleWithin
<1> QED BY <1>2, <1>3, <1>4, <1>5, <1>6

LEMMA TimeoutWithin ==
  ASSUME IInv, PaidInv, OrderStep, NEW h \in Handlers, Timeout(h)
  PROVE  JobsWithin'
<1>1. CASE Finish(h)
  BY <1>1, FinishWithin
<1>2. CASE Close(h)
  <2> DEFINE j == [job[h] EXCEPT !.open = FALSE]
  <2>1. /\ j \in Job /\ j.pc = job[h].pc /\ j.n = job[h].n
        /\ j.until = job[h].until /\ j.seen = job[h].seen
    BY JobFields DEF IInv, Job
  <2>2. job' = [job EXCEPT ![h] = j]
    BY <1>2 DEF Close, IInv, TypeOK
  <2> HIDE DEF j
  <2>3. JobWithin(j)
    BY <2>1 DEF PaidInv, JobsWithin, JobWithin
  <2> QED BY <2>1, <2>2, <2>3, OneJobWithin
<1> QED BY <1>1, <1>2 DEF Timeout, End

\* A transaction that commits adds its order to those that are paid, and its
\* months to the limit.
LEMMA CommitWithin ==
  ASSUME IInv, PaidInv, NEW h \in Handlers, Commit(h), NEW o \in Orgs
  PROVE  until'[o] <= Limit(o)'
<1> DEFINE n == job[h].n
<1>0. OrderStep
  BY EveryStepIsAnOrderStep DEF Next, Serve
<1>1. /\ n \in Orders /\ OrgOf[n] \in Orgs /\ until \in [Orgs -> Nat]
      /\ Months[n] \in Nat
  BY JobFields, OrdersAssumption DEF IInv, TypeOK
<1>2. /\ IsFiniteSet(PaidFor(o)) /\ until[o] <= Limit(o) /\ Limit(o) \in Int
      /\ until[o] \in Nat
  BY <1>1, LimitType DEF PaidInv
<1>3. Limit(o) <= Limit(o)' /\ Limit(o)' \in Int
  BY <1>0, <1>2, LimitGrows DEF IInv
<1>4. CASE until'[o] = until[o]
  BY <1>2, <1>3, <1>4
<1>5. CASE until'[o] # until[o]
  <2>1. /\ job[h].open /\ job[h].pc = "commit"
        /\ order' = [order EXCEPT ![n] = "PAID"]
        /\ until' = [until EXCEPT ![OrgOf[n]] = job[h].until]
    BY <1>5 DEF Commit, End, books
  <2>2. OrgOf[n] = o /\ until'[o] = job[h].until
    BY <1>1, <1>5, <2>1
  <2>3. order[n] # "PAID"
    BY <2>1 DEF IInv, HoldersOwnTheirOrders, Holds
  <2>4. Limit(o)' = Limit(o) + Months[n]
    BY <1>1, <1>2, <2>1, <2>2, <2>3, OneMorePaid DEF IInv
  <2>5. job[h].until <= Limit(o) + Months[n]
    BY <2>1, <2>2 DEF PaidInv, JobsWithin, JobWithin, WrittenPcs
  <2> QED BY <2>2, <2>4, <2>5
<1> QED BY <1>4, <1>5

LEMMA JobsStep == IInv /\ PaidInv /\ [Next]_vars => JobsWithin'
<1> SUFFICES ASSUME IInv, PaidInv, [Next]_vars PROVE JobsWithin'
  OBVIOUS
<1>0. OrderStep
  BY EveryStepIsAnOrderStep
<1>1. CASE UNCHANGED job
  <2>1. ASSUME NEW h \in Handlers PROVE JobWithin(job[h])'
    <3>1. PICK j \in Job : job'[h] = j /\ JobWithin(j)
      BY <1>1, JobFields DEF IInv, PaidInv, JobsWithin
    <3>2. JobWithin(j)'
      BY <1>0, <3>1, WithinStays
    <3> QED BY <3>1, <3>2 DEF JobWithin, Limit, PaidFor
  <2> QED BY <2>1 DEF JobsWithin
<1>2. ASSUME NEW h \in Handlers, Serve(h) PROVE JobsWithin'
  <2>1. CASE Commit(h)
    <3>1. Finish(h)
      BY <2>1 DEF Commit, End
    <3> QED BY <1>0, <3>1, FinishWithin
  <2> QED BY <1>0, <1>2, <2>1, OpeningStepsWithin, ReadExpiryWithin,
             WriteExpiryWithin, SettlingStepsWithin DEF Serve
<1>3. ASSUME NEW h \in Handlers, Timeout(h) \/ Crash(h) PROVE JobsWithin'
  BY <1>0, <1>3, TimeoutWithin, OpeningStepsWithin
<1>4. ASSUME NEW h \in Handlers,
             \/ \E n \in Orders : PaidWebhook(h, n) \/ TopUp(h, n) \/ DrakarisWebhook(h, n)
             \/ \E o \in Orgs : MeterUsage(h, o)
      PROVE  JobsWithin'
  BY <1>0, <1>4, OpeningStepsWithin
<1>5. ASSUME NEW n \in Orders, CreateOrder(n) \/ Capture(n) \/ FailedWebhook(n)
      PROVE  JobsWithin'
  BY <1>1, <1>5 DEF CreateOrder, Capture, FailedWebhook
<1>6. CASE UNCHANGED vars
  BY <1>1, <1>6 DEF vars
<1> QED BY <1>2, <1>3, <1>4, <1>5, <1>6 DEF Next

LEMMA PaidInvIsKept == IInv /\ PaidInv /\ [Next]_vars => PaidInv'
<1> SUFFICES ASSUME IInv, PaidInv, [Next]_vars PROVE PaidInv'
  OBVIOUS
<1>0. OrderStep /\ JobsWithin'
  BY EveryStepIsAnOrderStep, JobsStep
<1>1. ASSUME NEW o \in Orgs
      PROVE  IsFiniteSet(PaidFor(o)') /\ until'[o] <= Limit(o)'
  <2>1. /\ IsFiniteSet(PaidFor(o)) /\ until[o] <= Limit(o) /\ Limit(o) \in Int
        /\ until[o] \in Nat
    BY LimitType DEF PaidInv, IInv, TypeOK
  <2>2. IsFiniteSet(PaidFor(o)') /\ Limit(o) <= Limit(o)' /\ Limit(o)' \in Int
    BY <1>0, <2>1, LimitGrows DEF IInv
  <2>3. CASE until' = until
    BY <2>1, <2>2, <2>3
  <2>4. CASE until' # until
    <3>1. \E h \in Handlers : Commit(h)
      BY <2>4 DEF Next, Serve, vars, books, CreateOrder, Capture, FailedWebhook,
         PaidWebhook, TopUp, DrakarisWebhook, Receive, MeterUsage, LookUp,
         CreateByKey, ReadOrder, RecordAgain, MarkPaid, ReadExpiry, WriteExpiry,
         RecordInvoice, Activate, StampPeriod, ReadTier, LiftBlock, RaiseTier,
         ResetSpend, Statement, AddUsage, StampUsagePeriod, Timeout, Crash, End
    <3> QED BY <2>2, <3>1, CommitWithin
  <2> QED BY <2>3, <2>4
<1> QED BY <1>0, <1>1 DEF PaidInv

LEMMA PaidInvAtFirst == Init => PaidInv
<1> SUFFICES ASSUME Init PROVE PaidInv
  OBVIOUS
<1>1. ASSUME NEW o \in Orgs PROVE IsFiniteSet(PaidFor(o)) /\ until[o] <= Limit(o)
  <2>1. PaidFor(o) = {}
    BY DEF Init, PaidFor
  <2>2. SumOn(Months, PaidFor(o)) = 0
    BY <2>1, SumEmpty
  <2>3. until[o] = PaidUntil[o] /\ PaidUntil[o] \in Nat /\ Now \in Nat
    BY SubscriptionsAssumption DEF Init
  <2>4. PaidUntil[o] <= Later(PaidUntil[o], Now) /\ Later(PaidUntil[o], Now) \in Nat
    BY <2>3 DEF Later
  <2> QED BY <2>1, <2>2, <2>3, <2>4, FS_EmptySet DEF Limit
<1>2. \A h \in Handlers : job[h].pc = "idle"
  BY DEF Init, Idle
<1>3. JobsWithin
  BY <1>2, ElsewhereWithin DEF JobsWithin, WrittenPcs, SettlePcs
<1> QED BY <1>1, <1>3 DEF PaidInv

LEMMA PaidInvHolds == Spec => [](IInv /\ PaidInv)
<1>1. Init => IInv /\ PaidInv
  BY InvariantHoldsAtFirst, PaidInvAtFirst
<1>2. IInv /\ PaidInv /\ [Next]_vars => (IInv /\ PaidInv)'
  BY InvariantIsKept, PaidInvIsKept
<1> QED BY <1>1, <1>2, PTL DEF Spec

\* A subscription never runs longer than its paid orders pay for: the months
\* of an order are added at most once, whichever transactions overlap.
THEOREM OnlyPaidMonthsAreGiven == Spec => []OnlyPaidMonths
<1>1. PaidInv => OnlyPaidMonths
  <2> SUFFICES ASSUME PaidInv, NEW o \in Orgs
               PROVE  until[o] <= FoldSum(Later(PaidUntil[o], Now), Months, PaidFor(o))
    BY DEF OnlyPaidMonths, FoldSum
  <2>1. IsFiniteSet(PaidFor(o)) /\ until[o] <= Limit(o)
    BY DEF PaidInv
  <2>2. Later(PaidUntil[o], Now) \in Int
    BY <2>1, LimitType
  <2>3. FoldSum(Later(PaidUntil[o], Now), Months, PaidFor(o)) = Limit(o)
    BY <2>1, <2>2, MonthsAreValues, FoldIsSum DEF Limit
  <2> QED BY <2>1, <2>3
<1> QED BY <1>1, PaidInvHolds, PTL
================================================================================
