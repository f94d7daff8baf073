------------------------------- MODULE PeriodClose -------------------------------
(***************************************************************************)
(* Closing the months of one organisation: closePeriod                     *)
(* (apps/api/src/reporting/reporting.service.ts) against the postings of   *)
(* the journal (accounting/accounting.service.ts), the monthly             *)
(* depreciation (fixed-assets/depreciation.service.ts), the revaluation of *)
(* currency accounts (fx/fx-revaluation.service.ts) and the other writers  *)
(* of the settings document (organizations/organization-settings.service.ts*)
(* and inventory/inventory.service.ts).                                    *)
(*                                                                         *)
(* Organization.settings is one JSON document: a writer reads it whole and *)
(* writes it whole.  Transactions run at READ COMMITTED: one step is one   *)
(* read, and what a transaction writes shows when it commits.  What        *)
(* closePeriod has written and not committed is in its `tx` record.        *)
(***************************************************************************)
EXTENDS Integers, FiniteSets, Functions

CONSTANTS
  NMonths,      \* the months of the past, 1 the earliest
  Assets,       \* fixed assets
  Bought,       \* the month an asset was purchased in
  Life,         \* how many monthly charges depreciate an asset fully
  Ops,          \* the operations called
  Workers,      \* requests that may be in service together
  MaxInFlight,  \* bound: requests in service at one time
  MaxRequests   \* bound: requests served in a behaviour

Months == 1..NMonths

\* Two days stand for a month: an earlier one and its last. 0 is before all.
Days == 0..(2 * NMonths)

OpNames == {"POST", "DEPRECIATE", "CLOSE", "PATCH", "LOCK", "REVALUE"}

ASSUME CalendarAssumption ==
  /\ NMonths \in Nat \ {0}
  /\ IsFiniteSet(Assets)
  /\ Bought \in [Assets -> Months]
  /\ Life \in [Assets -> Nat]
ASSUME CallsAssumption ==
  /\ Ops \subseteq OpNames
  /\ MaxInFlight \in Nat
  /\ MaxRequests \in Nat

VARIABLES
  settings,  \* Organization.settings, the parts the ledger reads
  posted,    \* per month, what was posted to an account by final journals
  charges,   \* the FixedAssetDepreciationMonth rows: pairs <<asset, month>>
  booked,    \* per asset, bookedDepreciation, in monthly charges
  charged,   \* per month, the depreciation journals, in monthly charges
  revalued,  \* per month, the revaluation journals
  unlocked,  \* per month, the transactions with isLocked = false
  balances,  \* per month, AccountBalance at its end; 0 when there is no row
  tx,        \* the request each worker is serving
  served     \* requests accepted so far

vars == <<settings, posted, charges, booked, charged, revalued, unlocked,
          balances, tx, served>>
assetVars == <<charges, booked, charged>>
ledger == <<posted, assetVars, revalued, unlocked, balances>>

--------------------------------------------------------------------------------
(* Documents, requests and transactions                                    *)

Settings == [closed : SUBSET Months,         \* reporting.closedPeriods
             lockedUntil : Days,             \* ledger.lockedPeriodUntil
             lastRevalued : 0..NMonths]      \* fxRevaluation.lastPostedMonth

NoSettings == [closed |-> {}, lockedUntil |-> 0, lastRevalued |-> 0]

\* The date a request carries: its month, whether it is the month's last day,
\* and whether it has a time of day later than 00:00 UTC.
Request == [op : OpNames, month : 0..NMonths, lastDay : BOOLEAN, timed : BOOLEAN]
NoRequest == [op |-> "PATCH", month |-> 0, lastDay |-> FALSE, timed |-> FALSE]

\* Only a period lock is lifted with no month; a patch names none. The dates
\* the program makes itself are those of its monthly runs: 00:00 UTC of the
\* last day, and 12:00 UTC for the revaluation. A lock has no time of day.
Requests ==
  { r \in [op : Ops, month : 0..NMonths, lastDay : BOOLEAN, timed : BOOLEAN] :
      /\ r.month = 0 => r.op \in {"PATCH", "LOCK"} /\ ~r.lastDay
      /\ r.op = "PATCH" => r.month = 0
      /\ r.op \in {"DEPRECIATE", "CLOSE", "REVALUE"} => r.lastDay
      /\ r.op = "REVALUE" => r.timed
      /\ r.op \notin {"POST", "REVALUE"} => ~r.timed }

Day(r) ==
  CASE r.month = 0 -> 0
    [] r.month # 0 /\ r.lastDay -> 2 * r.month
    [] r.month # 0 /\ ~r.lastDay -> 2 * r.month - 1

Pcs == {"idle", "check", "insert", "assets", "rows", "charge", "mark", "sum",
        "save", "settings", "close", "read", "write", "persist"}

Tx == [pc : Pcs, req : Request,
       seen : Settings,             \* the settings it read last
       read : [Assets -> Nat],      \* bookedDepreciation as it read it
       plan : SUBSET Assets,        \* the assets it charges
       marked : Nat,                \* the transactions it locks
       touched : BOOLEAN,           \* it updated rows of its month
       total : Nat]                 \* the balance it saves

NoCharges == [a \in Assets |-> 0]
NoEntries == [m \in Months |-> 0]

Idle == [pc |-> "idle", req |-> NoRequest, seen |-> NoSettings,
         read |-> NoCharges, plan |-> {}, marked |-> 0, touched |-> FALSE,
         total |-> 0]

Init ==
  /\ settings = NoSettings
  /\ posted = NoEntries
  /\ charges = {}
  /\ booked = NoCharges
  /\ charged = NoEntries
  /\ revalued = NoEntries
  /\ unlocked = NoEntries
  /\ balances = NoEntries
  /\ tx = [w \in Workers |-> Idle]
  /\ served = 0

--------------------------------------------------------------------------------
(* What the handlers compute                                               *)

\* 423 up to the lock: the lock is 00:00 UTC of its day, and a date of that day
\* with a time is later.
AfterLock(s, r) == Day(r) > s.lockedUntil \/ (Day(r) = s.lockedUntil /\ r.timed)

\* Mutant: the lock is checked, the closed months are not.
AcceptsUnlocked(s, r) == AfterLock(s, r)

\* postJournalInTransaction: 400 in a closed month, 423 up to the lock.
Accepts(s, r) == r.month \notin s.closed /\ AfterLock(s, r)

SumUpTo(f, m) == FoldFunctionOnSet(LAMBDA a, b : a + b, 0, f, 1..m)

\* The final entries dated up to the end of month m.
History(m) == SumUpTo([k \in Months |-> posted[k] + charged[k]], m)

\* Mutant: the closed months are sorted from the earliest.
OpeningFromFirst(m) ==
  LET before == {k \in settings.closed : k < m} IN
  IF before = {} THEN History(m - 1)
  ELSE LET first == CHOOSE k \in before : \A j \in before : j >= k
       IN IF balances[first] = 0 THEN History(m - 1) ELSE balances[first]

\* The opening balance of a trial balance that starts with month m: the
\* snapshot of the last closed month before it; the entries when there is no
\* closed month, or no row of the account in the snapshot.
Opening(m) ==
  LET before == {k \in settings.closed : k < m} IN
  IF before = {} THEN History(m - 1)
  ELSE LET last == CHOOSE k \in before : \A j \in before : j <= k
       IN IF balances[last] = 0 THEN History(m - 1) ELSE balances[last]

\* Mutant: the charge is not capped by what remains to depreciate.
DueForever(read, m) ==
  {a \in Assets : <<a, m>> \notin charges /\ Bought[a] <= m}

\* The assets that a month's depreciation charges.
Due(read, m) ==
  {a \in Assets : <<a, m>> \notin charges /\ Bought[a] <= m /\ read[a] < Life[a]}

--------------------------------------------------------------------------------
(* Steps every request shares                                              *)

InFlight == {w \in Workers : tx[w].pc # "idle"}
At(w, op, pc) == tx[w].req.op \in op /\ tx[w].pc = pc
Goto(w, pc) == tx' = [tx EXCEPT ![w].pc = pc]
ReadThen(w, pc) == tx' = [tx EXCEPT ![w].pc = pc, ![w].seen = settings]
Finish(w) == tx' = [tx EXCEPT ![w] = Idle]
Month(w) == tx[w].req.month
Proceed == UNCHANGED <<settings, ledger, served>>

\* The request is refused, or fails and is rolled back.
Reject(w) == Finish(w) /\ Proceed
Abort(w) == tx[w].pc # "idle" /\ Reject(w)

FirstPc(op) ==
  CASE op = "POST" -> "check"
    [] op \in {"DEPRECIATE", "CLOSE"} -> "assets"
    [] op \in {"PATCH", "LOCK", "REVALUE"} -> "read"

\* Any month may be closed, the earlier ones open or not.
Arrive(w, r) ==
  /\ tx[w].pc = "idle"
  /\ Cardinality(InFlight) < MaxInFlight
  /\ served < MaxRequests
  /\ tx' = [tx EXCEPT ![w].pc = FirstPc(r.op), ![w].req = r]
  /\ served' = served + 1
  /\ UNCHANGED <<settings, ledger>>

--------------------------------------------------------------------------------
(* postJournalInTransaction                                                *)

\* The settings are read once, without a lock.
CheckPeriod(w) ==
  /\ At(w, {"POST", "DEPRECIATE", "CLOSE", "REVALUE"}, "check")
  /\ Proceed
  /\ IF Accepts(settings, tx[w].req)
     THEN Goto(w, IF tx[w].req.op \in {"DEPRECIATE", "CLOSE"}
                  THEN "charge" ELSE "insert")
     ELSE Finish(w)

\* A document posts a final journal.
InsertJournal(w) ==
  /\ At(w, {"POST"}, "insert")
  /\ posted' = [posted EXCEPT ![Month(w)] = @ + 1]
  /\ unlocked' = [unlocked EXCEPT ![Month(w)] = @ + 1]
  /\ Finish(w)
  /\ UNCHANGED <<settings, assetVars, revalued, balances, served>>

--------------------------------------------------------------------------------
(* runMonthlyDepreciation, on its own or as the first part of closePeriod  *)

ReadAssets(w) ==
  /\ At(w, {"DEPRECIATE", "CLOSE"}, "assets")
  /\ tx' = [tx EXCEPT ![w].pc = "rows", ![w].read = booked]
  /\ Proceed

ReadMonthRows(w) ==
  /\ At(w, {"DEPRECIATE", "CLOSE"}, "rows")
  /\ Proceed
  /\ LET due == Due(tx[w].read, Month(w))
     IN IF due = {} /\ tx[w].req.op = "DEPRECIATE"
        THEN Finish(w)
        ELSE tx' = [tx EXCEPT ![w].pc = IF due = {} THEN "mark" ELSE "check",
                              ![w].plan = due]

\* The assets whose rows a transaction has updated and not committed.
Held(w) ==
  IF tx[w].pc \in {"mark", "sum", "save", "settings", "close"}
  THEN tx[w].plan ELSE {}

Charged(w) == {<<a, Month(w)>> : a \in tx[w].plan}

\* The rows of the month and the increments of the assets, committed.
BookCharges(w) ==
  /\ charges' = charges \cup Charged(w)
  /\ booked' = [a \in Assets |-> IF a \in tx[w].plan THEN booked[a] + 1
                                                     ELSE booked[a]]
  /\ charged' = [charged EXCEPT ![Month(w)] = @ + Cardinality(tx[w].plan)]

\* Mutant: a row that exists already does not fail the insertion.
ChargeAssetsUnchecked(w) ==
  /\ At(w, {"DEPRECIATE", "CLOSE"}, "charge")
  /\ \A v \in Workers \ {w} : Held(v) \cap tx[w].plan = {}
  /\ IF tx[w].req.op = "CLOSE" THEN Goto(w, "mark") /\ Proceed
     ELSE /\ BookCharges(w)
          /\ unlocked' = [unlocked EXCEPT ![Month(w)] = @ + 1]
          /\ Finish(w)
          /\ UNCHANGED <<settings, posted, revalued, balances, served>>

\* The insertion and the increments wait for the asset rows; a row of the same
\* asset and month fails the transaction (the unique key). A run on its own
\* commits here.
ChargeAssets(w) ==
  /\ At(w, {"DEPRECIATE", "CLOSE"}, "charge")
  /\ \A v \in Workers \ {w} : Held(v) \cap tx[w].plan = {}
  /\ IF Charged(w) \cap charges # {} THEN Reject(w)
     ELSE IF tx[w].req.op = "CLOSE" THEN Goto(w, "mark") /\ Proceed
     ELSE /\ BookCharges(w)
          /\ unlocked' = [unlocked EXCEPT ![Month(w)] = @ + 1]
          /\ Finish(w)
          /\ UNCHANGED <<settings, posted, revalued, balances, served>>

--------------------------------------------------------------------------------
(* The rest of closePeriod                                                 *)

\* Mutant: its own journal is taken for one that was unlocked.
MarkTransactionsAndOwn(w) ==
  LET m == Month(w) IN
  /\ At(w, {"CLOSE"}, "mark")
  /\ \A v \in Workers \ {w} : ~(tx[v].touched /\ Month(v) = m)
  /\ tx' = [tx EXCEPT ![w].pc = "sum",
              ![w].marked = unlocked[m] + IF tx[w].plan = {} THEN 0 ELSE 1,
              ![w].touched = posted[m] + charged[m] + revalued[m] > 0]
  /\ Proceed

\* updateMany(isLocked): the committed transactions of the month, once no other
\* close holds them. Its own depreciation journal it locks at once.
MarkTransactions(w) ==
  LET m == Month(w) IN
  /\ At(w, {"CLOSE"}, "mark")
  /\ \A v \in Workers \ {w} : ~(tx[v].touched /\ Month(v) = m)
  /\ tx' = [tx EXCEPT ![w].pc = "sum", ![w].marked = unlocked[m],
              ![w].touched = posted[m] + charged[m] + revalued[m] > 0]
  /\ Proceed

\* Mutant: only the entries of the month are summed.
SumEntriesOfMonth(w) ==
  LET m == Month(w) IN
  /\ At(w, {"CLOSE"}, "sum")
  /\ tx' = [tx EXCEPT ![w].pc = "save",
              ![w].total = posted[m] + charged[m] + Cardinality(tx[w].plan)]
  /\ Proceed

\* groupBy of the final entries, committed and its own.
SumEntries(w) ==
  /\ At(w, {"CLOSE"}, "sum")
  /\ tx' = [tx EXCEPT ![w].pc = "save",
              ![w].total = History(Month(w)) + Cardinality(tx[w].plan)]
  /\ Proceed

\* Mutant: the snapshot is saved outside the transaction.
SaveBalancesAtOnce(w) ==
  /\ At(w, {"CLOSE"}, "save")
  /\ balances' = [balances EXCEPT ![Month(w)] = tx[w].total]
  /\ Goto(w, "settings")
  /\ UNCHANGED <<settings, posted, assetVars, revalued, unlocked, served>>

\* upsert of the snapshot, once no other close has written its row.
SaveBalances(w) ==
  /\ At(w, {"CLOSE"}, "save")
  /\ \A v \in Workers \ {w} :
       ~( /\ At(v, {"CLOSE"}, "settings") \/ At(v, {"CLOSE"}, "close")
          /\ Month(v) = Month(w) /\ tx[v].total > 0 )
  /\ Goto(w, "settings")
  /\ Proceed

ReadSettings(w) ==
  /\ At(w, {"CLOSE"}, "settings")
  /\ ReadThen(w, "close")
  /\ Proceed

\* mergeClosedPeriod into the settings as read, and the commit. An account
\* without entries is not in the groups: its row is not written.
CommitClose(w) ==
  LET m == Month(w) IN
  /\ At(w, {"CLOSE"}, "close")
  /\ settings' = [tx[w].seen EXCEPT !.closed = @ \cup {m}]
  /\ BookCharges(w)
  /\ unlocked' = [unlocked EXCEPT ![m] = @ - tx[w].marked]
  /\ balances' = [balances EXCEPT ![m] = IF tx[w].total > 0
                                          THEN tx[w].total ELSE @]
  /\ Finish(w)
  /\ UNCHANGED <<posted, revalued, served>>

--------------------------------------------------------------------------------
(* The other writers of the settings document                              *)

ReadForUpdate(w) ==
  /\ At(w, {"PATCH", "LOCK"}, "read")
  /\ ReadThen(w, "write")
  /\ Proceed

\* Mutant: the part that is patched replaces the document.
WriteSettingsAlone(w) ==
  /\ At(w, {"PATCH", "LOCK"}, "write")
  /\ settings' = IF tx[w].req.op = "LOCK"
                 THEN [NoSettings EXCEPT !.lockedUntil = Day(tx[w].req)] ELSE tx[w].seen
  /\ Finish(w)
  /\ UNCHANGED <<ledger, served>>

\* patchPeriodLock sets the lock; patchInventorySettings and patchSettings
\* change other parts. Both write back the rest as they read it.
WriteSettings(w) ==
  /\ At(w, {"PATCH", "LOCK"}, "write")
  /\ settings' = IF tx[w].req.op = "LOCK"
                 THEN [tx[w].seen EXCEPT !.lockedUntil = Day(tx[w].req)] ELSE tx[w].seen
  /\ Finish(w)
  /\ UNCHANGED <<ledger, served>>

--------------------------------------------------------------------------------
(* FxRevaluationService: the cron of an instance, for the previous month   *)

\* Nothing is posted when no rate has moved.
ReadForRevaluation(w) ==
  /\ At(w, {"REVALUE"}, "read")
  /\ Proceed
  /\ IF settings.lastRevalued = Month(w)
     THEN Finish(w)
     ELSE ReadThen(w, "check") \/ ReadThen(w, "persist")

\* Its journal commits on its own, and is not final.
PostRevaluation(w) ==
  /\ At(w, {"REVALUE"}, "insert")
  /\ revalued' = [revalued EXCEPT ![Month(w)] = @ + 1]
  /\ unlocked' = [unlocked EXCEPT ![Month(w)] = @ + 1]
  /\ Goto(w, "persist")
  /\ UNCHANGED <<settings, posted, assetVars, balances, served>>

PersistRevaluation(w) ==
  /\ At(w, {"REVALUE"}, "persist")
  /\ settings' = [tx[w].seen EXCEPT !.lastRevalued = Month(w)]
  /\ Finish(w)
  /\ UNCHANGED <<ledger, served>>

--------------------------------------------------------------------------------
Depreciate(w) == ReadAssets(w) \/ ReadMonthRows(w) \/ ChargeAssets(w)
Close(w) ==
  \/ MarkTransactions(w) \/ SumEntries(w) \/ SaveBalances(w) \/ ReadSettings(w)
  \/ CommitClose(w)
Revalue(w) == ReadForRevaluation(w) \/ PostRevaluation(w) \/ PersistRevaluation(w)

Serve(w) ==
  \/ CheckPeriod(w) \/ InsertJournal(w) \/ Depreciate(w) \/ Close(w)
  \/ ReadForUpdate(w) \/ WriteSettings(w) \/ Revalue(w)

Next ==
  \/ \E w \in Workers : \E r \in Requests : Arrive(w, r)
  \/ \E w \in Workers : Serve(w)
  \/ \E w \in Workers : Abort(w)

Spec == Init /\ [][Next]_vars

--------------------------------------------------------------------------------
(* Properties                                                              *)

\* Every variable has the type its declaration says.
TypeOK ==
  /\ settings \in Settings
  /\ posted \in [Months -> Nat]
  /\ charges \subseteq Assets \X Months
  /\ booked \in [Assets -> Nat]
  /\ charged \in [Months -> Nat]
  /\ revalued \in [Months -> Nat]
  /\ unlocked \in [Months -> Nat]
  /\ balances \in [Months -> Nat]
  /\ tx \in [Workers -> Tx]
  /\ served \in Nat

MonthsOf(a) == {m \in Months : <<a, m>> \in charges}
AssetsOf(m) == {a \in Assets : <<a, m>> \in charges}

\* However runs and closes interleave, retry or fail, an asset is charged once
\* a month: its bookedDepreciation and the journals of a month agree with the
\* FixedAssetDepreciationMonth rows (TZ 12.1, idempotency by the unique key).
ChargesAgree ==
  /\ \A a \in Assets : booked[a] = Cardinality(MonthsOf(a))
  /\ \A m \in Months : charged[m] = Cardinality(AssetsOf(m))

\* A snapshot never holds more than the entries that were committed, whatever
\* is posted, closed again or rolled back while it is taken.
SnapshotNeverAhead == \A m \in Months : balances[m] <= History(m)

\* No asset is depreciated beyond its cost less its salvage value.
NeverOverDepreciated == \A a \in Assets : booked[a] <= Life[a]

\* Nothing is posted in a month that is closed, or that ended before the day of
\* the lock. In a month whose last day is the day of the lock no depreciation is
\* posted; entries dated that day with a time of day are, the revaluation above
\* all, though TZ 16.2 (M2) says that every date up to the lock is refused.
ClosedMonthsAreFrozen ==
  [][\A m \in Months :
       /\ m \in settings.closed \/ 2 * m < settings.lockedUntil
            => UNCHANGED <<posted[m], charged[m], revalued[m]>>
       /\ 2 * m <= settings.lockedUntil => UNCHANGED charged[m]]_vars

\* A closed month is never opened again: no other writer of the settings
\* document takes its key out of closedPeriods.
ClosedStaysClosed == [][settings.closed \subseteq settings'.closed]_vars

\* When a month becomes closed its snapshot is the sum of all final entries up
\* to its end, the depreciation posted by the close included.
CloseTakesSnapshot ==
  [][\A m \in settings'.closed \ settings.closed :
       balances'[m] = History(m)']_vars

\* The months up to m are closed and a trial balance that starts after them
\* opens with the balance of all the entries before it.
OpensRight(m) == 1..m \subseteq settings.closed /\ Opening(m + 1) = History(m)

\* The trial balance after a month that is closed when all the earlier ones are
\* opens with all the entries before it, and does so ever after, whatever is
\* posted, locked, depreciated or closed again.
OpeningAfterClosedMonths ==
  [][\A m \in Months :
       /\ OpensRight(m) => OpensRight(m)'
       /\ m \in settings'.closed \ settings.closed
            /\ 1..(m - 1) \subseteq settings.closed => OpensRight(m)']_vars

\* A trial balance opens with the balance of all the entries before it.  The
\* code does not keep this for months that are closed out of order, nor after
\* an open month (README, section 9): no run.
OpeningIsHistory == \A m \in 1..(NMonths + 1) : Opening(m) = History(m - 1)
================================================================================
