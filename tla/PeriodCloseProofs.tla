---------------------------- MODULE PeriodCloseProofs ----------------------------
(***************************************************************************)
(* Theorems about PeriodClose that hold for every number of months, assets *)
(* and requests.  AgreeInv and BalanceInv hold of any requests that         *)
(* interleave: the charges agree, and no snapshot is ahead of the entries. *)
(* SerialInv and KnowsInv need them to be served one at a time: what a      *)
(* request has read it still knows, so that closed months stay closed and   *)
(* frozen and their snapshots hold.                                        *)
(***************************************************************************)
EXTENDS PeriodClose, SumTheorems, FiniteSetTheorems, TLAPS

(* The form of a request's record.  T, M and B stand for the sets of the    *)
(* sum it saves and of what it says of transactions, on which the theorem   *)
(* does not depend.                                                         *)
TxWith(T, M, B) == [pc : Pcs, req : Request, seen : Settings, read : [Assets -> Nat],
              plan : SUBSET Assets, marked : M, touched : B, total : T]

HeldPcs == {"mark", "sum", "save", "settings", "close"}

(* What a request knows about itself.                                       *)
TxOK(t) ==
  /\ t.req.op \notin {"PATCH", "LOCK"} => t.req.month \in Months
  /\ t.req.op \in {"DEPRECIATE", "CLOSE"} => t.req.lastDay /\ ~t.req.timed
  /\ t.pc \in HeldPcs => t.req.op = "CLOSE"

TxInv ==
  /\ tx = [w \in Workers |-> tx[w]]
  /\ \A w \in Workers : \E T, M, B : tx[w] \in TxWith(T, M, B)
  /\ \A w \in Workers : TxOK(tx[w])

DataInv ==
  /\ settings \in Settings
  /\ charges \subseteq Assets \X Months
  /\ booked \in [Assets -> Nat]
  /\ charged \in [Months -> Nat]

(* A close that has charged its assets and not committed holds their rows:  *)
(* nobody else has them, and its month is still missing in them.            *)
HeldInv ==
  /\ \A w \in Workers : Held(w) # {} => Charged(w) \cap charges = {}
  /\ \A v, w \in Workers : v # w => Held(v) \cap Held(w) = {}

AgreeInv == TxInv /\ DataInv /\ HeldInv /\ ChargesAgree

--------------------------------------------------------------------------------
LEMMA IdleFacts ==
  Idle \in TxWith(Nat, Nat, BOOLEAN) /\ TxOK(Idle) /\ Idle.pc \notin HeldPcs
BY CalendarAssumption
   DEF Idle, TxWith, TxOK, HeldPcs, NoRequest, Request, NoSettings, Settings,
       NoCharges, Pcs, OpNames, Months, Days

LEMMA TxStep ==
  ASSUME TxInv, NEW w \in Workers, NEW T, NEW M, NEW B,
         NEW t \in TxWith(T, M, B), TxOK(t),
         tx' = [tx EXCEPT ![w] = t]
  PROVE  /\ TxInv'
         /\ \A v \in Workers : tx'[v] = IF v = w THEN t ELSE tx[v]
<1>1. \A v \in Workers : tx'[v] = IF v = w THEN t ELSE tx[v]
  BY DEF TxInv
<1>2. tx' = [v \in Workers |-> tx'[v]]
  BY DEF TxInv
<1>3. \A v \in Workers : \E T1, M1, B1 : tx'[v] \in TxWith(T1, M1, B1)
  BY <1>1 DEF TxInv
<1>4. \A v \in Workers : TxOK(tx'[v])
  BY <1>1 DEF TxInv
<1> QED BY <1>1, <1>2, <1>3, <1>4 DEF TxInv

(* A step that charges nothing, and after which the worker holds what it    *)
(* held or nothing.                                                         *)
LEMMA QuietStep ==
  ASSUME AgreeInv, NEW w \in Workers, NEW T, NEW M, NEW B,
         NEW t \in TxWith(T, M, B), TxOK(t),
         tx' = [tx EXCEPT ![w] = t],
         \/ t.pc \notin HeldPcs
         \/ tx[w].pc \in HeldPcs /\ t.plan = tx[w].plan /\ t.req = tx[w].req,
         UNCHANGED assetVars, settings' \in Settings
  PROVE  AgreeInv'
<1>0. TxInv
  BY DEF AgreeInv
<1>1. /\ TxInv'
      /\ \A v \in Workers : tx'[v] = IF v = w THEN t ELSE tx[v]
  BY ONLY <1>0, TxStep, TxOK(t), w \in Workers, t \in TxWith(T, M, B),
          tx' = [tx EXCEPT ![w] = t]
<1>2. DataInv'
  BY DEF AgreeInv, DataInv, assetVars
<1>3. ChargesAgree'
  BY DEF AgreeInv, ChargesAgree, MonthsOf, AssetsOf, assetVars
<1>4. ASSUME NEW v \in Workers
      PROVE  (Held(v) = {})' \/ (Held(v)' = Held(v) /\ Charged(v)' = Charged(v))
  <2>1. CASE v # w
    <3>1. tx'[v] = tx[v]
      BY <1>1, <2>1
    <3> QED BY <3>1 DEF Held, Charged, Month
  <2>2. CASE v = w /\ t.pc \notin HeldPcs
    <3>1. tx'[v].pc \notin HeldPcs
      BY <1>1, <2>2
    <3> QED BY <3>1 DEF Held, HeldPcs
  <2>3. CASE v = w /\ tx[w].pc \in HeldPcs /\ t.plan = tx[w].plan /\ t.req = tx[w].req
    <3>1. tx'[v].plan = tx[v].plan /\ tx'[v].req = tx[v].req
      BY <1>1, <2>3
    <3>2. tx[v].pc \in HeldPcs
      BY <2>3
    <3> QED BY <3>1, <3>2 DEF Held, HeldPcs, Charged, Month
  <2> QED BY <2>1, <2>2, <2>3
<1>5. HeldInv'
  <2>1. charges' = charges
    BY DEF assetVars
  <2> QED BY <1>4, <2>1 DEF AgreeInv, HeldInv
<1> QED BY <1>1, <1>2, <1>3, <1>5 DEF AgreeInv

--------------------------------------------------------------------------------
(* The shared steps                                                         *)

LEMMA FinishStep ==
  ASSUME AgreeInv, NEW w \in Workers, Finish(w), UNCHANGED assetVars,
         settings' \in Settings
  PROVE  AgreeInv'
BY IdleFacts, QuietStep DEF Finish

LEMMA RejectStep ==
  ASSUME AgreeInv, NEW w \in Workers, Reject(w)
  PROVE  AgreeInv'
BY FinishStep DEF Reject, Proceed, ledger, assetVars, AgreeInv, DataInv

(* A worker moves on; it may have read the settings.                        *)
LEMMA GotoStep ==
  ASSUME AgreeInv, NEW w \in Workers, NEW pc \in Pcs, NEW s \in Settings,
         tx' = [tx EXCEPT ![w] = [tx[w] EXCEPT !.pc = pc, !.seen = s]],
         pc \in HeldPcs => tx[w].pc \in HeldPcs,
         UNCHANGED assetVars, settings' \in Settings
  PROVE  AgreeInv'
<1> DEFINE t == [tx[w] EXCEPT !.pc = pc, !.seen = s]
<1>1. PICK T, M, B : tx[w] \in TxWith(T, M, B)
  BY DEF AgreeInv, TxInv
<1>2. /\ t \in TxWith(T, M, B) /\ t.pc = pc
      /\ t.plan = tx[w].plan /\ t.req = tx[w].req
  BY <1>1 DEF TxWith
<1>3. TxOK(tx[w])
  BY DEF AgreeInv, TxInv
<1>4. TxOK(t)
  BY <1>2, <1>3 DEF TxOK
<1> HIDE DEF t
<1>5. tx' = [tx EXCEPT ![w] = t]
  BY DEF t
<1> QED BY <1>2, <1>4, <1>5, QuietStep

LEMMA GotoFacts ==
  ASSUME AgreeInv, NEW w \in Workers, NEW pc, Goto(w, pc)
  PROVE  /\ tx[w].seen \in Settings
         /\ tx' = [tx EXCEPT ![w] = [tx[w] EXCEPT !.pc = pc, !.seen = tx[w].seen]]
<1>1. PICK T, M, B : tx[w] \in TxWith(T, M, B)
  BY DEF AgreeInv, TxInv
<1>2. [tx[w] EXCEPT !.pc = pc] = [tx[w] EXCEPT !.pc = pc, !.seen = tx[w].seen]
  BY <1>1 DEF TxWith
<1>3. tx[w].seen \in Settings
  BY <1>1 DEF TxWith
<1> QED BY <1>2, <1>3 DEF Goto

LEMMA ReadFacts ==
  ASSUME AgreeInv, NEW w \in Workers, NEW pc, ReadThen(w, pc)
  PROVE  /\ settings \in Settings
         /\ tx' = [tx EXCEPT ![w] = [tx[w] EXCEPT !.pc = pc, !.seen = settings]]
BY DEF ReadThen, AgreeInv, DataInv

(* The worker moves on; s is what it knows of the settings.                  *)
Moves(w, pc, s) ==
  /\ s \in Settings
  /\ tx' = [tx EXCEPT ![w] = [tx[w] EXCEPT !.pc = pc, !.seen = s]]

LEMMA MoveFacts ==
  ASSUME AgreeInv, NEW w \in Workers, NEW pc, Goto(w, pc) \/ ReadThen(w, pc)
  PROVE  \E s : Moves(w, pc, s)
<1>1. CASE Goto(w, pc)
  <2>1. Moves(w, pc, tx[w].seen)
    BY <1>1, GotoFacts DEF Moves
  <2> QED BY <2>1
<1>2. CASE ReadThen(w, pc)
  <2>1. Moves(w, pc, settings)
    BY <1>2, ReadFacts DEF Moves
  <2> QED BY <2>1
<1> QED BY <1>1, <1>2

LEMMA ProceedFacts ==
  ASSUME AgreeInv, Proceed
  PROVE  /\ UNCHANGED assetVars /\ settings' \in Settings

BY DEF AgreeInv, DataInv, Proceed, ledger, assetVars

LEMMA ArriveStep ==
  ASSUME AgreeInv, NEW w \in Workers, NEW r \in Requests, Arrive(w, r)
  PROVE  AgreeInv'
<1> DEFINE t == [tx[w] EXCEPT !.pc = FirstPc(r.op), !.req = r]
<1>1. PICK T, M, B : tx[w] \in TxWith(T, M, B)
  BY DEF AgreeInv, TxInv
<1>2. /\ r \in Request
      /\ r.op \notin {"PATCH", "LOCK"} => r.month \in Months
      /\ r.op \in {"DEPRECIATE", "CLOSE"} => r.lastDay /\ ~r.timed
  BY CalendarAssumption, CallsAssumption DEF Requests, Request, Months
<1>3. FirstPc(r.op) \in Pcs \ HeldPcs
  BY <1>2 DEF FirstPc, Pcs, HeldPcs, Request, OpNames
<1>4. t \in TxWith(T, M, B) /\ t.pc = FirstPc(r.op) /\ t.req = r
  BY <1>1, <1>2, <1>3 DEF TxWith
<1>5. TxOK(t)
  BY <1>2, <1>3, <1>4 DEF TxOK
<1> HIDE DEF t
<1>6. tx' = [tx EXCEPT ![w] = t]
  BY DEF t, Arrive
<1>7. UNCHANGED assetVars /\ settings' \in Settings
  BY DEF AgreeInv, DataInv, Arrive, ledger, assetVars
<1> QED BY <1>3, <1>4, <1>5, <1>6, <1>7, QuietStep

--------------------------------------------------------------------------------
(* Steps that charge nothing                                                *)

(* A worker moves on, and has read nothing or the settings.                 *)
LEMMA MoveStep ==
  ASSUME AgreeInv, NEW w \in Workers, NEW pc \in Pcs,
         Goto(w, pc) \/ ReadThen(w, pc),
         pc \in HeldPcs => tx[w].pc \in HeldPcs,
         UNCHANGED assetVars, settings' \in Settings
  PROVE  AgreeInv'
<1>1. PICK s : Moves(w, pc, s)
  BY MoveFacts
<1> QED BY <1>1, GotoStep DEF Moves

LEMMA CheckPeriodStep ==
  ASSUME AgreeInv, NEW w \in Workers, CheckPeriod(w)
  PROVE  AgreeInv'
<1>1. UNCHANGED assetVars /\ settings' \in Settings
  BY ProceedFacts DEF CheckPeriod
<1>2. CASE Finish(w)
  BY <1>1, <1>2, FinishStep
<1>3. CASE Goto(w, "charge")
  BY <1>1, <1>3, MoveStep DEF Pcs, HeldPcs
<1>4. CASE Goto(w, "insert")
  BY <1>1, <1>4, MoveStep DEF Pcs, HeldPcs
<1> QED BY <1>2, <1>3, <1>4 DEF CheckPeriod

LEMMA InsertJournalStep ==
  ASSUME AgreeInv, NEW w \in Workers, InsertJournal(w)
  PROVE  AgreeInv'
BY FinishStep DEF InsertJournal, AgreeInv, DataInv

LEMMA ReadAssetsStep ==
  ASSUME AgreeInv, NEW w \in Workers, ReadAssets(w)
  PROVE  AgreeInv'
<1> DEFINE t == [tx[w] EXCEPT !.pc = "rows", !.read = booked]
<1>1. PICK T, M, B : tx[w] \in TxWith(T, M, B)
  BY DEF AgreeInv, TxInv
<1>2. booked \in [Assets -> Nat]
  BY DEF AgreeInv, DataInv
<1>3. t \in TxWith(T, M, B) /\ t.pc \notin HeldPcs /\ t.req = tx[w].req
  BY <1>1, <1>2 DEF TxWith, Pcs, HeldPcs
<1>4. TxOK(tx[w])
  BY DEF AgreeInv, TxInv
<1>5. TxOK(t)
  BY <1>3, <1>4 DEF TxOK
<1> HIDE DEF t
<1>6. tx' = [tx EXCEPT ![w] = t]
  BY DEF t, ReadAssets
<1> QED BY <1>3, <1>5, <1>6, QuietStep, ProceedFacts DEF ReadAssets

(* A close that has the rows of its plan to itself starts to hold them.      *)
LEMMA HoldStep ==
  ASSUME AgreeInv, NEW w \in Workers, NEW T, NEW M, NEW B,
         NEW t \in TxWith(T, M, B), TxOK(t),
         tx' = [tx EXCEPT ![w] = t],
         t.req = tx[w].req, t.req.op = "CLOSE",
         \A v \in Workers \ {w} : Held(v) \cap t.plan = {},
         \A a \in t.plan : <<a, t.req.month>> \notin charges,
         Proceed
  PROVE  AgreeInv'
<1>0. TxInv
  BY DEF AgreeInv
<1>1. /\ TxInv'
      /\ \A v \in Workers : tx'[v] = IF v = w THEN t ELSE tx[v]
  BY ONLY <1>0, TxStep, TxOK(t), w \in Workers, t \in TxWith(T, M, B),
       tx' = [tx EXCEPT ![w] = t]
<1>2. UNCHANGED assetVars /\ settings' \in Settings
  BY ProceedFacts
<1>3. DataInv' /\ ChargesAgree'
  BY <1>2 DEF AgreeInv, DataInv, ChargesAgree, MonthsOf, AssetsOf, assetVars
<1>4. \A v \in Workers \ {w} : Held(v)' = Held(v) /\ Charged(v)' = Charged(v)
  BY <1>1 DEF Held, Charged, Month
<1>5. /\ Held(w)' \subseteq t.plan
      /\ Charged(w)' = {<<a, t.req.month>> : a \in t.plan}
  BY <1>1 DEF Held, Charged, Month
<1>6. HeldInv'
  <2>1. charges' = charges
    BY <1>2 DEF assetVars
  <2>2. Charged(w)' \cap charges' = {}
    BY <1>5, <2>1
  <2>3. ASSUME NEW v \in Workers, (Held(v) # {})'
        PROVE  (Charged(v) \cap charges = {})'
    BY <1>4, <2>1, <2>2, <2>3 DEF AgreeInv, HeldInv
  <2>4. ASSUME NEW u \in Workers, NEW v \in Workers, u # v
        PROVE  (Held(u) \cap Held(v) = {})'
    <3>1. CASE u # w /\ v # w
      BY <1>4, <2>4, <3>1 DEF AgreeInv, HeldInv
    <3>2. CASE u = w
      BY <1>4, <1>5, <2>4, <3>2
    <3>3. CASE v = w
      BY <1>4, <1>5, <2>4, <3>3
    <3> QED BY <3>1, <3>2, <3>3
  <2> QED BY <2>3, <2>4 DEF HeldInv
<1> QED BY <1>1, <1>3, <1>6 DEF AgreeInv

LEMMA ReadMonthRowsStep ==
  ASSUME AgreeInv, NEW w \in Workers, ReadMonthRows(w)
  PROVE  AgreeInv'
<1> DEFINE due == Due(tx[w].read, Month(w))
           pc == IF due = {} THEN "mark" ELSE "check"
           t == [tx[w] EXCEPT !.pc = pc, !.plan = due]
<1>1. PICK T, M, B : tx[w] \in TxWith(T, M, B)
  BY DEF AgreeInv, TxInv
<1>2. TxOK(tx[w]) /\ Proceed /\ tx[w].req.op \in {"DEPRECIATE", "CLOSE"}
  BY DEF AgreeInv, TxInv, ReadMonthRows, At
<1>3. CASE Finish(w)
  BY <1>2, <1>3, FinishStep, ProceedFacts
<1>4. CASE tx' = [tx EXCEPT ![w] = t] /\ ~(due = {} /\ tx[w].req.op = "DEPRECIATE")
  <2>1. due \subseteq Assets
    BY DEF Due
  <2>2. pc \in Pcs
    BY DEF Pcs
  <2> HIDE DEF due
  <2>3. t \in TxWith(T, M, B) /\ t.pc = pc /\ t.plan = due /\ t.req = tx[w].req
    BY <1>1, <2>1, <2>2 DEF TxWith
  <2>4. pc \in HeldPcs => due = {} /\ t.req.op = "CLOSE"
    BY <1>2, <1>4, <2>3 DEF HeldPcs
  <2>5. TxOK(t)
    BY <1>2, <2>3, <2>4 DEF TxOK
  <2> HIDE DEF t, pc
  <2>6. CASE pc \in HeldPcs
    BY <1>2, <1>4, <2>3, <2>4, <2>5, <2>6, HoldStep
  <2>7. CASE pc \notin HeldPcs
    BY <1>2, <1>4, <2>3, <2>5, <2>7, QuietStep, ProceedFacts
  <2> QED BY <2>6, <2>7
<1> QED BY <1>3, <1>4 DEF ReadMonthRows

LEMMA MarkTransactionsStep ==
  ASSUME AgreeInv, NEW w \in Workers, MarkTransactions(w)
  PROVE  AgreeInv'
<1> DEFINE m == Month(w)
           t == [tx[w] EXCEPT !.pc = "sum", !.marked = unlocked[m],
                              !.touched = posted[m] + charged[m] + revalued[m] > 0]
<1>1. PICK T, M, B : tx[w] \in TxWith(T, M, B)
  BY DEF AgreeInv, TxInv
<1>2. TxOK(tx[w]) /\ Proceed /\ tx[w].pc \in HeldPcs
  BY DEF AgreeInv, TxInv, MarkTransactions, At, HeldPcs
<1>3. /\ t \in TxWith(T, {t.marked}, {t.touched}) /\ t.pc \in HeldPcs
      /\ t.plan = tx[w].plan /\ t.req = tx[w].req
  BY <1>1 DEF TxWith, Pcs, HeldPcs
<1>4. TxOK(t)
  BY <1>2, <1>3 DEF TxOK
<1>5. tx' = [tx EXCEPT ![w] = t]
  BY DEF MarkTransactions
<1> HIDE DEF t
<1> QED BY <1>2, <1>3, <1>4, <1>5, QuietStep, ProceedFacts

LEMMA SumEntriesStep ==
  ASSUME AgreeInv, NEW w \in Workers, SumEntries(w)
  PROVE  AgreeInv'
<1> DEFINE t == [tx[w] EXCEPT !.pc = "save",
                   !.total = History(Month(w)) + Cardinality(tx[w].plan)]
<1>1. PICK T, M, B : tx[w] \in TxWith(T, M, B)
  BY DEF AgreeInv, TxInv
<1>2. TxOK(tx[w]) /\ Proceed /\ tx[w].pc \in HeldPcs
  BY DEF AgreeInv, TxInv, SumEntries, At, HeldPcs
<1>3. /\ t \in TxWith({t.total}, M, B) /\ t.pc \in HeldPcs
      /\ t.plan = tx[w].plan /\ t.req = tx[w].req
  BY <1>1 DEF TxWith, Pcs, HeldPcs
<1>4. TxOK(t)
  BY <1>2, <1>3 DEF TxOK
<1>5. tx' = [tx EXCEPT ![w] = t]
  BY DEF SumEntries
<1> HIDE DEF t
<1> QED BY <1>2, <1>3, <1>4, <1>5, QuietStep, ProceedFacts

LEMMA SaveBalancesStep ==
  ASSUME AgreeInv, NEW w \in Workers, SaveBalances(w)
  PROVE  AgreeInv'
BY MoveStep, ProceedFacts DEF SaveBalances, At, Pcs, HeldPcs

LEMMA ReadSettingsStep ==
  ASSUME AgreeInv, NEW w \in Workers, ReadSettings(w)
  PROVE  AgreeInv'
BY MoveStep, ProceedFacts DEF ReadSettings, At, Pcs, HeldPcs

LEMMA ReadForUpdateStep ==
  ASSUME AgreeInv, NEW w \in Workers, ReadForUpdate(w)
  PROVE  AgreeInv'
BY MoveStep, ProceedFacts DEF ReadForUpdate, At, Pcs, HeldPcs

LEMMA ReadForRevaluationStep ==
  ASSUME AgreeInv, NEW w \in Workers, ReadForRevaluation(w)
  PROVE  AgreeInv'
<1>1. UNCHANGED assetVars /\ settings' \in Settings
  BY ProceedFacts DEF ReadForRevaluation
<1>2. CASE Finish(w)
  BY <1>1, <1>2, FinishStep
<1>3. CASE ReadThen(w, "check")
  BY <1>1, <1>3, MoveStep DEF Pcs, HeldPcs
<1>4. CASE ReadThen(w, "persist")
  BY <1>1, <1>4, MoveStep DEF Pcs, HeldPcs
<1> QED BY <1>2, <1>3, <1>4 DEF ReadForRevaluation

LEMMA PostRevaluationStep ==
  ASSUME AgreeInv, NEW w \in Workers, PostRevaluation(w)
  PROVE  AgreeInv'
<1>1. UNCHANGED assetVars /\ settings' \in Settings
  BY DEF PostRevaluation, AgreeInv, DataInv
<1>2. Goto(w, "persist")
  BY DEF PostRevaluation
<1> QED BY <1>1, <1>2, MoveStep DEF Pcs, HeldPcs

(* The settings that are written back are settings.                         *)
LEMMA SeenFacts ==
  ASSUME AgreeInv, NEW w \in Workers
  PROVE  /\ tx[w].seen \in Settings
         /\ tx[w].req \in Request
         /\ tx[w].plan \subseteq Assets
BY DEF AgreeInv, TxInv, TxWith

(* The day of a request is one of the two that stand for its month.         *)
LEMMA DayFacts ==
  ASSUME NEW q \in Request
  PROVE  /\ Day(q) \in Days
         /\ q.month \in Months => Day(q) <= 2 * q.month
         /\ q.month \in Months /\ q.lastDay => Day(q) = 2 * q.month
<1>1. q.month \in 0..NMonths /\ NMonths \in Nat /\ q.lastDay \in BOOLEAN
  BY CalendarAssumption DEF Request
<1>2. CASE q.month = 0
  BY <1>1, <1>2 DEF Day, Days, Months
<1>3. CASE q.month # 0 /\ q.lastDay
  <2>1. Day(q) = 2 * q.month
    BY <1>3 DEF Day
  <2> QED BY <1>1, <1>3, <2>1 DEF Days, Months
<1>4. CASE q.month # 0 /\ ~q.lastDay
  <2>1. Day(q) = 2 * q.month - 1
    BY <1>4 DEF Day
  <2> QED BY <1>1, <1>4, <2>1 DEF Days, Months
<1> QED BY <1>1, <1>2, <1>3, <1>4

LEMMA WriteSettingsStep ==
  ASSUME AgreeInv, NEW w \in Workers, WriteSettings(w)
  PROVE  AgreeInv'
<1>1. tx[w].seen \in Settings /\ Day(tx[w].req) \in Days
  BY SeenFacts, DayFacts
<1>2. [tx[w].seen EXCEPT !.lockedUntil = Day(tx[w].req)] \in Settings
  BY <1>1 DEF Settings
<1>3. settings' \in Settings /\ UNCHANGED assetVars
  BY <1>1, <1>2 DEF WriteSettings, ledger
<1> QED BY <1>3, FinishStep DEF WriteSettings

LEMMA PersistRevaluationStep ==
  ASSUME AgreeInv, NEW w \in Workers, PersistRevaluation(w)
  PROVE  AgreeInv'
<1>1. tx[w].seen \in Settings /\ Month(w) \in 0..NMonths
  BY SeenFacts DEF Month, Request
<1>2. [tx[w].seen EXCEPT !.lastRevalued = Month(w)] \in Settings
  BY <1>1 DEF Settings
<1>3. settings' \in Settings /\ UNCHANGED assetVars
  BY <1>1, <1>2 DEF PersistRevaluation, ledger
<1> QED BY <1>3, FinishStep DEF PersistRevaluation

--------------------------------------------------------------------------------
(* The steps that commit charges                                            *)

(* The charges of a worker commit: no row of its month was there, and nobody *)
(* else holds the rows of its assets.                                        *)
LEMMA BookStep ==
  ASSUME AgreeInv, NEW w \in Workers,
         Month(w) \in Months, tx[w].plan \subseteq Assets,
         Charged(w) \cap charges = {},
         \A v \in Workers \ {w} : Held(v) \cap tx[w].plan = {},
         BookCharges(w), Finish(w), settings' \in Settings
  PROVE  AgreeInv'
<1> DEFINE P == tx[w].plan
           m == Month(w)
<1>1. /\ charges' = charges \cup {<<a, m>> : a \in P}
      /\ booked' = [a \in Assets |-> IF a \in P THEN booked[a] + 1 ELSE booked[a]]
      /\ charged' = [charged EXCEPT ![m] = @ + Cardinality(P)]
  BY DEF BookCharges, Charged
<1>2. /\ charges \subseteq Assets \X Months
      /\ booked \in [Assets -> Nat]
      /\ charged \in [Months -> Nat]
  BY DEF AgreeInv, DataInv
<1>3. /\ \A a \in P : <<a, m>> \notin charges
      /\ m \in Months /\ P \subseteq Assets
  BY DEF Charged
<1>4. IsFiniteSet(P) /\ Cardinality(P) \in Nat
  BY <1>3, FS_Subset, FS_CardinalityType, CalendarAssumption
<1>5. TxInv' /\ \A v \in Workers : tx'[v] = IF v = w THEN Idle ELSE tx[v]
  BY IdleFacts, TxStep DEF AgreeInv, Finish
<1>6. HeldInv'
  <2>1. \A v \in Workers \ {w} : Held(v)' = Held(v) /\ Charged(v)' = Charged(v)
    BY <1>5 DEF Held, Charged, Month
  <2>2. Held(w)' = {}
    BY <1>5, IdleFacts DEF Held, HeldPcs
  <2>3. ASSUME NEW v \in Workers, Held(v)' # {}
        PROVE  (Charged(v) \cap charges = {})'
    <3>1. v # w /\ Held(v) # {} /\ Charged(v)' = Charged(v)
      BY <2>1, <2>2, <2>3
    <3>2. Charged(v) \cap charges = {}
      BY <3>1 DEF AgreeInv, HeldInv
    <3>3. tx[v].plan \cap P = {}
      BY <3>1 DEF Held
    <3>4. Charged(v) \cap {<<a, m>> : a \in P} = {}
      BY <3>3 DEF Charged
    <3> QED BY <1>1, <3>1, <3>2, <3>4
  <2>4. ASSUME NEW u \in Workers, NEW v \in Workers, u # v
        PROVE  (Held(u) \cap Held(v) = {})'
    BY <2>1, <2>2, <2>4 DEF AgreeInv, HeldInv
  <2> QED BY <2>3, <2>4 DEF HeldInv
<1> HIDE DEF P, m
<1>7. DataInv'
  <2>1. charges' \subseteq Assets \X Months
    BY <1>1, <1>2, <1>3
  <2>2. booked' \in [Assets -> Nat]
    BY <1>1, <1>2
  <2>3. charged' \in [Months -> Nat]
    <3>1. charged' = [charged EXCEPT ![m] = charged[m] + Cardinality(P)]
      BY <1>1
    <3>2. charged[m] + Cardinality(P) \in Nat
      BY <1>2, <1>3, <1>4
    <3> QED BY <1>2, <3>1, <3>2
  <2> QED BY <2>1, <2>2, <2>3 DEF DataInv
<1>8. ASSUME NEW a \in Assets PROVE (booked[a] = Cardinality(MonthsOf(a)))'
  <2>1. IsFiniteSet(MonthsOf(a))
    <3>1. MonthsOf(a) \subseteq 1..NMonths
      BY DEF MonthsOf, Months
    <3>2. 1 \in Int /\ NMonths \in Int
      BY CalendarAssumption
    <3>3. IsFiniteSet(1..NMonths)
      BY <3>2, FS_Interval
    <3> QED BY <3>1, <3>3, FS_Subset
  <2>2. booked[a] = Cardinality(MonthsOf(a))
    BY DEF AgreeInv, ChargesAgree
  <2>3. CASE a \in P
    <3>1. MonthsOf(a)' = MonthsOf(a) \cup {m}
      BY <1>1, <1>3, <2>3 DEF MonthsOf
    <3>2. m \notin MonthsOf(a)
      BY <1>3, <2>3 DEF MonthsOf
    <3>3. Cardinality(MonthsOf(a) \cup {m}) = Cardinality(MonthsOf(a)) + 1
      BY <2>1, <3>2, FS_AddElement
    <3> QED BY <1>1, <2>2, <2>3, <3>1, <3>3
  <2>4. CASE a \notin P
    <3>1. MonthsOf(a)' = MonthsOf(a)
      BY <1>1, <2>4 DEF MonthsOf
    <3> QED BY <1>1, <2>2, <2>4, <3>1
  <2> QED BY <2>3, <2>4
<1>9. ASSUME NEW k \in Months PROVE (charged[k] = Cardinality(AssetsOf(k)))'
  <2>1. IsFiniteSet(AssetsOf(k))
    <3>1. AssetsOf(k) \subseteq Assets
      BY DEF AssetsOf
    <3> QED BY <3>1, FS_Subset, CalendarAssumption
  <2>2. charged[k] = Cardinality(AssetsOf(k))
    BY DEF AgreeInv, ChargesAgree
  <2>3. CASE k = m
    <3>1. AssetsOf(k)' = AssetsOf(k) \cup P
      BY <1>1, <1>3, <2>3 DEF AssetsOf
    <3>2. AssetsOf(k) \cap P = {}
      BY <1>3, <2>3 DEF AssetsOf
    <3>3. Cardinality(AssetsOf(k) \cup P) = Cardinality(AssetsOf(k)) + Cardinality(P)
      <4>1. /\ Cardinality(AssetsOf(k) \cup P)
                 = Cardinality(AssetsOf(k)) + Cardinality(P)
                   - Cardinality(AssetsOf(k) \cap P)
        BY <1>4, <2>1, FS_Union
      <4>2. Cardinality(AssetsOf(k) \cap P) = 0
        BY <3>2, FS_EmptySet
      <4>3. Cardinality(AssetsOf(k)) \in Nat
        BY <2>1, FS_CardinalityType
      <4> QED BY <1>4, <4>1, <4>2, <4>3
    <3>4. charged'[k] = charged[k] + Cardinality(P)
      BY <1>1, <1>2, <2>3
    <3> QED BY <2>2, <3>1, <3>3, <3>4
  <2>4. CASE k # m
    <3>1. AssetsOf(k)' = AssetsOf(k)
      BY <1>1, <2>4 DEF AssetsOf
    <3>2. charged'[k] = charged[k]
      BY <1>1, <1>2, <2>4
    <3> QED BY <2>2, <3>1, <3>2
  <2> QED BY <2>3, <2>4
<1>10. ChargesAgree'
  BY <1>8, <1>9 DEF ChargesAgree
<1> QED BY <1>5, <1>6, <1>7, <1>10 DEF AgreeInv

LEMMA ChargeAssetsStep ==
  ASSUME AgreeInv, NEW w \in Workers, ChargeAssets(w)
  PROVE  AgreeInv'
<1>1. TxOK(tx[w]) /\ tx[w].req.op \in {"DEPRECIATE", "CLOSE"}
  BY DEF AgreeInv, TxInv, ChargeAssets, At
<1>2. Month(w) \in Months /\ tx[w].plan \subseteq Assets
  BY <1>1, SeenFacts DEF TxOK, Month
<1>3. \A v \in Workers \ {w} : Held(v) \cap tx[w].plan = {}
  BY DEF ChargeAssets
<1>4. CASE Reject(w)
  BY <1>4, RejectStep
<1>5. CASE Charged(w) \cap charges = {} /\ tx[w].req.op = "CLOSE"
           /\ Goto(w, "mark") /\ Proceed
  <2> DEFINE t == [tx[w] EXCEPT !.pc = "mark"]
  <2>1. PICK T, M, B : tx[w] \in TxWith(T, M, B)
    BY DEF AgreeInv, TxInv
  <2>2. t \in TxWith(T, M, B) /\ t.req = tx[w].req /\ t.plan = tx[w].plan
    BY <2>1 DEF TxWith, Pcs
  <2>3. TxOK(t)
    BY <1>1, <1>5, <2>2 DEF TxOK
  <2>4. tx' = [tx EXCEPT ![w] = t]
    BY <1>5 DEF Goto
  <2> HIDE DEF t
  <2>5. \A a \in t.plan : <<a, t.req.month>> \notin charges
    BY <1>5, <2>2 DEF Charged, Month
  <2> QED BY <1>3, <1>5, <2>2, <2>3, <2>4, <2>5, HoldStep
<1>6. CASE Charged(w) \cap charges = {} /\ BookCharges(w) /\ Finish(w)
           /\ UNCHANGED settings
  <2>1. settings' \in Settings
    BY <1>6 DEF AgreeInv, DataInv
  <2> QED BY <1>2, <1>3, <1>6, <2>1, BookStep
<1> QED BY <1>4, <1>5, <1>6 DEF ChargeAssets

LEMMA CommitCloseStep ==
  ASSUME AgreeInv, NEW w \in Workers, CommitClose(w)
  PROVE  AgreeInv'
<1>1. TxOK(tx[w]) /\ tx[w].req.op = "CLOSE" /\ tx[w].pc = "close"
  BY DEF AgreeInv, TxInv, CommitClose, At
<1>2. Month(w) \in Months /\ tx[w].plan \subseteq Assets /\ tx[w].seen \in Settings
  BY <1>1, SeenFacts DEF TxOK, Month
<1>3. Held(w) = tx[w].plan
  BY <1>1 DEF Held
<1>4. \A v \in Workers \ {w} : Held(v) \cap tx[w].plan = {}
  BY <1>3 DEF AgreeInv, HeldInv
<1>5. Charged(w) \cap charges = {}
  <2>1. CASE tx[w].plan = {}
    BY <2>1 DEF Charged
  <2>2. CASE tx[w].plan # {}
    BY <1>3, <2>2 DEF AgreeInv, HeldInv
  <2> QED BY <2>1, <2>2
<1>6. settings' \in Settings
  <2>1. tx[w].seen.closed \cup {Month(w)} \in SUBSET Months
    BY <1>2 DEF Settings
  <2>2. settings' = [tx[w].seen EXCEPT !.closed = @ \cup {Month(w)}]
    BY DEF CommitClose
  <2> QED BY <1>2, <2>1, <2>2 DEF Settings
<1>7. BookCharges(w) /\ Finish(w)
  BY DEF CommitClose
<1> QED BY <1>2, <1>4, <1>5, <1>6, <1>7, BookStep

--------------------------------------------------------------------------------
(* The theorem                                                              *)

LEMMA AgreeInit == Init => AgreeInv
<1> SUFFICES ASSUME Init PROVE AgreeInv
  OBVIOUS
<1>1. TxInv
  <2>1. \A w \in Workers : tx[w] = Idle
    BY DEF Init
  <2>2. tx = [w \in Workers |-> tx[w]]
    BY DEF Init
  <2> QED BY <2>1, <2>2, IdleFacts DEF TxInv
<1>2. DataInv
  BY CalendarAssumption
     DEF Init, DataInv, NoSettings, Settings, NoCharges, NoEntries, Months, Days
<1>3. HeldInv
  <2>1. \A w \in Workers : Held(w) = {}
    BY IdleFacts DEF Init, Held, HeldPcs
  <2> QED BY <2>1 DEF HeldInv
<1>4. ChargesAgree
  <2>1. /\ \A a \in Assets : MonthsOf(a) = {}
        /\ \A m \in Months : AssetsOf(m) = {}
    BY DEF Init, MonthsOf, AssetsOf
  <2> QED BY <2>1, FS_EmptySet DEF Init, ChargesAgree, NoCharges, NoEntries
<1> QED BY <1>1, <1>2, <1>3, <1>4 DEF AgreeInv

LEMMA AgreeNext == AgreeInv /\ [Next]_vars => AgreeInv'
<1> SUFFICES ASSUME AgreeInv, [Next]_vars PROVE AgreeInv'
  OBVIOUS
<1>1. CASE UNCHANGED vars
  BY <1>1 DEF vars, AgreeInv, TxInv, DataInv, HeldInv, ChargesAgree, MonthsOf,
       AssetsOf, Held, Charged, Month, assetVars
<1>2. ASSUME NEW w \in Workers, NEW r \in Requests, Arrive(w, r) PROVE AgreeInv'
  BY <1>2, ArriveStep
<1>3. ASSUME NEW w \in Workers, Serve(w) PROVE AgreeInv'
  BY <1>3, CheckPeriodStep, InsertJournalStep, ReadAssetsStep, ReadMonthRowsStep,
     ChargeAssetsStep, MarkTransactionsStep, SumEntriesStep, SaveBalancesStep,
     ReadSettingsStep, CommitCloseStep, ReadForUpdateStep, WriteSettingsStep,
     ReadForRevaluationStep, PostRevaluationStep, PersistRevaluationStep
     DEF Serve, Depreciate, Close, Revalue
<1>4. ASSUME NEW w \in Workers, Abort(w) PROVE AgreeInv'
  BY <1>4, RejectStep DEF Abort
<1> QED BY <1>1, <1>2, <1>3, <1>4 DEF Next

(* However many runs of the depreciation and closes there are, and however  *)
(* they interleave, wait, fail and are retried, an asset is charged once a  *)
(* month: bookedDepreciation and the journals of every month agree with the *)
(* FixedAssetDepreciationMonth rows (runMonthlyDepreciation inside and      *)
(* outside closePeriod).                                                    *)
THEOREM ChargesAlwaysAgree == Spec => []ChargesAgree
<1>1. AgreeInv => ChargesAgree
  BY DEF AgreeInv
<1> QED BY <1>1, AgreeInit, AgreeNext, PTL DEF Spec

--------------------------------------------------------------------------------
(* Requests served one at a time: a closed month stays closed and nothing is *)
(* posted into it.  With two requests both are lost (run period_late_posting;*)
(* README, section 9).                                                       *)

OneAtATime ==
  \A v, w \in Workers : tx[v].pc # "idle" /\ tx[w].pc # "idle" => v = w

(* A request that is about to write the settings back has them as they are. *)
SeenIsFresh(t, s) ==
  ( \/ t.pc \in {"close", "write", "persist"}
    \/ t.req.op = "REVALUE" /\ t.pc \in {"check", "insert"} )
  => t.seen = s

(* A request that is about to post, or has charged, was let into its month. *)
MonthIsOpen(t, s) ==
  (t.pc \in {"insert", "charge"} \/ (t.pc \in HeldPcs /\ t.plan # {}))
  => Accepts(s, t.req)

Fresh(t, s) == SeenIsFresh(t, s) /\ MonthIsOpen(t, s)

SerialInv == OneAtATime /\ \A w \in Workers : Fresh(tx[w], settings)

--------------------------------------------------------------------------------
(* After the request in service ends there is none.                         *)
LEMMA SerialFinish ==
  ASSUME AgreeInv, SerialInv, NEW w \in Workers, tx[w].pc # "idle", Finish(w)
  PROVE  SerialInv'
<1>1. \A v \in Workers : tx'[v] = IF v = w THEN Idle ELSE tx[v]
  BY DEF AgreeInv, TxInv, Finish
<1>2. \A v \in Workers : tx'[v].pc = "idle"
  BY <1>1 DEF SerialInv, OneAtATime, Idle
<1> QED BY <1>2 DEF SerialInv, OneAtATime, Fresh, SeenIsFresh, MonthIsOpen, HeldPcs

(* The request in service, or the one that arrives when there is none, moves *)
(* on, and the settings stay as they are.                                    *)
LEMMA SerialMove ==
  ASSUME AgreeInv, SerialInv, NEW w \in Workers, NEW t,
         tx' = [tx EXCEPT ![w] = t], Fresh(t, settings), UNCHANGED settings,
         \A v \in Workers \ {w} : tx[v].pc = "idle"
  PROVE  SerialInv'
<1>1. \A v \in Workers : tx'[v] = IF v = w THEN t ELSE tx[v]
  BY DEF AgreeInv, TxInv
<1>2. OneAtATime'
  BY <1>1 DEF OneAtATime
<1>3. \A v \in Workers : Fresh(tx'[v], settings')
  BY <1>1 DEF SerialInv
<1> QED BY <1>2, <1>3 DEF SerialInv

(* Moving on without a look at the settings, or with one.                    *)
LEMMA RowFacts ==
  ASSUME AgreeInv, NEW w \in Workers, NEW pc \in Pcs
  PROVE  /\ LET t == [tx[w] EXCEPT !.pc = pc] IN
              t.pc = pc /\ t.req = tx[w].req /\ t.plan = tx[w].plan /\ t.seen = tx[w].seen
         /\ LET t == [tx[w] EXCEPT !.pc = pc, !.seen = settings] IN
              t.pc = pc /\ t.req = tx[w].req /\ t.plan = tx[w].plan /\ t.seen = settings
BY DEF AgreeInv, TxInv, TxWith

(* A request arrives when there is no other, and one that is served is not   *)
(* idle.                                                                     *)
LEMMA AloneAtArrival ==
  ASSUME AgreeInv, SerialInv, MaxInFlight <= 1, IsFiniteSet(Workers),
         NEW w \in Workers, NEW r \in Requests, Arrive(w, r)
  PROVE  \A v \in Workers : tx[v].pc = "idle"
<1>1. IsFiniteSet(InFlight)
  BY FS_Subset DEF InFlight
<1>2. Cardinality(InFlight) \in Nat /\ Cardinality(InFlight) < MaxInFlight
  BY <1>1, FS_CardinalityType DEF Arrive
<1>3. Cardinality(InFlight) = 0
  BY <1>2, CallsAssumption
<1>4. InFlight = {}
  BY <1>1, <1>3, FS_EmptySet
<1> QED BY <1>4 DEF InFlight

LEMMA BusyFacts ==
  ASSUME NEW w \in Workers, Serve(w) \/ Abort(w)
  PROVE  tx[w].pc # "idle"
BY DEF Serve, Abort, CheckPeriod, InsertJournal, Depreciate, ReadAssets,
   ReadMonthRows, ChargeAssets, Close, MarkTransactions, SumEntries, SaveBalances,
   ReadSettings, CommitClose, ReadForUpdate, WriteSettings, Revalue,
   ReadForRevaluation, PostRevaluation, PersistRevaluation, At

LEMMA SerialArrive ==
  ASSUME AgreeInv, SerialInv, MaxInFlight <= 1, IsFiniteSet(Workers),
         NEW w \in Workers, NEW r \in Requests, Arrive(w, r)
  PROVE  SerialInv'
<1> DEFINE t == [tx[w] EXCEPT !.pc = FirstPc(r.op), !.req = r]
<1>1. \A v \in Workers : tx[v].pc = "idle"
  BY AloneAtArrival
<1>2. /\ FirstPc(r.op) \in {"check", "assets", "read"}
      /\ r.op = "REVALUE" => FirstPc(r.op) = "read"
  BY CallsAssumption DEF Requests, OpNames, FirstPc
<1>3. t.pc = FirstPc(r.op) /\ t.req = r
  <2>1. PICK T, M, B : tx[w] \in TxWith(T, M, B)
    BY DEF AgreeInv, TxInv
  <2> QED BY <2>1 DEF TxWith
<1>4. Fresh(t, settings)
  BY <1>2, <1>3 DEF Fresh, SeenIsFresh, MonthIsOpen, HeldPcs
<1>5. tx' = [tx EXCEPT ![w] = t] /\ UNCHANGED settings
  BY DEF Arrive
<1> HIDE DEF t
<1> QED BY <1>1, <1>4, <1>5, SerialMove

LEMMA SerialServe ==
  ASSUME AgreeInv, SerialInv, NEW w \in Workers, Serve(w) \/ Abort(w)
  PROVE  SerialInv'
<1>1. tx[w].pc # "idle"
  BY BusyFacts
<1>2. \A v \in Workers \ {w} : tx[v].pc = "idle"
  BY <1>1 DEF SerialInv, OneAtATime
<1>3. CASE Finish(w)
  BY <1>1, <1>3, SerialFinish
<1>4. Fresh(tx[w], settings)
  BY DEF SerialInv
<1>5. ASSUME NEW pc \in Pcs, Goto(w, pc), UNCHANGED settings,
             LET t == [tx[w] EXCEPT !.pc = pc] IN Fresh(t, settings)
      PROVE  SerialInv'
  <2>1. tx' = [tx EXCEPT ![w] = [tx[w] EXCEPT !.pc = pc]]
    BY <1>5 DEF Goto
  <2> QED BY <1>2, <1>5, <2>1, SerialMove
<1>6. ASSUME NEW pc \in Pcs, ReadThen(w, pc), UNCHANGED settings,
             LET t == [tx[w] EXCEPT !.pc = pc, !.seen = settings] IN Fresh(t, settings)
      PROVE  SerialInv'
  <2>1. tx' = [tx EXCEPT ![w] = [tx[w] EXCEPT !.pc = pc, !.seen = settings]]
    BY <1>6 DEF ReadThen
  <2> QED BY <1>2, <1>6, <2>1, SerialMove
<1>7. CASE CheckPeriod(w)
  <2>1. UNCHANGED settings
    BY <1>7 DEF CheckPeriod, Proceed
  <2>2. CASE Accepts(settings, tx[w].req) /\ Goto(w, "charge")
             /\ tx[w].req.op \in {"DEPRECIATE", "CLOSE"}
    <3>1. LET t == [tx[w] EXCEPT !.pc = "charge"] IN Fresh(t, settings)
      BY <2>2, RowFacts DEF Fresh, SeenIsFresh, MonthIsOpen, HeldPcs, Pcs, Month
    <3> QED BY <1>5, <2>1, <2>2, <3>1 DEF Pcs
  <2>3. CASE Accepts(settings, tx[w].req) /\ Goto(w, "insert")
    <3>1. tx[w].pc = "check"
      BY <1>7 DEF CheckPeriod, At
    <3>2. LET t == [tx[w] EXCEPT !.pc = "insert"] IN Fresh(t, settings)
      BY <1>4, <2>3, <3>1, RowFacts DEF Fresh, SeenIsFresh, MonthIsOpen, HeldPcs, Pcs, Month
    <3> QED BY <1>5, <2>1, <2>3, <3>2 DEF Pcs
  <2> QED BY <1>3, <1>7, <2>2, <2>3 DEF CheckPeriod
<1>8. CASE ReadAssets(w)
  <2> DEFINE t == [tx[w] EXCEPT !.pc = "rows", !.read = booked]
  <2>1. tx' = [tx EXCEPT ![w] = t] /\ UNCHANGED settings
    BY <1>8 DEF ReadAssets, Proceed
  <2>2. t.pc = "rows"
    BY DEF AgreeInv, TxInv, TxWith
  <2>3. Fresh(t, settings)
    BY <2>2 DEF Fresh, SeenIsFresh, MonthIsOpen, HeldPcs
  <2> QED BY <1>2, <2>1, <2>3, SerialMove
<1>9. CASE ReadMonthRows(w)
  <2> DEFINE due == Due(tx[w].read, Month(w))
             pc == IF due = {} THEN "mark" ELSE "check"
             t == [tx[w] EXCEPT !.pc = pc, !.plan = due]
  <2>1. CASE tx' = [tx EXCEPT ![w] = t]
    <3>1. t.pc = pc /\ t.plan = due /\ t.req = tx[w].req
      BY DEF AgreeInv, TxInv, TxWith
    <3>2. tx[w].req.op # "REVALUE"
      BY <1>9 DEF ReadMonthRows, At
    <3> HIDE DEF due
    <3>3. Fresh(t, settings)
      BY <3>1, <3>2 DEF Fresh, SeenIsFresh, MonthIsOpen, HeldPcs
    <3> HIDE DEF t, pc
    <3> QED BY <1>2, <1>9, <2>1, <3>3, SerialMove DEF ReadMonthRows, Proceed
  <2> QED BY <1>3, <1>9, <2>1 DEF ReadMonthRows
<1>10. CASE ChargeAssets(w)
  <2>1. CASE Goto(w, "mark") /\ Proceed
    <3>1. tx[w].pc = "charge" /\ tx[w].req.op # "REVALUE"
      BY <1>10 DEF ChargeAssets, At
    <3>2. LET t == [tx[w] EXCEPT !.pc = "mark"] IN Fresh(t, settings)
      BY <1>4, <3>1, RowFacts
         DEF Fresh, SeenIsFresh, MonthIsOpen, HeldPcs, Pcs
    <3> QED BY <1>5, <2>1, <3>2 DEF Pcs, Proceed
  <2> QED BY <1>3, <1>10, <2>1 DEF ChargeAssets, Reject
<1>11. CASE MarkTransactions(w) \/ SumEntries(w)
  <2>1. tx[w].pc \in {"mark", "sum"} /\ tx[w].req.op # "REVALUE" /\ UNCHANGED settings
    BY <1>11 DEF MarkTransactions, SumEntries, At, Proceed
  <2>2. PICK t : /\ tx' = [tx EXCEPT ![w] = t]
                 /\ t.pc \in {"sum", "save"}
                 /\ t.plan = tx[w].plan /\ t.req = tx[w].req
    BY <1>11 DEF MarkTransactions, SumEntries, AgreeInv, TxInv, TxWith
  <2>3. Fresh(t, settings)
    BY <1>4, <2>1, <2>2 DEF Fresh, SeenIsFresh, MonthIsOpen, HeldPcs
  <2> QED BY <1>2, <2>1, <2>2, <2>3, SerialMove
<1>12. CASE SaveBalances(w)
  <2>1. tx[w].pc = "save" /\ Goto(w, "settings") /\ Proceed
    BY <1>12 DEF SaveBalances, At
  <2>2. LET t == [tx[w] EXCEPT !.pc = "settings"] IN Fresh(t, settings)
    BY <1>4, <2>1, RowFacts DEF Fresh, SeenIsFresh, MonthIsOpen, HeldPcs, Pcs
  <2> QED BY <1>5, <2>1, <2>2 DEF Pcs, Proceed
<1>13. CASE ReadSettings(w)
  <2>1. tx[w].pc = "settings" /\ ReadThen(w, "close") /\ Proceed
    BY <1>13 DEF ReadSettings, At
  <2>2. LET t == [tx[w] EXCEPT !.pc = "close", !.seen = settings] IN Fresh(t, settings)
    BY <1>4, <2>1, RowFacts DEF Fresh, SeenIsFresh, MonthIsOpen, HeldPcs, Pcs
  <2> QED BY <1>6, <2>1, <2>2 DEF Pcs, Proceed
<1>14. CASE ReadForUpdate(w) \/ ReadForRevaluation(w)
  <2>1. UNCHANGED settings
    BY <1>14 DEF ReadForUpdate, ReadForRevaluation, Proceed
  <2>2. ASSUME NEW pc \in {"write", "check", "persist"}, ReadThen(w, pc)
        PROVE  SerialInv'
    <3>1. LET t == [tx[w] EXCEPT !.pc = pc, !.seen = settings] IN Fresh(t, settings)
      BY <2>2, RowFacts DEF Fresh, SeenIsFresh, MonthIsOpen, HeldPcs, Pcs
    <3> QED BY <1>6, <2>1, <2>2, <3>1 DEF Pcs
  <2> QED BY <1>3, <1>14, <2>2 DEF ReadForUpdate, ReadForRevaluation
<1>15. CASE PostRevaluation(w)
  <2>1. /\ tx[w].pc = "insert" /\ tx[w].req.op = "REVALUE"
        /\ Goto(w, "persist") /\ UNCHANGED settings
    BY <1>15 DEF PostRevaluation, At
  <2>2. LET t == [tx[w] EXCEPT !.pc = "persist"] IN Fresh(t, settings)
    BY <1>4, <2>1, RowFacts DEF Fresh, SeenIsFresh, MonthIsOpen, HeldPcs, Pcs
  <2> QED BY <1>5, <2>1, <2>2 DEF Pcs
<1>16. CASE \/ InsertJournal(w) \/ CommitClose(w) \/ WriteSettings(w)
            \/ PersistRevaluation(w) \/ Abort(w)
  BY <1>3, <1>16
     DEF InsertJournal, CommitClose, WriteSettings, PersistRevaluation, Abort, Reject
<1> QED BY <1>7, <1>8, <1>9, <1>10, <1>11, <1>12, <1>13, <1>14, <1>15, <1>16
        DEF Serve, Depreciate, Close, Revalue

LEMMA SerialInit == Init => SerialInv
<1> SUFFICES ASSUME Init PROVE SerialInv
  OBVIOUS
<1>1. \A w \in Workers : tx[w] = Idle
  BY DEF Init
<1> QED BY <1>1 DEF SerialInv, OneAtATime, Fresh, SeenIsFresh, MonthIsOpen,
                    HeldPcs, Idle

LEMMA SerialNext ==
  ASSUME AgreeInv, SerialInv, [Next]_vars, MaxInFlight <= 1, IsFiniteSet(Workers)
  PROVE  SerialInv'
<1>1. CASE UNCHANGED vars
  BY <1>1 DEF vars, SerialInv, OneAtATime
<1> QED BY <1>1, SerialArrive, SerialServe DEF Next

--------------------------------------------------------------------------------
(* Only a close that ends, or another writer that ends, changes the settings. *)
LEMMA ClosedGrows ==
  ASSUME AgreeInv, SerialInv, [Next]_vars
  PROVE  settings.closed \subseteq settings'.closed
<1>1. ASSUME NEW w \in Workers, tx[w].pc \in {"close", "write", "persist"}
      PROVE  tx[w].seen = settings
  BY <1>1 DEF SerialInv, Fresh, SeenIsFresh
<1>2. settings \in Settings
  BY DEF AgreeInv, DataInv
<1>3. CASE UNCHANGED settings
  BY <1>3
<1>4. ASSUME NEW w \in Workers, CommitClose(w)
      PROVE  settings.closed \subseteq settings'.closed
  <2>1. settings' = [settings EXCEPT !.closed = @ \cup {Month(w)}]
    BY <1>1, <1>4 DEF CommitClose, At
  <2> QED BY <1>2, <2>1 DEF Settings
<1>5. ASSUME NEW w \in Workers, WriteSettings(w)
      PROVE  settings.closed \subseteq settings'.closed
  <2>1. \/ settings' = [settings EXCEPT !.lockedUntil = Day(tx[w].req)]
        \/ settings' = settings
    BY <1>1, <1>5 DEF WriteSettings, At
  <2> QED BY <1>2, <2>1 DEF Settings
<1>6. ASSUME NEW w \in Workers, PersistRevaluation(w)
      PROVE  settings.closed \subseteq settings'.closed
  <2>1. settings' = [settings EXCEPT !.lastRevalued = Month(w)]
    BY <1>1, <1>6 DEF PersistRevaluation, At
  <2> QED BY <1>2, <2>1 DEF Settings
<1> QED BY <1>3, <1>4, <1>5, <1>6
        DEF Next, vars, Arrive, Serve, Abort, Reject, CheckPeriod, InsertJournal,
            Depreciate, ReadAssets, ReadMonthRows, ChargeAssets, Close,
            MarkTransactions, SumEntries, SaveBalances, ReadSettings, ReadForUpdate,
            Revalue, ReadForRevaluation, PostRevaluation, Proceed

(* The entries that documents and revaluations have posted are counts.       *)
EntriesOK == posted \in [Months -> Nat] /\ revalued \in [Months -> Nat]

LEMMA AddOne ==
  ASSUME NEW f \in [Months -> Nat], NEW m
  PROVE  [f EXCEPT ![m] = @ + 1] \in [Months -> Nat]
<1>1. CASE m \in Months
  <2>1. f[m] + 1 \in Nat
    BY <1>1
  <2> QED BY <2>1
<1>2. CASE m \notin Months
  BY <1>2
<1> QED BY <1>1, <1>2

LEMMA EntriesStep == EntriesOK /\ [Next]_vars => EntriesOK'
<1> SUFFICES ASSUME EntriesOK, [Next]_vars PROVE EntriesOK'
  OBVIOUS
<1>1. CASE UNCHANGED <<posted, revalued>>
  BY <1>1 DEF EntriesOK
<1>2. ASSUME NEW w \in Workers, InsertJournal(w) PROVE EntriesOK'
  BY <1>2, AddOne DEF EntriesOK, InsertJournal
<1>3. ASSUME NEW w \in Workers, PostRevaluation(w) PROVE EntriesOK'
  BY <1>3, AddOne DEF EntriesOK, PostRevaluation
<1> QED BY <1>1, <1>2, <1>3
        DEF Next, vars, Arrive, Serve, Abort, Reject, CheckPeriod, Depreciate,
            ReadAssets, ReadMonthRows, ChargeAssets, Close, MarkTransactions,
            SumEntries, SaveBalances, ReadSettings, CommitClose, ReadForUpdate,
            WriteSettings, Revalue, ReadForRevaluation, PersistRevaluation, Proceed,
            ledger

(* What is let in is dated after the months that are closed and those before *)
(* the lock; a charge is dated 00:00 of its month's last day.               *)
LEMMA AcceptedMonth ==
  ASSUME AgreeInv, NEW w \in Workers, Accepts(settings, tx[w].req),
         tx[w].req.op \notin {"PATCH", "LOCK"}, NEW m \in Months
  PROVE  /\ m \in settings.closed \/ 2 * m < settings.lockedUntil => Month(w) # m
         /\ /\ tx[w].req.op \in {"DEPRECIATE", "CLOSE"}
            /\ 2 * m <= settings.lockedUntil
            => Month(w) # m
<1> DEFINE q == tx[w].req
<1>1. q \in Request /\ TxOK(tx[w])
  BY SeenFacts DEF AgreeInv, TxInv
<1>2. q.month \in Months /\ Month(w) = q.month
  BY <1>1 DEF TxOK, Month
<1>3. /\ settings.lockedUntil \in Int /\ m \in Int
      /\ q.month \notin settings.closed
  BY CalendarAssumption DEF AgreeInv, DataInv, Settings, Months, Days, Accepts
<1>4. Day(q) > settings.lockedUntil \/ (Day(q) = settings.lockedUntil /\ q.timed)
  BY DEF Accepts, AfterLock
<1>5. q.op \in {"DEPRECIATE", "CLOSE"} => q.lastDay /\ ~q.timed
  BY <1>1 DEF TxOK
<1>6. /\ Day(q) \in Int
      /\ Day(q) <= 2 * q.month
      /\ q.lastDay => Day(q) = 2 * q.month
  BY <1>1, <1>2, DayFacts, CalendarAssumption DEF Days
<1> HIDE DEF q
<1>7. 2 * m < settings.lockedUntil => q.month # m
  BY <1>3, <1>4, <1>6
<1>8. q.op \in {"DEPRECIATE", "CLOSE"} /\ 2 * m <= settings.lockedUntil => q.month # m
  <2>1. SUFFICES ASSUME q.op \in {"DEPRECIATE", "CLOSE"}, 2 * m <= settings.lockedUntil
                 PROVE  q.month # m
    OBVIOUS
  <2>2. q.lastDay /\ ~q.timed
    BY <1>5, <2>1
  <2>3. Day(q) > settings.lockedUntil /\ Day(q) = 2 * q.month
    BY <1>4, <1>6, <2>2
  <2> QED BY <1>3, <2>1, <2>3
<1> QED BY <1>2, <1>3, <1>7, <1>8 DEF q

(* A step adds to the entries of one month at most, that of a request which *)
(* was let in.                                                              *)
LEMMA PostsIntoOpenMonths ==
  ASSUME AgreeInv, SerialInv, EntriesOK, [Next]_vars, NEW m \in Months
  PROVE  /\ m \in settings.closed \/ 2 * m < settings.lockedUntil
              => UNCHANGED <<posted[m], charged[m], revalued[m]>>
         /\ 2 * m <= settings.lockedUntil => UNCHANGED charged[m]
<1> DEFINE Frozen == m \in settings.closed \/ 2 * m < settings.lockedUntil
           Locked == 2 * m <= settings.lockedUntil
           Posts == UNCHANGED <<posted[m], revalued[m]>>
           Charges == UNCHANGED charged[m]
<1>1. charged \in [Months -> Nat]
  BY DEF AgreeInv, DataInv
<1>2. ASSUME NEW w \in Workers, Accepts(settings, tx[w].req),
             tx[w].req.op \notin {"PATCH", "LOCK"}
      PROVE  /\ Frozen => Month(w) # m
             /\ tx[w].req.op \in {"DEPRECIATE", "CLOSE"} /\ Locked => Month(w) # m
  BY <1>2, AcceptedMonth
<1>3. ASSUME NEW w \in Workers, tx[w].pc \in {"insert", "charge"}
      PROVE  Accepts(settings, tx[w].req)
  BY <1>3 DEF SerialInv, Fresh, MonthIsOpen
<1> HIDE DEF Frozen, Locked
<1> SUFFICES (Frozen => Posts /\ Charges) /\ (Locked => Charges)
  BY DEF Frozen, Locked
<1>4. CASE UNCHANGED <<posted, charged, revalued>>
  BY <1>4
<1>5. ASSUME NEW w \in Workers, InsertJournal(w)
      PROVE  (Frozen => Posts) /\ Charges
  <2>1. Frozen => Month(w) # m
    BY <1>2, <1>3, <1>5 DEF InsertJournal, At
  <2> QED BY <1>5, <2>1 DEF InsertJournal, assetVars, EntriesOK
<1>6. ASSUME NEW w \in Workers, PostRevaluation(w)
      PROVE  (Frozen => Posts) /\ Charges
  <2>1. Frozen => Month(w) # m
    BY <1>2, <1>3, <1>6 DEF PostRevaluation, At
  <2> QED BY <1>6, <2>1 DEF PostRevaluation, assetVars, EntriesOK
<1>7. ASSUME NEW w \in Workers, ChargeAssets(w)
      PROVE  Posts /\ (Frozen \/ Locked => Charges)
  <2>1. Frozen \/ Locked => Month(w) # m
    BY <1>2, <1>3, <1>7 DEF ChargeAssets, At
  <2> QED BY <1>1, <1>7, <2>1
          DEF ChargeAssets, BookCharges, Reject, Proceed, ledger, assetVars
<1>8. ASSUME NEW w \in Workers, CommitClose(w)
      PROVE  Posts /\ (Frozen \/ Locked => Charges)
  <2>1. /\ UNCHANGED <<posted, revalued>> /\ tx[w].pc = "close"
        /\ tx[w].req.op = "CLOSE"
        /\ charged' = [charged EXCEPT ![Month(w)] = @ + Cardinality(tx[w].plan)]
    BY <1>8 DEF CommitClose, BookCharges, At
  <2>2. CASE tx[w].plan = {}
    <3>1. Cardinality(tx[w].plan) = 0
      BY <2>2, FS_EmptySet
    <3> QED BY <1>1, <2>1, <3>1
  <2>3. CASE tx[w].plan # {}
    <3>1. Accepts(settings, tx[w].req)
      BY <2>1, <2>3 DEF SerialInv, Fresh, MonthIsOpen, HeldPcs
    <3>2. Frozen \/ Locked => Month(w) # m
      BY <1>2, <2>1, <3>1
    <3> QED BY <1>1, <2>1, <3>2
  <2> QED BY <2>2, <2>3
<1> HIDE DEF Posts, Charges
<1>9. \/ UNCHANGED <<posted, charged, revalued>>
      \/ \E w \in Workers : \/ InsertJournal(w) \/ PostRevaluation(w)
                            \/ ChargeAssets(w) \/ CommitClose(w)
  BY DEF Next, vars, Arrive, Serve, Abort, Reject, CheckPeriod, Depreciate,
         ReadAssets, ReadMonthRows, Close, MarkTransactions, SumEntries,
         SaveBalances, ReadSettings, ReadForUpdate, WriteSettings, Revalue,
         ReadForRevaluation, PersistRevaluation, Proceed, ledger, assetVars
<1> QED BY <1>4, <1>5, <1>6, <1>7, <1>8, <1>9

--------------------------------------------------------------------------------
(* One request at a time: a month that was closed stays closed, whatever     *)
(* other part of the settings is written after it (mergeClosedPeriod,        *)
(* patchPeriodLock, patchInventorySettings, persistLastPostedMonth).         *)
THEOREM SerialClosedStaysClosed ==
  ASSUME MaxInFlight <= 1, IsFiniteSet(Workers)
  PROVE  Spec => ClosedStaysClosed
<1>1. Init => AgreeInv /\ SerialInv
  BY AgreeInit, SerialInit
<1>2. AgreeInv /\ SerialInv /\ [Next]_vars => (AgreeInv /\ SerialInv)'
  BY AgreeNext, SerialNext
<1>3. AgreeInv /\ SerialInv /\ [Next]_vars
      => [settings.closed \subseteq settings'.closed]_vars
  BY ClosedGrows
<1> QED BY <1>1, <1>2, <1>3, PTL DEF Spec, ClosedStaysClosed

(* One request at a time: documents, depreciation and revaluation post       *)
(* nothing into a month that is closed or ended before the lock, and no      *)
(* depreciation into one that ends with it (postJournalInTransaction).       *)
THEOREM SerialClosedMonthsAreFrozen ==
  ASSUME MaxInFlight <= 1, IsFiniteSet(Workers)
  PROVE  Spec => ClosedMonthsAreFrozen
<1> DEFINE Inv == AgreeInv /\ SerialInv /\ EntriesOK
<1>1. Init => Inv
  <2>1. Init => EntriesOK
    BY DEF Init, NoEntries, EntriesOK
  <2> QED BY <2>1, AgreeInit, SerialInit
<1>2. Inv /\ [Next]_vars => Inv'
  BY AgreeNext, SerialNext, EntriesStep
<1>3. Inv /\ [Next]_vars
      => [\A m \in Months :
            /\ m \in settings.closed \/ 2 * m < settings.lockedUntil
                 => UNCHANGED <<posted[m], charged[m], revalued[m]>>
            /\ 2 * m <= settings.lockedUntil => UNCHANGED charged[m]]_vars
  BY PostsIntoOpenMonths
<1> QED BY <1>1, <1>2, <1>3, PTL DEF Spec, ClosedMonthsAreFrozen

--------------------------------------------------------------------------------
(* The final entries up to the end of a month, as a sum                     *)

Total(p, c, m) == SumUpTo([k \in Months |-> p[k] + c[k]], m)

Counts == [Months -> Nat]

LEMMA TotalIsSum ==
  ASSUME NEW p \in Counts, NEW c \in Counts, NEW m \in 0..NMonths
  PROVE  /\ IsFiniteSet(1..m) /\ 1..m \subseteq Months
         /\ Values([k \in Months |-> p[k] + c[k]], 1..m)
         /\ Total(p, c, m) = SumOn([k \in Months |-> p[k] + c[k]], 1..m)
<1> DEFINE v == [k \in Months |-> p[k] + c[k]]
<1>1. NMonths \in Nat
  BY CalendarAssumption
<1>2. 1..m \subseteq Months
  BY <1>1 DEF Months
<1>3. IsFiniteSet(1..m)
  BY <1>1, FS_Interval
<1>4. Values(v, 1..m)
  <2>1. ASSUME NEW k \in 1..m PROVE v[k] \in Int
    <3>1. k \in Months
      BY <1>2
    <3>2. p[k] \in Nat /\ c[k] \in Nat
      BY <3>1 DEF Counts
    <3>3. v[k] = p[k] + c[k]
      BY <3>1
    <3> HIDE DEF v
    <3> QED BY <3>2, <3>3
  <2> QED BY <2>1 DEF Values
<1>5. Total(p, c, m) = FoldSum(0, v, 1..m)
  BY DEF Total, SumUpTo, FoldSum
<1> HIDE DEF v
<1>6. FoldSum(0, v, 1..m) = 0 + SumOn(v, 1..m)
  BY <1>3, <1>4, FoldIsSum
<1>7. SumOn(v, 1..m) \in Int
  BY <1>3, <1>4, SumType
<1>8. Total(p, c, m) = SumOn(v, 1..m)
  BY <1>5, <1>6, <1>7
<1> QED BY <1>2, <1>3, <1>4, <1>8 DEF v

\* More entries make no smaller total.
LEMMA TotalGrows ==
  ASSUME NEW p \in Counts, NEW c \in Counts, NEW q \in Counts, NEW d \in Counts,
         NEW m \in 0..NMonths,
         \A k \in Months : p[k] <= q[k] /\ c[k] <= d[k]
  PROVE  Total(p, c, m) <= Total(q, d, m)
<1> DEFINE v == [k \in Months |-> p[k] + c[k]]
           u == [k \in Months |-> q[k] + d[k]]
<1>1. /\ IsFiniteSet(1..m) /\ 1..m \subseteq Months
      /\ Values(v, 1..m) /\ Total(p, c, m) = SumOn(v, 1..m)
      /\ Values(u, 1..m) /\ Total(q, d, m) = SumOn(u, 1..m)
  BY TotalIsSum
<1>2. ASSUME NEW k \in 1..m PROVE v[k] <= u[k]
  <2>1. k \in Months
    BY <1>1
  <2>2. /\ p[k] \in Nat /\ c[k] \in Nat /\ q[k] \in Nat /\ d[k] \in Nat
        /\ p[k] <= q[k] /\ c[k] <= d[k]
    BY <2>1 DEF Counts
  <2>3. v[k] = p[k] + c[k] /\ u[k] = q[k] + d[k]
    BY <2>1
  <2> HIDE DEF v, u
  <2> QED BY <2>2, <2>3
<1> HIDE DEF v, u
<1> QED BY <1>1, <1>2, SumMonotone

LEMMA TotalType ==
  ASSUME NEW p \in Counts, NEW c \in Counts, NEW m \in 0..NMonths
  PROVE  Total(p, c, m) \in Nat
<1> DEFINE v == [k \in Months |-> p[k] + c[k]]
           z == [k \in Months |-> 0]
<1>1. /\ IsFiniteSet(1..m) /\ 1..m \subseteq Months
      /\ Values(v, 1..m) /\ Total(p, c, m) = SumOn(v, 1..m)
  BY TotalIsSum
<1>2. Values(z, 1..m) /\ \A k \in 1..m : z[k] = 0
  BY <1>1 DEF Values
<1>3. ASSUME NEW k \in 1..m PROVE z[k] <= v[k]
  <2>1. k \in Months
    BY <1>1
  <2>2. p[k] \in Nat /\ c[k] \in Nat
    BY <2>1 DEF Counts
  <2>3. v[k] = p[k] + c[k] /\ z[k] = 0
    BY <2>1
  <2> HIDE DEF v, z
  <2> QED BY <2>2, <2>3
<1> HIDE DEF v, z
<1>4. SumOn(z, 1..m) = 0
  BY <1>1, <1>2, SumZero
<1>5. SumOn(z, 1..m) <= SumOn(v, 1..m)
  BY <1>1, <1>2, <1>3, SumMonotone
<1>6. SumOn(v, 1..m) \in Int
  BY <1>1, SumType
<1> QED BY <1>1, <1>4, <1>5, <1>6

\* Only the months up to the one it is taken at count.
LEMMA TotalSame ==
  ASSUME NEW p \in Counts, NEW c \in Counts, NEW q \in Counts, NEW d \in Counts,
         NEW m \in 0..NMonths,
         \A k \in 1..m : p[k] = q[k] /\ c[k] = d[k]
  PROVE  Total(p, c, m) = Total(q, d, m)
<1> DEFINE v == [k \in Months |-> p[k] + c[k]]
           u == [k \in Months |-> q[k] + d[k]]
<1>1. /\ IsFiniteSet(1..m) /\ 1..m \subseteq Months
      /\ Values(v, 1..m) /\ Total(p, c, m) = SumOn(v, 1..m)
      /\ Values(u, 1..m) /\ Total(q, d, m) = SumOn(u, 1..m)
  BY TotalIsSum
<1>2. \A k \in 1..m : u[k] = v[k]
  BY <1>1
<1> HIDE DEF v, u
<1> QED BY <1>1, <1>2, SumSame

\* What is charged in a month shows in the totals from that month on.
LEMMA TotalCharged ==
  ASSUME NEW p \in Counts, NEW c \in Counts, NEW m \in Months, NEW n \in Nat,
         NEW d \in Counts, d[m] = c[m] + n, \A k \in Months \ {m} : d[k] = c[k]
  PROVE  Total(p, d, m) = Total(p, c, m) + n
<1> DEFINE v == [k \in Months |-> p[k] + c[k]]
           u == [k \in Months |-> p[k] + d[k]]
<1>1. m \in 0..NMonths /\ m \in 1..m
  BY CalendarAssumption DEF Months
<1>2. c[m] \in Nat /\ p[m] \in Nat
  BY DEF Counts
<1>5. /\ IsFiniteSet(1..m) /\ 1..m \subseteq Months
      /\ Values(v, 1..m) /\ Total(p, c, m) = SumOn(v, 1..m)
      /\ Values(u, 1..m) /\ Total(p, d, m) = SumOn(u, 1..m)
  BY <1>1, TotalIsSum
<1>6. v[m] = p[m] + c[m] /\ u[m] = p[m] + d[m]
  OBVIOUS
<1>7. \A k \in 1..m \ {m} : u[k] = v[k]
  BY <1>5
<1> HIDE DEF v, u
<1>8. u[m] \in Int /\ u[m] - v[m] = n
  BY <1>2, <1>6
<1>9. SumOn(u, 1..m) = SumOn(v, 1..m) + u[m] - v[m]
  BY <1>1, <1>5, <1>7, <1>8, SumPoint
<1>10. SumOn(v, 1..m) \in Int /\ v[m] \in Int
  BY <1>1, <1>2, <1>5, <1>6, SumType
<1> QED BY <1>5, <1>8, <1>9, <1>10

--------------------------------------------------------------------------------
(* The sums and the transactions of a close, whatever runs beside it        *)

Marking == {"sum", "save", "settings", "close"}
Saving == {"save", "settings", "close"}

(* What a close has summed is no more than the entries there are now, its   *)
(* own included.                                                            *)
SumFits(t, p, c) ==
  t.pc \in Saving => t.total <= Total(p, c, t.req.month) + Cardinality(t.plan)

(* It locks transactions that are still unlocked, and then it holds rows.    *)
MarksFit(t, u) ==
  t.pc \in Marking => /\ t.marked <= u[t.req.month]
                      /\ t.marked > 0 => t.touched

(* A depreciation that has come to the journal has assets to charge.         *)
PlanFits(t) ==
  t.req.op \in {"DEPRECIATE", "CLOSE"} /\ t.pc \in {"check", "charge"}
  => t.plan # {}

TxFits(t, p, c, u) == SumFits(t, p, c) /\ MarksFit(t, u) /\ PlanFits(t)

Typed(p, r, u, b, s) ==
  p \in Counts /\ r \in Counts /\ u \in Counts /\ b \in Counts /\ s \in Nat

(* A month with unlocked transactions has transactions.                      *)
Touchable(p, c, r, u) == \A m \in Months : u[m] > 0 => p[m] + c[m] + r[m] > 0

(* Two closes of a month do not both lock transactions.                      *)
Apart(t, s) ==
  t.pc \in Marking /\ s.pc \in Marking /\ t.req.month = s.req.month
  => t.marked = 0 \/ s.marked = 0

NeverAhead(b, p, c) == \A m \in Months : b[m] <= Total(p, c, m)

BalanceInv ==
  /\ tx \in [Workers -> Tx]
  /\ Typed(posted, revalued, unlocked, balances, served)
  /\ \A w \in Workers : TxFits(tx[w], posted, charged, unlocked)
  /\ Touchable(posted, charged, revalued, unlocked)
  /\ \A v, w \in Workers : v # w => Apart(tx[v], tx[w])
  /\ NeverAhead(balances, posted, charged)

(* What is posted, charged and revalued only grows.                          *)
Grows(f, g) == \A m \in Months : f[m] <= g[m]

LEMMA GrowsSame == \A f \in Counts : Grows(f, f)
<1>1. ASSUME NEW f \in Counts, NEW m \in Months PROVE f[m] <= f[m]
  <2>1. f[m] \in Nat
    BY DEF Counts
  <2> QED BY <2>1
<1> QED BY <1>1 DEF Grows

LEMMA IdleFits ==
  /\ Idle \in Tx /\ Idle.pc \notin Marking
  /\ \A p, c, u : TxFits(Idle, p, c, u)
BY CalendarAssumption
   DEF Idle, Tx, TxFits, SumFits, MarksFit, PlanFits, Marking, Saving, NoRequest,
       Request, NoSettings, Settings, NoCharges, Pcs, OpNames, Months, Days

(* A close is at a month.                                                    *)
LEMMA ClosingFacts ==
  ASSUME AgreeInv, NEW w \in Workers, tx[w].pc \in HeldPcs
  PROVE  tx[w].req.op = "CLOSE" /\ Month(w) \in Months /\ Month(w) \in 0..NMonths
<1>1. TxOK(tx[w])
  BY DEF AgreeInv, TxInv
<1>2. Months \subseteq 0..NMonths
  BY CalendarAssumption DEF Months
<1> QED BY <1>1, <1>2 DEF TxOK, Month

LEMMA PlanCount ==
  ASSUME AgreeInv, NEW w \in Workers
  PROVE  /\ IsFiniteSet(tx[w].plan) /\ Cardinality(tx[w].plan) \in Nat
         /\ tx[w].plan # {} => Cardinality(tx[w].plan) > 0
<1>1. tx[w].plan \subseteq Assets
  BY SeenFacts
<1>2. IsFiniteSet(tx[w].plan)
  BY <1>1, FS_Subset, CalendarAssumption
<1>3. Cardinality(tx[w].plan) \in Nat
  BY <1>2, FS_CardinalityType
<1>4. tx[w].plan # {} => Cardinality(tx[w].plan) # 0
  BY <1>2, FS_EmptySet
<1> QED BY <1>2, <1>3, <1>4

LEMMA BalanceStep ==
  ASSUME AgreeInv, BalanceInv, NEW w \in Workers, NEW t \in Tx,
         tx' = [tx EXCEPT ![w] = t],
         Typed(posted', revalued', unlocked', balances', served'),
         charged' \in Counts, Grows(posted, posted'), Grows(charged, charged'),
         TxFits(t, posted', charged', unlocked'),
         Touchable(posted', charged', revalued', unlocked'),
         NeverAhead(balances', posted', charged'),
         \A v \in Workers \ {w} : tx[v].pc \in Marking =>
           tx[v].marked <= unlocked'[Month(v)],
         \A v \in Workers \ {w} : Apart(tx[v], t)
  PROVE  BalanceInv'
<1>1. \A v \in Workers : tx'[v] = IF v = w THEN t ELSE tx[v]
  BY DEF BalanceInv
<1>2. tx' \in [Workers -> Tx]
  BY DEF BalanceInv
<1>3. charged \in Counts /\ posted \in Counts /\ posted' \in Counts
  BY DEF AgreeInv, DataInv, BalanceInv, Typed, Counts
<1>4. ASSUME NEW v \in Workers \ {w}
      PROVE  TxFits(tx[v], posted', charged', unlocked')
  <2>1. TxFits(tx[v], posted, charged, unlocked)
    BY DEF BalanceInv
  <2>2. ASSUME tx[v].pc \in Saving
        PROVE  tx[v].total <= Total(posted', charged', Month(v)) + Cardinality(tx[v].plan)
    <3>1. Month(v) \in 0..NMonths
      BY <2>2, ClosingFacts DEF Saving, HeldPcs
    <3>2. Total(posted, charged, Month(v)) <= Total(posted', charged', Month(v))
      BY <1>3, <3>1, TotalGrows DEF Grows
    <3>3. /\ Total(posted, charged, Month(v)) \in Nat
          /\ Total(posted', charged', Month(v)) \in Nat
      BY <1>3, <3>1, TotalType
    <3>4. tx[v].total <= Total(posted, charged, Month(v)) + Cardinality(tx[v].plan)
      BY <2>1, <2>2 DEF TxFits, SumFits, Month
    <3>5. tx[v].total \in Nat /\ Cardinality(tx[v].plan) \in Nat
      BY PlanCount DEF BalanceInv, Tx
    <3> QED BY <3>2, <3>3, <3>4, <3>5
  <2>3. SumFits(tx[v], posted', charged')
    BY <2>2 DEF SumFits, Month
  <2>4. MarksFit(tx[v], unlocked')
    BY <2>1 DEF TxFits, MarksFit, Month
  <2> QED BY <2>1, <2>3, <2>4 DEF TxFits
<1>5. \A v \in Workers : TxFits(tx'[v], posted', charged', unlocked')
  BY <1>1, <1>4
<1>6. ASSUME NEW u \in Workers, NEW v \in Workers, u # v
      PROVE  Apart(tx'[u], tx'[v])
  <2>1. CASE u # w /\ v # w
    BY <1>1, <1>6, <2>1 DEF BalanceInv
  <2>2. CASE v = w
    BY <1>1, <1>6, <2>2
  <2>3. CASE u = w
    <3>1. Apart(tx[v], t)
      BY <1>6, <2>3
    <3>2. Apart(t, tx[v])
      BY <3>1 DEF Apart
    <3> QED BY <1>1, <1>6, <2>3, <3>2
  <2> QED BY <2>1, <2>2, <2>3
<1> QED BY <1>2, <1>5, <1>6 DEF BalanceInv

(* A step that leaves the entries, the transactions and the snapshots.       *)
LEMMA CalmStep ==
  ASSUME AgreeInv, BalanceInv, NEW w \in Workers, NEW t \in Tx,
         tx' = [tx EXCEPT ![w] = t], served' \in Nat,
         UNCHANGED <<posted, charged, revalued, unlocked, balances>>,
         TxFits(t, posted, charged, unlocked),
         \A v \in Workers \ {w} : Apart(tx[v], t)
  PROVE  BalanceInv'
<1>1. charged \in Counts /\ posted \in Counts
  BY DEF AgreeInv, DataInv, BalanceInv, Typed, Counts
<1>2. Grows(posted, posted') /\ Grows(charged, charged') /\ charged' \in Counts
  BY <1>1, GrowsSame
<1>3. Typed(posted', revalued', unlocked', balances', served')
  BY DEF BalanceInv, Typed
<1>4. Touchable(posted', charged', revalued', unlocked')
  BY DEF BalanceInv
<1>5. NeverAhead(balances', posted', charged')
  BY DEF BalanceInv
<1>6. TxFits(t, posted', charged', unlocked')
  OBVIOUS
<1>7. \A v \in Workers \ {w} : tx[v].pc \in Marking =>
        tx[v].marked <= unlocked'[Month(v)]
  BY DEF BalanceInv, TxFits, MarksFit, Month
<1> QED BY <1>2, <1>3, <1>4, <1>5, <1>6, <1>7, BalanceStep

LEMMA CalmFinish ==
  ASSUME AgreeInv, BalanceInv, NEW w \in Workers, Finish(w),
         UNCHANGED <<posted, charged, revalued, unlocked, balances, served>>
  PROVE  BalanceInv'
<1>1. \A v \in Workers \ {w} : Apart(tx[v], Idle)
  BY IdleFits DEF Apart
<1>2. served' \in Nat
  BY DEF BalanceInv, Typed
<1>3. TxFits(Idle, posted, charged, unlocked)
  BY IdleFits
<1> QED BY <1>1, <1>2, <1>3, IdleFits, CalmStep DEF Finish

(* A worker moves on with what it has; it may have read the settings.        *)
LEMMA CalmMove ==
  ASSUME AgreeInv, BalanceInv, NEW w \in Workers, NEW pc \in Pcs,
         Goto(w, pc) \/ ReadThen(w, pc),
         UNCHANGED <<posted, charged, revalued, unlocked, balances, served>>,
         pc \in Saving => tx[w].pc \in Saving,
         pc # "sum",
         pc \in {"check", "charge"} => tx[w].pc \in {"check", "charge"}
                                       \/ tx[w].req.op \notin {"DEPRECIATE", "CLOSE"}
  PROVE  BalanceInv'
<1>0. PICK s : Moves(w, pc, s)
  BY MoveFacts
<1>1. /\ s \in Settings
      /\ tx' = [tx EXCEPT ![w] = [tx[w] EXCEPT !.pc = pc, !.seen = s]]
  BY <1>0 DEF Moves
<1> DEFINE t == [tx[w] EXCEPT !.pc = pc, !.seen = s]
<1>2. /\ t \in Tx /\ t.pc = pc /\ t.req = tx[w].req /\ t.plan = tx[w].plan
      /\ t.marked = tx[w].marked /\ t.touched = tx[w].touched /\ t.total = tx[w].total
  BY <1>1 DEF BalanceInv, Tx
<1> HIDE DEF t
<1>3. TxFits(tx[w], posted, charged, unlocked)
  BY DEF BalanceInv
<1>4. pc \in Marking => tx[w].pc \in Marking
  BY DEF Marking, Saving
<1>5. SumFits(t, posted, charged)
  BY <1>2, <1>3 DEF TxFits, SumFits
<1>6. MarksFit(t, unlocked)
  BY <1>2, <1>3, <1>4 DEF TxFits, MarksFit
<1>7. PlanFits(t)
  BY <1>2, <1>3 DEF TxFits, PlanFits
<1>8. ASSUME NEW v \in Workers \ {w} PROVE Apart(tx[v], t)
  <2>1. Apart(tx[v], tx[w])
    BY DEF BalanceInv
  <2> QED BY <1>2, <1>4, <2>1 DEF Apart
<1>9. tx' = [tx EXCEPT ![w] = t] /\ served' \in Nat
  BY <1>1 DEF t, BalanceInv, Typed
<1> QED BY <1>2, <1>5, <1>6, <1>7, <1>8, <1>9, CalmStep DEF TxFits

(* A worker ends, or the cron goes on to persist, with entries posted.       *)
LEMMA PostingStep ==
  ASSUME AgreeInv, BalanceInv, NEW w \in Workers, NEW t \in Tx,
         tx' = [tx EXCEPT ![w] = t], t.pc \notin Marking, PlanFits(t),
         NEW m \in Months,
         posted' \in Counts, charged' \in Counts, revalued' \in Counts,
         Grows(posted, posted'), Grows(charged, charged'), Grows(revalued, revalued'),
         unlocked' = [unlocked EXCEPT ![m] = @ + 1],
         posted'[m] + charged'[m] + revalued'[m] > 0,
         UNCHANGED <<balances, served>>
  PROVE  BalanceInv'
<1>1. /\ posted \in Counts /\ charged \in Counts /\ revalued \in Counts
      /\ unlocked \in Counts /\ balances \in Counts /\ served \in Nat
  BY DEF AgreeInv, DataInv, BalanceInv, Typed, Counts
<1>2. unlocked[m] \in Nat /\ unlocked' = [unlocked EXCEPT ![m] = unlocked[m] + 1]
  BY <1>1 DEF Counts
<1>3. /\ unlocked' \in Counts
      /\ \A k \in Months : unlocked'[k] = IF k = m THEN unlocked[k] + 1 ELSE unlocked[k]
  BY <1>1, <1>2 DEF Counts
<1>4. Typed(posted', revalued', unlocked', balances', served')
  BY <1>1, <1>3 DEF Typed
<1>5. ASSUME NEW k \in Months, unlocked'[k] > 0
      PROVE  posted'[k] + charged'[k] + revalued'[k] > 0
  <2>1. CASE k = m
    BY <2>1
  <2>2. CASE k # m
    <3>1. posted[k] + charged[k] + revalued[k] > 0
      BY <1>3, <1>5, <2>2 DEF BalanceInv, Touchable
    <3>2. /\ posted[k] \in Nat /\ charged[k] \in Nat /\ revalued[k] \in Nat
          /\ posted'[k] \in Nat /\ charged'[k] \in Nat /\ revalued'[k] \in Nat
      BY <1>1 DEF Counts
    <3>3. posted[k] <= posted'[k] /\ charged[k] <= charged'[k] /\ revalued[k] <= revalued'[k]
      BY DEF Grows
    <3> QED BY <3>1, <3>2, <3>3
  <2> QED BY <2>1, <2>2
<1>6. Touchable(posted', charged', revalued', unlocked')
  BY <1>5 DEF Touchable
<1>7. ASSUME NEW k \in Months PROVE balances'[k] <= Total(posted', charged', k)
  <2>1. k \in 0..NMonths
    BY CalendarAssumption DEF Months
  <2>2. Total(posted, charged, k) <= Total(posted', charged', k)
    BY <1>1, <2>1, TotalGrows DEF Grows
  <2>3. Total(posted, charged, k) \in Nat /\ Total(posted', charged', k) \in Nat
    BY <1>1, <2>1, TotalType
  <2>4. balances[k] <= Total(posted, charged, k) /\ balances[k] \in Nat
    BY <1>1 DEF BalanceInv, NeverAhead, Counts
  <2> QED BY <2>2, <2>3, <2>4
<1>8. NeverAhead(balances', posted', charged')
  BY <1>7 DEF NeverAhead
<1>9. TxFits(t, posted', charged', unlocked')
  BY DEF TxFits, SumFits, MarksFit, Marking, Saving
<1>10. ASSUME NEW v \in Workers \ {w}, tx[v].pc \in Marking
       PROVE  tx[v].marked <= unlocked'[Month(v)]
  <2>1. Month(v) \in Months
    BY <1>10, ClosingFacts DEF Marking, HeldPcs
  <2>2. tx[v].marked <= unlocked[Month(v)] /\ tx[v].marked \in Nat
    BY <1>10 DEF BalanceInv, TxFits, MarksFit, Month, Tx
  <2>3. unlocked[Month(v)] \in Nat
    BY <1>1, <2>1 DEF Counts
  <2> QED BY <1>3, <2>1, <2>2, <2>3
<1>11. \A v \in Workers \ {w} : Apart(tx[v], t)
  BY DEF Apart
<1> QED BY <1>4, <1>6, <1>8, <1>9, <1>10, <1>11, BalanceStep

(* One more of what a month has, or as many as a plan charges.               *)
LEMMA Added ==
  ASSUME NEW f \in Counts, NEW m \in Months, NEW n \in Nat,
         NEW g, g = [f EXCEPT ![m] = @ + n]
  PROVE  g \in Counts /\ Grows(f, g) /\ g[m] >= n
<1>1. f[m] \in Nat /\ g[m] = f[m] + n
  BY DEF Counts
<1>2. g \in Counts
  BY <1>1 DEF Counts
<1>3. ASSUME NEW k \in Months PROVE f[k] <= g[k]
  <2>1. f[k] \in Nat
    BY DEF Counts
  <2>2. CASE k = m
    BY <1>1, <2>2
  <2>3. CASE k # m
    BY <2>1, <2>3 DEF Counts
  <2> QED BY <2>2, <2>3
<1> QED BY <1>1, <1>2, <1>3 DEF Grows

LEMMA BookedCounts ==
  ASSUME AgreeInv, NEW w \in Workers, BookCharges(w), Month(w) \in Months
  PROVE  /\ charged \in Counts /\ charged' \in Counts /\ Grows(charged, charged')
         /\ charged'[Month(w)] = charged[Month(w)] + Cardinality(tx[w].plan)
         /\ charged'[Month(w)] >= Cardinality(tx[w].plan)
         /\ \A k \in Months \ {Month(w)} : charged'[k] = charged[k]
<1>1. charged \in Counts
  BY DEF AgreeInv, DataInv, Counts
<1>2. charged' = [charged EXCEPT ![Month(w)] = @ + Cardinality(tx[w].plan)]
  BY DEF BookCharges
<1>3. Cardinality(tx[w].plan) \in Nat
  BY PlanCount
<1>4. /\ charged'[Month(w)] = charged[Month(w)] + Cardinality(tx[w].plan)
      /\ \A k \in Months \ {Month(w)} : charged'[k] = charged[k]
  BY <1>1, <1>2 DEF Counts
<1> QED BY <1>1, <1>2, <1>3, <1>4, Added

LEMMA ArriveBalance ==
  ASSUME AgreeInv, BalanceInv, NEW w \in Workers, NEW r \in Requests, Arrive(w, r)
  PROVE  BalanceInv'
<1> DEFINE t == [tx[w] EXCEPT !.pc = FirstPc(r.op), !.req = r]
<1>1. /\ r \in Request
      /\ r.op = "POST" \/ FirstPc(r.op) \notin {"check", "charge"}
      /\ FirstPc(r.op) \in Pcs \ Marking
  BY CallsAssumption DEF Requests, Request, FirstPc, OpNames, Pcs, Marking
<1>2. t \in Tx /\ t.pc = FirstPc(r.op) /\ t.req = r
  BY <1>1 DEF BalanceInv, Tx
<1> HIDE DEF t
<1>3. TxFits(t, posted, charged, unlocked)
  BY <1>1, <1>2 DEF TxFits, SumFits, MarksFit, PlanFits, Marking, Saving
<1>4. \A v \in Workers \ {w} : Apart(tx[v], t)
  BY <1>1, <1>2 DEF Apart
<1>5. tx' = [tx EXCEPT ![w] = t]
  BY DEF Arrive, t
<1>6. served' \in Nat
  BY DEF Arrive, BalanceInv, Typed
<1>7. UNCHANGED <<posted, charged, revalued, unlocked, balances>>
  BY DEF Arrive, ledger, assetVars
<1> QED BY <1>2, <1>3, <1>4, <1>5, <1>6, <1>7, CalmStep

LEMMA ProceedCalm ==
  ASSUME Proceed
  PROVE  UNCHANGED <<posted, charged, revalued, unlocked, balances, served>>
BY DEF Proceed, ledger, assetVars

LEMMA CheckPeriodBalance ==
  ASSUME AgreeInv, BalanceInv, NEW w \in Workers, CheckPeriod(w)
  PROVE  BalanceInv'
<1>1. Proceed /\ tx[w].pc = "check"
  BY DEF CheckPeriod, At
<1>2. CASE Finish(w)
  BY <1>1, <1>2, ProceedCalm, CalmFinish
<1>3. CASE Goto(w, "charge")
  BY <1>1, <1>3, ProceedCalm, CalmMove DEF Pcs, Saving
<1>4. CASE Goto(w, "insert")
  BY <1>1, <1>4, ProceedCalm, CalmMove DEF Pcs, Saving
<1> QED BY <1>2, <1>3, <1>4 DEF CheckPeriod

(* The request of a step that posts or charges has a month.                  *)
LEMMA PostingFacts ==
  ASSUME AgreeInv, NEW w \in Workers,
         tx[w].req.op \in {"POST", "DEPRECIATE", "CLOSE", "REVALUE"}
  PROVE  Month(w) \in Months
BY DEF AgreeInv, TxInv, TxOK, Month

LEMMA InsertJournalBalance ==
  ASSUME AgreeInv, BalanceInv, NEW w \in Workers, InsertJournal(w)
  PROVE  BalanceInv'
<1> DEFINE m == Month(w)
<1>1. m \in Months
  BY PostingFacts DEF InsertJournal, At
<1>2. posted \in Counts /\ charged \in Counts /\ revalued \in Counts
  BY DEF AgreeInv, DataInv, BalanceInv, Typed, Counts
<1>3. /\ posted' = [posted EXCEPT ![m] = @ + 1]
      /\ unlocked' = [unlocked EXCEPT ![m] = @ + 1]
      /\ UNCHANGED <<charged, revalued, balances, served>>
      /\ tx' = [tx EXCEPT ![w] = Idle]
  BY DEF InsertJournal, Finish, assetVars
<1> HIDE DEF m
<1>4. posted' \in Counts /\ Grows(posted, posted') /\ posted'[m] >= 1
  BY <1>1, <1>2, <1>3, Added
<1>5. Grows(charged, charged') /\ Grows(revalued, revalued')
  BY <1>2, <1>3, GrowsSame
<1>6. posted'[m] + charged'[m] + revalued'[m] > 0
  <2>1. posted'[m] \in Nat /\ charged'[m] \in Nat /\ revalued'[m] \in Nat
    BY <1>1, <1>2, <1>3, <1>4 DEF Counts
  <2> QED BY <1>4, <2>1
<1>7. Idle \in Tx /\ Idle.pc \notin Marking /\ PlanFits(Idle)
  BY IdleFits DEF TxFits
<1> QED BY <1>1, <1>2, <1>3, <1>4, <1>5, <1>6, <1>7, PostingStep

LEMMA PostRevaluationBalance ==
  ASSUME AgreeInv, BalanceInv, NEW w \in Workers, PostRevaluation(w)
  PROVE  BalanceInv'
<1> DEFINE m == Month(w)
           t == [tx[w] EXCEPT !.pc = "persist"]
<1>1. m \in Months
  BY PostingFacts DEF PostRevaluation, At
<1>2. posted \in Counts /\ charged \in Counts /\ revalued \in Counts
  BY DEF AgreeInv, DataInv, BalanceInv, Typed, Counts
<1>3. /\ revalued' = [revalued EXCEPT ![m] = @ + 1]
      /\ unlocked' = [unlocked EXCEPT ![m] = @ + 1]
      /\ UNCHANGED <<charged, posted, balances, served>>
      /\ tx' = [tx EXCEPT ![w] = t]
  BY DEF PostRevaluation, Goto, assetVars
<1>4. t \in Tx /\ t.pc = "persist"
  BY DEF BalanceInv, Tx, Pcs
<1> HIDE DEF m, t
<1>5. revalued' \in Counts /\ Grows(revalued, revalued') /\ revalued'[m] >= 1
  BY <1>1, <1>2, <1>3, Added
<1>6. Grows(charged, charged') /\ Grows(posted, posted')
  BY <1>2, <1>3, GrowsSame
<1>7. posted'[m] + charged'[m] + revalued'[m] > 0
  <2>1. posted'[m] \in Nat /\ charged'[m] \in Nat /\ revalued'[m] \in Nat
    BY <1>1, <1>2, <1>3, <1>5 DEF Counts
  <2> QED BY <1>5, <2>1
<1>8. t.pc \notin Marking /\ PlanFits(t)
  BY <1>4 DEF PlanFits, Marking
<1> QED BY <1>1, <1>2, <1>3, <1>4, <1>5, <1>6, <1>7, <1>8, PostingStep

LEMMA ReadAssetsBalance ==
  ASSUME AgreeInv, BalanceInv, NEW w \in Workers, ReadAssets(w)
  PROVE  BalanceInv'
<1> DEFINE t == [tx[w] EXCEPT !.pc = "rows", !.read = booked]
<1>1. t \in Tx /\ t.pc = "rows"
  BY DEF BalanceInv, Tx, Pcs, AgreeInv, DataInv
<1>2. tx' = [tx EXCEPT ![w] = t] /\ Proceed
  BY DEF ReadAssets
<1> HIDE DEF t
<1>3. TxFits(t, posted, charged, unlocked)
  BY <1>1 DEF TxFits, SumFits, MarksFit, PlanFits, Marking, Saving
<1>4. \A v \in Workers \ {w} : Apart(tx[v], t)
  BY <1>1 DEF Apart, Marking
<1>5. served' \in Nat
  BY <1>2, ProceedCalm DEF BalanceInv, Typed
<1> QED BY <1>1, <1>2, <1>3, <1>4, <1>5, ProceedCalm, CalmStep

LEMMA ReadMonthRowsBalance ==
  ASSUME AgreeInv, BalanceInv, NEW w \in Workers, ReadMonthRows(w)
  PROVE  BalanceInv'
<1> DEFINE due == Due(tx[w].read, Month(w))
           pc == IF due = {} THEN "mark" ELSE "check"
           t == [tx[w] EXCEPT !.pc = pc, !.plan = due]
<1>1. Proceed
  BY DEF ReadMonthRows
<1>2. CASE Finish(w)
  BY <1>1, <1>2, ProceedCalm, CalmFinish
<1>3. CASE tx' = [tx EXCEPT ![w] = t]
  <2>1. due \subseteq Assets /\ pc \in Pcs
    BY DEF Due, Pcs
  <2>2. pc \in {"mark", "check"} /\ (pc = "check" => due # {})
    OBVIOUS
  <2> HIDE DEF due, pc
  <2>3. t \in Tx /\ t.pc = pc /\ t.plan = due
    BY <2>1 DEF BalanceInv, Tx
  <2>4. served' \in Nat
    BY <1>1, ProceedCalm DEF BalanceInv, Typed
  <2> HIDE DEF t
  <2>5. TxFits(t, posted, charged, unlocked)
    BY <2>2, <2>3 DEF TxFits, SumFits, MarksFit, PlanFits, Marking, Saving
  <2>6. \A v \in Workers \ {w} : Apart(tx[v], t)
    BY <2>2, <2>3 DEF Apart, Marking
  <2> QED BY <1>1, <1>3, <2>3, <2>4, <2>5, <2>6, ProceedCalm, CalmStep
<1> QED BY <1>2, <1>3 DEF ReadMonthRows

LEMMA ChargeAssetsBalance ==
  ASSUME AgreeInv, BalanceInv, NEW w \in Workers, ChargeAssets(w)
  PROVE  BalanceInv'
<1> DEFINE m == Month(w)
<1>1. tx[w].pc = "charge" /\ tx[w].req.op \in {"DEPRECIATE", "CLOSE"}
  BY DEF ChargeAssets, At
<1>2. m \in Months
  BY <1>1, PostingFacts
<1>3. CASE Reject(w)
  BY <1>3, ProceedCalm, CalmFinish DEF Reject
<1>4. CASE Goto(w, "mark") /\ Proceed
  BY <1>1, <1>4, ProceedCalm, CalmMove DEF Pcs, Saving
<1>5. CASE /\ BookCharges(w)
           /\ unlocked' = [unlocked EXCEPT ![m] = @ + 1]
           /\ Finish(w)
           /\ UNCHANGED <<settings, posted, revalued, balances, served>>
  <2>1. posted \in Counts /\ revalued \in Counts
    BY DEF BalanceInv, Typed
  <2>2. /\ charged' \in Counts /\ Grows(charged, charged')
        /\ charged'[m] >= Cardinality(tx[w].plan)
    BY <1>2, <1>5, BookedCounts
  <2>3. Grows(posted, posted') /\ Grows(revalued, revalued')
    BY <1>5, <2>1, GrowsSame
  <2>4. tx[w].plan # {}
    BY <1>1 DEF BalanceInv, TxFits, PlanFits
  <2>5. Cardinality(tx[w].plan) > 0 /\ Cardinality(tx[w].plan) \in Nat
    BY <2>4, PlanCount
  <2> HIDE DEF m
  <2>6. posted'[m] + charged'[m] + revalued'[m] > 0
    <3>1. posted'[m] \in Nat /\ charged'[m] \in Nat /\ revalued'[m] \in Nat
      BY <1>2, <1>5, <2>1, <2>2 DEF Counts
    <3> QED BY <2>2, <2>5, <3>1
  <2>7. Idle \in Tx /\ Idle.pc \notin Marking /\ PlanFits(Idle)
    BY IdleFits DEF TxFits
  <2>8. tx' = [tx EXCEPT ![w] = Idle]
    BY <1>5 DEF Finish
  <2> QED BY <1>2, <1>5, <2>1, <2>2, <2>3, <2>6, <2>7, <2>8, PostingStep
<1> QED BY <1>3, <1>4, <1>5 DEF ChargeAssets

LEMMA MarkTransactionsBalance ==
  ASSUME AgreeInv, BalanceInv, NEW w \in Workers, MarkTransactions(w)
  PROVE  BalanceInv'
<1> DEFINE m == Month(w)
           t == [tx[w] EXCEPT !.pc = "sum", !.marked = unlocked[m],
                              !.touched = posted[m] + charged[m] + revalued[m] > 0]
<1>1. tx[w].pc = "mark" /\ Proceed /\ tx' = [tx EXCEPT ![w] = t]
  BY DEF MarkTransactions, At
<1>2. m \in Months
  BY <1>1, ClosingFacts DEF HeldPcs
<1>3. unlocked[m] \in Nat
  BY <1>2 DEF BalanceInv, Typed, Counts
<1>4. (posted[m] + charged[m] + revalued[m] > 0) \in BOOLEAN
  <2>1. posted[m] \in Nat /\ charged[m] \in Nat /\ revalued[m] \in Nat
    BY <1>2 DEF AgreeInv, DataInv, BalanceInv, Typed, Counts
  <2> QED BY <2>1
<1>5. /\ t \in Tx /\ t.pc = "sum" /\ t.marked = unlocked[m] /\ t.req = tx[w].req
      /\ t.touched = (posted[m] + charged[m] + revalued[m] > 0)
  BY <1>3, <1>4 DEF BalanceInv, Tx, Pcs
<1>6. unlocked[m] > 0 => posted[m] + charged[m] + revalued[m] > 0
  BY <1>2 DEF BalanceInv, Touchable
<1>7. t.req.month = m
  BY <1>5 DEF Month
<1> HIDE DEF t, m
<1>8. TxFits(t, posted, charged, unlocked)
  <2>1. unlocked[m] > 0 => t.touched
    BY <1>5, <1>6, Zenon
  <2>2. MarksFit(t, unlocked)
    BY <1>3, <1>5, <1>7, <2>1 DEF MarksFit
  <2> QED BY <1>5, <2>2 DEF TxFits, SumFits, PlanFits, Saving
<1>9. ASSUME NEW v \in Workers \ {w} PROVE Apart(tx[v], t)
  <2>1. ~(tx[v].touched /\ Month(v) = m)
    BY DEF MarkTransactions, m
  <2>2. tx[v].pc \in Marking /\ tx[v].req.month = m => tx[v].marked = 0
    <3>1. SUFFICES ASSUME tx[v].pc \in Marking, tx[v].req.month = m
                   PROVE  tx[v].marked = 0
      OBVIOUS
    <3>2. ~tx[v].touched
      BY <2>1, <3>1 DEF Month
    <3>3. ~(tx[v].marked > 0)
      BY <3>1, <3>2 DEF BalanceInv, TxFits, MarksFit
    <3>4. tx[v].marked \in Nat
      BY DEF BalanceInv, Tx
    <3> QED BY <3>3, <3>4
  <2> QED BY <1>7, <2>2 DEF Apart
<1>10. served' \in Nat
  BY <1>1, ProceedCalm DEF BalanceInv, Typed
<1> QED BY <1>1, <1>5, <1>8, <1>9, <1>10, ProceedCalm, CalmStep

LEMMA HistoryIsTotal ==
  /\ \A m : History(m) = Total(posted, charged, m)
  /\ \A m : History(m)' = Total(posted', charged', m')
BY DEF History, Total

LEMMA SumEntriesBalance ==
  ASSUME AgreeInv, BalanceInv, NEW w \in Workers, SumEntries(w)
  PROVE  BalanceInv'
<1> DEFINE m == Month(w)
           n == History(m) + Cardinality(tx[w].plan)
           t == [tx[w] EXCEPT !.pc = "save", !.total = n]
<1>1. tx[w].pc = "sum" /\ Proceed /\ tx' = [tx EXCEPT ![w] = t]
  BY DEF SumEntries, At
<1>2. m \in 0..NMonths
  BY <1>1, ClosingFacts DEF HeldPcs
<1>3. n \in Nat /\ n = Total(posted, charged, m) + Cardinality(tx[w].plan)
  <2>1. History(m) = Total(posted, charged, m)
    BY HistoryIsTotal
  <2>2. Total(posted, charged, m) \in Nat
    BY <1>2, TotalType DEF AgreeInv, DataInv, BalanceInv, Typed, Counts
  <2>3. Cardinality(tx[w].plan) \in Nat
    BY PlanCount
  <2> QED BY <2>1, <2>2, <2>3
<1> HIDE DEF n
<1>4. /\ t \in Tx /\ t.pc = "save" /\ t.total = n /\ t.req = tx[w].req
      /\ t.plan = tx[w].plan /\ t.marked = tx[w].marked /\ t.touched = tx[w].touched
  BY <1>3 DEF BalanceInv, Tx, Pcs
<1>5. TxFits(tx[w], posted, charged, unlocked)
  BY DEF BalanceInv
<1> HIDE DEF t, m
<1>6. t.req.month = m
  BY <1>4 DEF Month, m
<1>7. SumFits(t, posted, charged)
  BY <1>3, <1>4, <1>6 DEF SumFits
<1>8. MarksFit(t, unlocked) /\ PlanFits(t)
  BY <1>1, <1>4, <1>5 DEF TxFits, MarksFit, PlanFits, Marking
<1>9. ASSUME NEW v \in Workers \ {w} PROVE Apart(tx[v], t)
  <2>1. Apart(tx[v], tx[w])
    BY DEF BalanceInv
  <2> QED BY <1>1, <1>4, <2>1 DEF Apart, Marking
<1>10. served' \in Nat
  BY <1>1, ProceedCalm DEF BalanceInv, Typed
<1> QED BY <1>1, <1>4, <1>7, <1>8, <1>9, <1>10, ProceedCalm, CalmStep DEF TxFits

(* The close commits: its entries come with its snapshot, and it locks the   *)
(* transactions it found unlocked.                                           *)
LEMMA CommitCloseBalance ==
  ASSUME AgreeInv, BalanceInv, NEW w \in Workers, CommitClose(w)
  PROVE  BalanceInv'
<1> DEFINE m == Month(w)
           n == Cardinality(tx[w].plan)
<1>1. /\ tx[w].pc = "close" /\ BookCharges(w) /\ tx' = [tx EXCEPT ![w] = Idle]
      /\ unlocked' = [unlocked EXCEPT ![m] = @ - tx[w].marked]
      /\ balances' = [balances EXCEPT ![m] = IF tx[w].total > 0
                                             THEN tx[w].total ELSE @]
      /\ UNCHANGED <<posted, revalued, served>>
  BY DEF CommitClose, At, Finish
<1>2. m \in Months /\ m \in 0..NMonths
  BY <1>1, ClosingFacts DEF HeldPcs
<1>3. /\ posted \in Counts /\ revalued \in Counts /\ unlocked \in Counts
      /\ balances \in Counts /\ served \in Nat
  BY DEF BalanceInv, Typed
<1>4. /\ charged'[m] = charged[m] + n
      /\ \A k \in Months \ {m} : charged'[k] = charged[k]
      /\ charged \in Counts /\ charged' \in Counts /\ Grows(charged, charged')
  BY <1>1, <1>2, BookedCounts
<1>5. n \in Nat
  BY PlanCount
<1>6. TxFits(tx[w], posted, charged, unlocked)
  BY DEF BalanceInv
<1>7. tx[w].marked \in Nat /\ tx[w].total \in Nat
  BY DEF BalanceInv, Tx
<1>8. tx[w].marked <= unlocked[m] /\ tx[w].total <= Total(posted, charged, m) + n
  BY <1>1, <1>6 DEF TxFits, MarksFit, SumFits, Marking, Saving, Month
<1> HIDE DEF m, n
<1>9. /\ unlocked' \in Counts
      /\ \A k \in Months : unlocked'[k] = IF k = m THEN unlocked[k] - tx[w].marked
                                          ELSE unlocked[k]
  <2>1. unlocked[m] \in Nat /\ unlocked[m] - tx[w].marked \in Nat
    BY <1>2, <1>3, <1>7, <1>8 DEF Counts
  <2> QED BY <1>1, <1>3, <2>1 DEF Counts
<1>10. /\ balances' \in Counts
       /\ \A k \in Months \ {m} : balances'[k] = balances[k]
       /\ balances'[m] = tx[w].total \/ balances'[m] = balances[m]
  <2>1. balances[m] \in Nat
    BY <1>2, <1>3 DEF Counts
  <2>2. CASE tx[w].total > 0
    <3>1. balances' = [balances EXCEPT ![m] = tx[w].total]
      BY <1>1, <2>2
    <3> QED BY <1>2, <1>3, <1>7, <3>1 DEF Counts
  <2>3. CASE ~(tx[w].total > 0)
    <3>1. balances' = [balances EXCEPT ![m] = balances[m]]
      BY <1>1, <2>3
    <3> QED BY <1>2, <1>3, <2>1, <3>1 DEF Counts
  <2> QED BY <2>2, <2>3
<1>11. Grows(posted, posted')
  BY <1>1, <1>3, GrowsSame
<1>12. ASSUME NEW k \in Months, unlocked'[k] > 0
       PROVE  posted'[k] + charged'[k] + revalued'[k] > 0
  <2>1. unlocked[k] \in Nat
    BY <1>3 DEF Counts
  <2>2. unlocked[k] > 0
    BY <1>7, <1>9, <1>12, <2>1
  <2>3. posted[k] + charged[k] + revalued[k] > 0
    BY <2>2 DEF BalanceInv, Touchable
  <2>4. charged[k] \in Nat /\ charged'[k] \in Nat /\ posted[k] \in Nat /\ revalued[k] \in Nat
    BY <1>3, <1>4 DEF Counts
  <2>5. charged[k] <= charged'[k]
    BY <1>4 DEF Grows
  <2> QED BY <1>1, <2>3, <2>4, <2>5
<1>13. Touchable(posted', charged', revalued', unlocked')
  BY <1>12 DEF Touchable
<1>14. ASSUME NEW k \in Months PROVE balances'[k] <= Total(posted', charged', k)
  <2>1. k \in 0..NMonths
    BY CalendarAssumption DEF Months
  <2>2. Total(posted, charged, k) <= Total(posted, charged', k)
    BY <1>1, <1>3, <1>4, <1>11, <2>1, TotalGrows DEF Grows
  <2>3. Total(posted, charged, k) \in Nat /\ Total(posted, charged', k) \in Nat
    BY <1>3, <1>4, <2>1, TotalType
  <2>4. balances[k] <= Total(posted, charged, k) /\ balances[k] \in Nat
    BY <1>3 DEF BalanceInv, NeverAhead, Counts
  <2>5. CASE balances'[k] = balances[k]
    BY <1>1, <2>2, <2>3, <2>4, <2>5
  <2>6. CASE k = m /\ balances'[k] = tx[w].total
    <3>1. Total(posted, charged', m) = Total(posted, charged, m) + n
      BY <1>2, <1>3, <1>4, <1>5, TotalCharged
    <3> QED BY <1>1, <1>8, <2>6, <3>1
  <2> QED BY <1>10, <2>5, <2>6
<1>15. NeverAhead(balances', posted', charged')
  BY <1>14 DEF NeverAhead
<1>16. ASSUME NEW v \in Workers \ {w}, tx[v].pc \in Marking
       PROVE  tx[v].marked <= unlocked'[Month(v)]
  <2>1. Month(v) \in Months
    BY <1>16, ClosingFacts DEF Marking, HeldPcs
  <2>2. tx[v].marked <= unlocked[Month(v)] /\ tx[v].marked \in Nat
    BY <1>16 DEF BalanceInv, TxFits, MarksFit, Month, Tx
  <2>3. CASE Month(v) # m
    BY <1>9, <2>1, <2>2, <2>3
  <2>4. CASE Month(v) = m
    <3>1. tx[v].marked = 0 \/ tx[w].marked = 0
      <4>1. Apart(tx[v], tx[w])
        BY DEF BalanceInv
      <4> QED BY <1>1, <1>16, <2>4, <4>1 DEF Apart, Marking, Month, m
    <3>2. unlocked[m] \in Nat
      BY <1>2, <1>3 DEF Counts
    <3> QED BY <1>2, <1>7, <1>8, <1>9, <2>2, <2>4, <3>1, <3>2
  <2> QED BY <2>3, <2>4
<1>17. /\ Idle \in Tx /\ TxFits(Idle, posted', charged', unlocked')
       /\ \A v \in Workers \ {w} : Apart(tx[v], Idle)
  BY IdleFits DEF Apart
<1>18. Typed(posted', revalued', unlocked', balances', served')
  BY <1>1, <1>3, <1>9, <1>10 DEF Typed
<1> QED BY <1>1, <1>4, <1>11, <1>13, <1>15, <1>16, <1>17, <1>18, BalanceStep

LEMMA OtherBalance ==
  ASSUME AgreeInv, BalanceInv, NEW w \in Workers,
         \/ SaveBalances(w) \/ ReadSettings(w) \/ ReadForUpdate(w)
         \/ WriteSettings(w) \/ ReadForRevaluation(w) \/ PersistRevaluation(w)
         \/ Abort(w)
  PROVE  BalanceInv'
<1>1. CASE SaveBalances(w)
  BY <1>1, ProceedCalm, CalmMove DEF SaveBalances, At, Pcs, Saving
<1>2. CASE ReadSettings(w)
  BY <1>2, ProceedCalm, CalmMove DEF ReadSettings, At, Pcs, Saving
<1>3. CASE ReadForUpdate(w)
  BY <1>3, ProceedCalm, CalmMove DEF ReadForUpdate, At, Pcs, Saving
<1>4. CASE ReadForRevaluation(w)
  <2>1. Proceed /\ tx[w].req.op = "REVALUE"
    BY <1>4 DEF ReadForRevaluation, At
  <2>2. CASE Finish(w)
    BY <2>1, <2>2, ProceedCalm, CalmFinish
  <2>3. CASE ReadThen(w, "check") \/ ReadThen(w, "persist")
    BY <2>1, <2>3, ProceedCalm, CalmMove DEF Pcs, Saving
  <2> QED BY <1>4, <2>2, <2>3 DEF ReadForRevaluation
<1>5. CASE WriteSettings(w) \/ PersistRevaluation(w) \/ Abort(w)
  <2>1. Finish(w) /\ UNCHANGED <<posted, charged, revalued, unlocked, balances, served>>
    BY <1>5, ProceedCalm
       DEF WriteSettings, PersistRevaluation, Abort, Reject, ledger, assetVars
  <2> QED BY <2>1, CalmFinish
<1> QED BY <1>1, <1>2, <1>3, <1>4, <1>5

LEMMA BalanceInit == Init => BalanceInv
<1> SUFFICES ASSUME Init PROVE BalanceInv
  OBVIOUS
<1>1. \A w \in Workers : tx[w] = Idle
  BY DEF Init
<1>2. tx \in [Workers -> Tx]
  BY IdleFits DEF Init
<1>3. NoEntries \in Counts /\ \A m \in Months : NoEntries[m] = 0
  BY DEF NoEntries, Counts
<1>4. Typed(posted, revalued, unlocked, balances, served)
  BY <1>3 DEF Init, Typed
<1>5. Touchable(posted, charged, revalued, unlocked)
  BY <1>3 DEF Init, Touchable
<1>6. \A v, w \in Workers : v # w => Apart(tx[v], tx[w])
  BY <1>1, IdleFits DEF Apart
<1>7. ASSUME NEW m \in Months PROVE balances[m] <= Total(posted, charged, m)
  <2>1. m \in 0..NMonths
    BY CalendarAssumption DEF Months
  <2>2. Total(posted, charged, m) \in Nat
    BY <1>3, <2>1, TotalType DEF Init
  <2> QED BY <1>3, <2>2 DEF Init
<1>8. \A w \in Workers : TxFits(tx[w], posted, charged, unlocked)
  BY <1>1, IdleFits
<1> QED BY <1>2, <1>4, <1>5, <1>6, <1>7, <1>8 DEF BalanceInv, NeverAhead

LEMMA BalanceNext == AgreeInv /\ BalanceInv /\ [Next]_vars => BalanceInv'
<1> SUFFICES ASSUME AgreeInv, BalanceInv, [Next]_vars PROVE BalanceInv'
  OBVIOUS
<1>1. CASE UNCHANGED vars
  BY <1>1 DEF vars, assetVars, BalanceInv
<1>2. ASSUME NEW w \in Workers, NEW r \in Requests, Arrive(w, r) PROVE BalanceInv'
  BY <1>2, ArriveBalance
<1>3. ASSUME NEW w \in Workers, Serve(w) PROVE BalanceInv'
  BY <1>3, CheckPeriodBalance, InsertJournalBalance, ReadAssetsBalance,
     ReadMonthRowsBalance, ChargeAssetsBalance, MarkTransactionsBalance,
     SumEntriesBalance, CommitCloseBalance, PostRevaluationBalance, OtherBalance
     DEF Serve, Depreciate, Close, Revalue
<1>4. ASSUME NEW w \in Workers, Abort(w) PROVE BalanceInv'
  BY <1>4, OtherBalance
<1> QED BY <1>1, <1>2, <1>3, <1>4 DEF Next

(* Whatever is posted, closed again or rolled back while the snapshot of a   *)
(* month is taken, it never holds more than the final entries up to its end: *)
(* what a close saves it has summed from entries that are committed with it  *)
(* or before it (closePeriod's groupBy and upsert in one transaction).       *)
THEOREM SnapshotsAreNeverAhead == Spec => []SnapshotNeverAhead
<1>1. BalanceInv => SnapshotNeverAhead
  BY HistoryIsTotal DEF BalanceInv, NeverAhead, SnapshotNeverAhead
<1>2. Init => AgreeInv /\ BalanceInv
  BY AgreeInit, BalanceInit
<1>3. AgreeInv /\ BalanceInv /\ [Next]_vars => (AgreeInv /\ BalanceInv)'
  BY AgreeNext, BalanceNext
<1> QED BY <1>1, <1>2, <1>3, PTL DEF Spec

(* Every state has its type: no balance, count of unlocked transactions or   *)
(* bookedDepreciation falls below zero, however closes of the same month     *)
(* lock its transactions together.                                           *)
THEOREM PeriodTypes == Spec => []TypeOK
<1>1. AgreeInv /\ BalanceInv => TypeOK
  BY DEF AgreeInv, DataInv, BalanceInv, Typed, Counts, TypeOK
<1>2. Init => AgreeInv /\ BalanceInv
  BY AgreeInit, BalanceInit
<1>3. AgreeInv /\ BalanceInv /\ [Next]_vars => (AgreeInv /\ BalanceInv)'
  BY AgreeNext, BalanceNext
<1> QED BY <1>1, <1>2, <1>3, PTL DEF Spec

--------------------------------------------------------------------------------
(* One request at a time: what a close reads it still has when it commits.   *)

Depreciating == {"DEPRECIATE", "CLOSE"}

(* The assets as they were read are those there are.                         *)
ReadIsFresh(t, b) == t.req.op \in Depreciating /\ t.pc = "rows" => t.read = b

(* What is planned or charged has something left to depreciate.              *)
PlanIsDue(t, b) ==
  t.req.op \in Depreciating /\ t.pc \in {"check", "charge"} \cup HeldPcs
  => \A a \in t.plan : b[a] < Life[a]

(* The sum is that of all the entries, its own included.                     *)
SumIsTotal(t, p, c) ==
  t.pc \in Saving => t.total = Total(p, c, t.req.month) + Cardinality(t.plan)

Knows(t, b, p, c) ==
  ReadIsFresh(t, b) /\ PlanIsDue(t, b) /\ SumIsTotal(t, p, c)

KnowsInv == \A w \in Workers : Knows(tx[w], booked, posted, charged)

ApartInv == AgreeInv /\ SerialInv /\ BalanceInv /\ KnowsInv

LEMMA IdleKnows ==
  ASSUME NEW t, t.pc = "idle"
  PROVE  \A b, p, c : Knows(t, b, p, c)
BY DEF Knows, ReadIsFresh, PlanIsDue, SumIsTotal, HeldPcs, Saving

(* Whoever moves is alone, so that it is enough to look at its record.       *)
LEMMA KnowsStep ==
  ASSUME AgreeInv, SerialInv, KnowsInv, NEW w \in Workers, NEW t,
         tx' = [tx EXCEPT ![w] = t],
         \A v \in Workers \ {w} : tx[v].pc = "idle",
         Knows(t, booked', posted', charged')
  PROVE  KnowsInv'
<1>1. \A v \in Workers : tx'[v] = IF v = w THEN t ELSE tx[v]
  BY DEF AgreeInv, TxInv
<1>2. ASSUME NEW v \in Workers
      PROVE  Knows(tx'[v], booked', posted', charged')
  <2>1. CASE v = w
    BY <1>1, <2>1
  <2>2. CASE v # w
    BY <1>1, <2>2, IdleKnows
  <2> QED BY <2>1, <2>2
<1> QED BY <1>2 DEF KnowsInv

LEMMA KnowsFinish ==
  ASSUME AgreeInv, SerialInv, KnowsInv, NEW w \in Workers, Finish(w),
         \A v \in Workers \ {w} : tx[v].pc = "idle"
  PROVE  KnowsInv'
<1>1. Idle.pc = "idle"
  BY DEF Idle
<1>2. Knows(Idle, booked', posted', charged')
  BY <1>1, IdleKnows
<1> QED BY <1>2, KnowsStep DEF Finish

LEMMA KnowsMove ==
  ASSUME AgreeInv, SerialInv, BalanceInv, KnowsInv, NEW w \in Workers, NEW pc \in Pcs,
         Goto(w, pc) \/ ReadThen(w, pc),
         \A v \in Workers \ {w} : tx[v].pc = "idle",
         UNCHANGED <<settings, booked, posted, charged>>,
         tx[w].pc # "idle",
         pc # "rows",
         pc \in {"check", "charge"} \cup HeldPcs
           => tx[w].pc \in {"check", "charge"} \cup HeldPcs
              \/ tx[w].req.op \notin Depreciating,
         pc \in Saving => tx[w].pc \in Saving
  PROVE  KnowsInv'
<1>0. PICK s : Moves(w, pc, s)
  BY MoveFacts
<1>1. /\ s \in Settings
      /\ tx' = [tx EXCEPT ![w] = [tx[w] EXCEPT !.pc = pc, !.seen = s]]
  BY <1>0 DEF Moves
<1> DEFINE t == [tx[w] EXCEPT !.pc = pc, !.seen = s]
<1>2. /\ t.pc = pc /\ t.req = tx[w].req /\ t.plan = tx[w].plan
      /\ t.total = tx[w].total
  BY DEF BalanceInv, Tx
<1>3. tx' = [tx EXCEPT ![w] = t]
  BY <1>1
<1> HIDE DEF t
<1>4. Knows(tx[w], booked, posted, charged)
  BY DEF KnowsInv
<1>5. ReadIsFresh(t, booked)
  BY <1>2 DEF ReadIsFresh
<1>6. PlanIsDue(t, booked)
  BY <1>2, <1>4 DEF Knows, PlanIsDue
<1>7. SumIsTotal(t, posted, charged)
  BY <1>2, <1>4 DEF Knows, SumIsTotal
<1>8. Knows(t, booked', posted', charged')
  BY <1>5, <1>6, <1>7 DEF Knows
<1> QED BY <1>3, <1>8, KnowsStep

LEMMA KnowsArrive ==
  ASSUME AgreeInv, SerialInv, BalanceInv, KnowsInv,
         MaxInFlight <= 1, IsFiniteSet(Workers),
         NEW w \in Workers, NEW r \in Requests, Arrive(w, r)
  PROVE  KnowsInv'
<1> DEFINE t == [tx[w] EXCEPT !.pc = FirstPc(r.op), !.req = r]
<1>1. \A v \in Workers \ {w} : tx[v].pc = "idle"
  BY AloneAtArrival
<1>2. /\ FirstPc(r.op) \in {"check", "assets", "read"}
      /\ r.op \in Depreciating => FirstPc(r.op) = "assets"
  BY CallsAssumption DEF Requests, OpNames, FirstPc, Depreciating
<1>3. t.pc = FirstPc(r.op) /\ t.req = r
  BY DEF BalanceInv, Tx
<1>4. tx' = [tx EXCEPT ![w] = t] /\ UNCHANGED settings
  BY DEF Arrive
<1> HIDE DEF t
<1>5. ReadIsFresh(t, booked') /\ PlanIsDue(t, booked') /\ SumIsTotal(t, posted', charged')
  BY <1>2, <1>3 DEF ReadIsFresh, PlanIsDue, SumIsTotal, HeldPcs, Saving
<1>6. Knows(t, booked', posted', charged')
  BY <1>5 DEF Knows
<1> QED BY <1>1, <1>4, <1>6, KnowsStep

LEMMA KnowsServe ==
  ASSUME AgreeInv, SerialInv, BalanceInv, KnowsInv,
         NEW w \in Workers, Serve(w) \/ Abort(w)
  PROVE  KnowsInv'
<1>1. tx[w].pc # "idle"
  BY BusyFacts
<1>2. \A v \in Workers \ {w} : tx[v].pc = "idle"
  BY <1>1 DEF SerialInv, OneAtATime
<1>3. CASE Finish(w)
  BY <1>2, <1>3, KnowsFinish
<1>4. Knows(tx[w], booked, posted, charged)
  BY DEF KnowsInv
<1>5. Proceed => UNCHANGED <<settings, booked, posted, charged>>
  BY DEF Proceed, ledger, assetVars
<1>6. ASSUME NEW pc \in Pcs, Goto(w, pc) \/ ReadThen(w, pc),
             UNCHANGED <<settings, booked, posted, charged>>,
             pc # "rows",
             pc \in {"check", "charge"} \cup HeldPcs
               => tx[w].pc \in {"check", "charge"} \cup HeldPcs
                  \/ tx[w].req.op \notin Depreciating,
             pc \in Saving => tx[w].pc \in Saving
      PROVE  KnowsInv'
  BY <1>1, <1>2, <1>6, KnowsMove
<1>7. CASE CheckPeriod(w)
  <2>1. Proceed /\ tx[w].pc = "check"
    BY <1>7 DEF CheckPeriod, At
  <2>2. CASE Goto(w, "charge")
    BY <1>5, <1>6, <2>1, <2>2 DEF Pcs, Saving
  <2>3. CASE Goto(w, "insert")
    BY <1>5, <1>6, <2>1, <2>3 DEF Pcs, Saving, HeldPcs
  <2> QED BY <1>3, <1>7, <2>2, <2>3 DEF CheckPeriod
<1>8. CASE ReadAssets(w)
  <2> DEFINE t == [tx[w] EXCEPT !.pc = "rows", !.read = booked]
  <2>1. tx' = [tx EXCEPT ![w] = t] /\ Proceed
    BY <1>8 DEF ReadAssets
  <2>2. t.pc = "rows" /\ t.read = booked /\ t.req = tx[w].req
    BY DEF BalanceInv, Tx
  <2> HIDE DEF t
  <2>3. Knows(t, booked, posted, charged)
    BY <1>1, <1>4, <2>2
       DEF Knows, ReadIsFresh, PlanIsDue, SumIsTotal, HeldPcs, Saving
  <2> QED BY <1>2, <1>5, <2>1, <2>3, KnowsStep
<1>9. CASE ReadMonthRows(w)
  <2> DEFINE due == Due(tx[w].read, Month(w))
             pc == IF due = {} THEN "mark" ELSE "check"
             t == [tx[w] EXCEPT !.pc = pc, !.plan = due]
  <2>1. tx[w].pc = "rows" /\ tx[w].req.op \in Depreciating /\ Proceed
    BY <1>9 DEF ReadMonthRows, At, Depreciating
  <2>2. CASE tx' = [tx EXCEPT ![w] = t]
    <3>1. \A a \in due : booked[a] < Life[a]
      BY <1>4, <2>1 DEF Knows, ReadIsFresh, Due
    <3>2. pc \in {"mark", "check"}
      OBVIOUS
    <3> HIDE DEF due, pc
    <3>3. t.pc = pc /\ t.plan = due /\ t.req = tx[w].req
      BY DEF BalanceInv, Tx
    <3> HIDE DEF t
    <3>4. ReadIsFresh(t, booked) /\ SumIsTotal(t, posted, charged)
      BY <3>2, <3>3 DEF ReadIsFresh, SumIsTotal, Saving
    <3>5. PlanIsDue(t, booked)
      BY <3>1, <3>3 DEF PlanIsDue
    <3>6. Knows(t, booked, posted, charged)
      BY <3>4, <3>5 DEF Knows
    <3> QED BY <1>2, <1>5, <2>1, <2>2, <3>6, KnowsStep
  <2> QED BY <1>3, <1>9, <2>2 DEF ReadMonthRows
<1>10. CASE ChargeAssets(w)
  <2>1. tx[w].pc = "charge"
    BY <1>10 DEF ChargeAssets, At
  <2>2. CASE Goto(w, "mark") /\ Proceed
    BY <1>5, <1>6, <2>1, <2>2 DEF Pcs, Saving
  <2> QED BY <1>3, <1>10, <2>2 DEF ChargeAssets, Reject
<1>11. CASE MarkTransactions(w)
  <2> DEFINE m == Month(w)
             t == [tx[w] EXCEPT !.pc = "sum", !.marked = unlocked[m],
                     !.touched = posted[m] + charged[m] + revalued[m] > 0]
  <2>1. tx[w].pc = "mark" /\ Proceed /\ tx' = [tx EXCEPT ![w] = t]
    BY <1>11 DEF MarkTransactions, At
  <2>2. t.pc = "sum" /\ t.plan = tx[w].plan /\ t.req = tx[w].req
    BY DEF BalanceInv, Tx
  <2> HIDE DEF t
  <2>3. ReadIsFresh(t, booked) /\ SumIsTotal(t, posted, charged)
    BY <2>2 DEF ReadIsFresh, SumIsTotal, Saving
  <2>4. PlanIsDue(t, booked)
    BY <1>4, <2>1, <2>2 DEF Knows, PlanIsDue, HeldPcs
  <2>5. Knows(t, booked, posted, charged)
    BY <2>3, <2>4 DEF Knows
  <2> QED BY <1>2, <1>5, <2>1, <2>5, KnowsStep
<1>12. CASE SumEntries(w)
  <2> DEFINE n == History(Month(w)) + Cardinality(tx[w].plan)
             t == [tx[w] EXCEPT !.pc = "save", !.total = n]
  <2>1. tx[w].pc = "sum" /\ Proceed /\ tx' = [tx EXCEPT ![w] = t]
    BY <1>12 DEF SumEntries, At
  <2>2. n = Total(posted, charged, Month(w)) + Cardinality(tx[w].plan)
    BY HistoryIsTotal
  <2> HIDE DEF n
  <2>3. /\ t.pc = "save" /\ t.total = n
        /\ t.plan = tx[w].plan /\ t.req = tx[w].req
    BY DEF BalanceInv, Tx
  <2> HIDE DEF t
  <2>4. ReadIsFresh(t, booked)
    BY <2>3 DEF ReadIsFresh
  <2>5. SumIsTotal(t, posted, charged)
    BY <2>2, <2>3 DEF SumIsTotal, Month
  <2>6. PlanIsDue(t, booked)
    BY <1>4, <2>1, <2>3 DEF Knows, PlanIsDue, HeldPcs
  <2>7. Knows(t, booked, posted, charged)
    BY <2>4, <2>5, <2>6 DEF Knows
  <2> QED BY <1>2, <1>5, <2>1, <2>7, KnowsStep
<1>13. CASE SaveBalances(w) \/ ReadSettings(w)
  <2>1. Proceed /\ tx[w].pc \in Saving
    BY <1>13 DEF SaveBalances, ReadSettings, At, Saving
  <2>2. Goto(w, "settings") \/ ReadThen(w, "close")
    BY <1>13 DEF SaveBalances, ReadSettings
  <2> QED BY <1>5, <1>6, <2>1, <2>2 DEF Pcs, Saving, HeldPcs
<1>14. CASE ReadForUpdate(w) \/ ReadForRevaluation(w)
  <2>1. Proceed /\ tx[w].req.op \notin Depreciating
    BY <1>14 DEF ReadForUpdate, ReadForRevaluation, At, Depreciating
  <2>2. \/ Finish(w) \/ ReadThen(w, "write") \/ ReadThen(w, "check")
        \/ ReadThen(w, "persist")
    BY <1>14 DEF ReadForUpdate, ReadForRevaluation
  <2> QED BY <1>3, <1>5, <1>6, <2>1, <2>2 DEF Pcs, Saving
<1>15. CASE PostRevaluation(w)
  <2>1. /\ Goto(w, "persist") /\ UNCHANGED <<settings, booked, posted, charged>>
    BY <1>15 DEF PostRevaluation, assetVars
  <2> QED BY <1>6, <2>1 DEF Pcs, Saving, HeldPcs
<1>16. CASE \/ InsertJournal(w) \/ CommitClose(w) \/ WriteSettings(w)
            \/ PersistRevaluation(w) \/ Abort(w)
  BY <1>3, <1>16
     DEF InsertJournal, CommitClose, WriteSettings, PersistRevaluation, Abort, Reject
<1> QED BY <1>7, <1>8, <1>9, <1>10, <1>11, <1>12, <1>13, <1>14, <1>15, <1>16
        DEF Serve, Depreciate, Close, Revalue

LEMMA KnowsInit == Init => KnowsInv
<1> SUFFICES ASSUME Init PROVE KnowsInv
  OBVIOUS
<1>1. \A w \in Workers : tx[w].pc = "idle"
  BY DEF Init, Idle
<1> QED BY <1>1, IdleKnows DEF KnowsInv

LEMMA SerialApart ==
  ASSUME MaxInFlight <= 1, IsFiniteSet(Workers)
  PROVE  /\ Init => ApartInv
         /\ ApartInv /\ [Next]_vars => ApartInv'
<1>1. Init => ApartInv
  BY AgreeInit, SerialInit, BalanceInit, KnowsInit DEF ApartInv
<1>2. ASSUME ApartInv, [Next]_vars PROVE ApartInv'
  <2>1. AgreeInv' /\ SerialInv' /\ BalanceInv'
    BY <1>2, AgreeNext, SerialNext, BalanceNext DEF ApartInv
  <2>2. CASE UNCHANGED vars
    <3>1. KnowsInv'
      BY <1>2, <2>2 DEF vars, assetVars, ApartInv, KnowsInv
    <3> QED BY <2>1, <3>1 DEF ApartInv
  <2>3. CASE Next
    <3>1. KnowsInv'
      BY <1>2, <2>3, KnowsArrive, KnowsServe DEF ApartInv, Next
    <3> QED BY <2>1, <3>1 DEF ApartInv
  <2> QED BY <1>2, <2>2, <2>3
<1> QED BY <1>1, <1>2

--------------------------------------------------------------------------------
(* Assets are charged up to their cost                                      *)

LEMMA ChargesStayDue ==
  ASSUME ApartInv, NeverOverDepreciated, [Next]_vars
  PROVE  NeverOverDepreciated'
<1>1. booked \in [Assets -> Nat] /\ Life \in [Assets -> Nat]
  BY CalendarAssumption DEF ApartInv, AgreeInv, DataInv
<1>2. CASE UNCHANGED booked
  BY <1>2 DEF NeverOverDepreciated
<1>3. ASSUME NEW w \in Workers, BookCharges(w), tx[w].pc \in {"charge", "close"},
             tx[w].req.op \in Depreciating
      PROVE  NeverOverDepreciated'
  <2>1. \A a \in tx[w].plan : booked[a] < Life[a]
    BY <1>3 DEF ApartInv, KnowsInv, Knows, PlanIsDue, HeldPcs
  <2>2. ASSUME NEW a \in Assets PROVE booked'[a] <= Life[a]
    <3>1. booked[a] \in Nat /\ Life[a] \in Nat /\ booked[a] <= Life[a]
      BY <1>1 DEF NeverOverDepreciated
    <3>2. CASE a \in tx[w].plan
      <4>1. booked'[a] = booked[a] + 1
        BY <1>3, <3>2 DEF BookCharges
      <4> QED BY <2>1, <3>1, <3>2, <4>1
    <3>3. CASE a \notin tx[w].plan
      BY <1>3, <3>1, <3>3 DEF BookCharges
    <3> QED BY <3>2, <3>3
  <2> QED BY <2>2 DEF NeverOverDepreciated
<1>4. ASSUME NEW w \in Workers, ChargeAssets(w) PROVE NeverOverDepreciated'
  <2>1. CASE Proceed
    BY <1>2, <2>1 DEF Proceed, ledger, assetVars
  <2>2. CASE BookCharges(w)
    BY <1>3, <1>4, <2>2 DEF ChargeAssets, At, Depreciating
  <2> QED BY <1>4, <2>1, <2>2 DEF ChargeAssets, Reject
<1>5. ASSUME NEW w \in Workers, CommitClose(w) PROVE NeverOverDepreciated'
  BY <1>3, <1>5 DEF CommitClose, At, Depreciating
<1> QED BY <1>2, <1>4, <1>5
        DEF Next, vars, Arrive, Serve, Abort, Reject, CheckPeriod, InsertJournal,
            Depreciate, ReadAssets, ReadMonthRows, Close, MarkTransactions,
            SumEntries, SaveBalances, ReadSettings, ReadForUpdate, WriteSettings,
            Revalue, ReadForRevaluation, PostRevaluation, PersistRevaluation,
            Proceed, ledger, assetVars

(* One request at a time: however often a month is depreciated or closed, on *)
(* its own or by a close that rolls back, no asset is charged beyond its     *)
(* cost less its salvage value (the cap of runMonthlyDepreciation).          *)
THEOREM AssetsAreNotOverDepreciated ==
  ASSUME MaxInFlight <= 1, IsFiniteSet(Workers)
  PROVE  Spec => []NeverOverDepreciated
<1>1. Init => ApartInv /\ NeverOverDepreciated
  <2>1. Init => NeverOverDepreciated
    <3>1. SUFFICES ASSUME Init, NEW a \in Assets PROVE booked[a] <= Life[a]
      BY DEF NeverOverDepreciated
    <3>2. booked[a] = 0 /\ Life[a] \in Nat
      BY <3>1, CalendarAssumption DEF Init, NoCharges
    <3> QED BY <3>2
  <2> QED BY <2>1, SerialApart
<1>2. ApartInv /\ NeverOverDepreciated /\ [Next]_vars
      => (ApartInv /\ NeverOverDepreciated)'
  BY SerialApart, ChargesStayDue
<1> QED BY <1>1, <1>2, PTL DEF Spec

--------------------------------------------------------------------------------
(* The snapshot of a month when it becomes closed, and what stands on it    *)

(* Nothing but the commit of its close makes a month closed.                *)
LEMMA ClosedByCommit ==
  ASSUME ApartInv, [Next]_vars
  PROVE  \/ settings'.closed = settings.closed
         \/ \E w \in Workers : /\ CommitClose(w)
                               /\ settings'.closed = settings.closed \cup {Month(w)}
<1>1. settings \in Settings
  BY DEF ApartInv, AgreeInv, DataInv
<1>2. ASSUME NEW w \in Workers, tx[w].pc \in {"close", "write", "persist"}
      PROVE  tx[w].seen = settings
  BY <1>2 DEF ApartInv, SerialInv, Fresh, SeenIsFresh
<1>3. ASSUME NEW w \in Workers, CommitClose(w)
      PROVE  settings'.closed = settings.closed \cup {Month(w)}
  <2>1. settings' = [settings EXCEPT !.closed = @ \cup {Month(w)}]
    BY <1>2, <1>3 DEF CommitClose, At
  <2> QED BY <1>1, <2>1 DEF Settings
<1>4. ASSUME NEW w \in Workers, WriteSettings(w)
      PROVE  settings'.closed = settings.closed
  <2>1. \/ settings' = [settings EXCEPT !.lockedUntil = Day(tx[w].req)]
        \/ settings' = settings
    BY <1>2, <1>4 DEF WriteSettings, At
  <2> QED BY <1>1, <2>1 DEF Settings
<1>5. ASSUME NEW w \in Workers, PersistRevaluation(w)
      PROVE  settings'.closed = settings.closed
  <2>1. settings' = [settings EXCEPT !.lastRevalued = Month(w)]
    BY <1>2, <1>5 DEF PersistRevaluation, At
  <2> QED BY <1>1, <2>1 DEF Settings
<1>6. CASE UNCHANGED settings
  BY <1>6
<1> QED BY <1>3, <1>4, <1>5, <1>6
        DEF Next, vars, Arrive, Serve, Abort, Reject, CheckPeriod, InsertJournal,
            Depreciate, ReadAssets, ReadMonthRows, ChargeAssets, Close,
            MarkTransactions, SumEntries, SaveBalances, ReadSettings, ReadForUpdate,
            Revalue, ReadForRevaluation, PostRevaluation, Proceed

(* What a close saves is the sum of the entries as its commit leaves them. A *)
(* snapshot that is not written was zero, and so is the sum.                 *)
LEMMA CommitSnapshot ==
  ASSUME ApartInv, NEW w \in Workers, CommitClose(w), BalanceInv'
  PROVE  /\ Month(w) \in Months
         /\ balances'[Month(w)] = Total(posted', charged', Month(w))
         /\ \A k \in Months \ {Month(w)} : balances'[k] = balances[k]
<1> DEFINE m == Month(w)
           n == Cardinality(tx[w].plan)
<1>0. AgreeInv /\ BalanceInv
  BY DEF ApartInv
<1>1. /\ tx[w].pc = "close" /\ BookCharges(w) /\ posted' = posted
      /\ balances' = [balances EXCEPT ![m] = IF tx[w].total > 0
                                             THEN tx[w].total ELSE @]
  BY DEF CommitClose, At
<1>2. m \in Months /\ m \in 0..NMonths
  BY <1>0, <1>1, ClosingFacts DEF HeldPcs
<1>3. posted \in Counts /\ balances \in Counts
  BY <1>0 DEF BalanceInv, Typed
<1>4. /\ charged'[m] = charged[m] + n
      /\ \A k \in Months \ {m} : charged'[k] = charged[k]
      /\ charged \in Counts /\ charged' \in Counts
  BY <1>0, <1>1, <1>2, BookedCounts
<1>5. n \in Nat
  BY <1>0, PlanCount
<1>6. tx[w].total \in Nat
  BY <1>0 DEF BalanceInv, Tx
<1>7. tx[w].total = Total(posted, charged, m) + n
  BY <1>1 DEF ApartInv, KnowsInv, Knows, SumIsTotal, Saving, Month
<1>8. balances'[m] <= Total(posted', charged', m)
  BY <1>2 DEF BalanceInv, NeverAhead
<1> HIDE DEF m, n
<1>9. Total(posted', charged', m) = tx[w].total
  <2>1. Total(posted, charged', m) = Total(posted, charged, m) + n
    BY <1>2, <1>3, <1>4, <1>5, TotalCharged
  <2> QED BY <1>1, <1>7, <2>1
<1>10. balances[m] \in Nat
  BY <1>2, <1>3 DEF Counts
<1>11. balances'[m] = Total(posted', charged', m)
  <2>1. CASE tx[w].total > 0
    <3>1. balances' = [balances EXCEPT ![m] = tx[w].total]
      BY <1>1, <2>1
    <3> QED BY <1>2, <1>3, <1>9, <3>1 DEF Counts
  <2>2. CASE ~(tx[w].total > 0)
    <3>1. balances' = [balances EXCEPT ![m] = balances[m]]
      BY <1>1, <2>2
    <3>2. balances'[m] = balances[m]
      BY <1>2, <1>3, <3>1 DEF Counts
    <3> QED BY <1>6, <1>8, <1>9, <1>10, <2>2, <3>2
  <2> QED BY <2>1, <2>2
<1>12. \A k \in Months \ {m} : balances'[k] = balances[k]
  BY <1>1, <1>3 DEF Counts
<1> QED BY <1>2, <1>11, <1>12 DEF m

(* One request at a time: when a month becomes closed its AccountBalance     *)
(* rows are the sum of all final entries up to its end, the depreciation     *)
(* that the close itself posts included (closePeriod).                       *)
THEOREM SerialCloseTakesSnapshot ==
  ASSUME MaxInFlight <= 1, IsFiniteSet(Workers)
  PROVE  Spec => CloseTakesSnapshot
<1>1. ASSUME ApartInv, ApartInv', [Next]_vars, NEW m \in settings'.closed \ settings.closed
      PROVE  balances'[m] = History(m)'
  <2>1. PICK w \in Workers : CommitClose(w) /\ m = Month(w)
    BY <1>1, ClosedByCommit
  <2>2. balances'[Month(w)] = Total(posted', charged', Month(w))
    BY <1>1, <2>1, CommitSnapshot DEF ApartInv
  <2> QED BY <2>1, <2>2 DEF History, Total
<1>2. ApartInv /\ ApartInv' /\ [Next]_vars
      => [\A m \in settings'.closed \ settings.closed :
            balances'[m] = History(m)']_vars
  BY <1>1
<1> QED BY <1>2, SerialApart, PTL DEF Spec, CloseTakesSnapshot

--------------------------------------------------------------------------------
(* The opening balance after an unbroken sequence of closed months          *)

(* The entries of a sequence of closed months are frozen, and their sum.     *)
LEMMA FrozenTotal ==
  ASSUME ApartInv, ApartInv', [Next]_vars, NEW k \in settings.closed,
         1..k \subseteq settings.closed
  PROVE  Total(posted', charged', k) = Total(posted, charged, k)
<1>1. settings.closed \subseteq Months /\ k \in 0..NMonths
  BY CalendarAssumption DEF ApartInv, AgreeInv, DataInv, Settings, Months
<1>2. /\ posted \in Counts /\ charged \in Counts
      /\ posted' \in Counts /\ charged' \in Counts
  BY DEF ApartInv, AgreeInv, DataInv, BalanceInv, Typed, Counts
<1>3. AgreeInv /\ SerialInv /\ EntriesOK
  BY DEF ApartInv, BalanceInv, Typed, Counts, EntriesOK
<1>4. ASSUME NEW j \in 1..k PROVE posted'[j] = posted[j] /\ charged'[j] = charged[j]
  BY <1>1, <1>3, <1>4, PostsIntoOpenMonths
<1> QED BY <1>1, <1>2, <1>4, TotalSame

(* Only the commit of a close saves a snapshot.                              *)
LEMMA SavedByCommit ==
  ASSUME [Next]_vars, \A w \in Workers : ~CommitClose(w)
  PROVE  balances' = balances
BY DEF Next, vars, Arrive, Serve, Abort, Reject, CheckPeriod, InsertJournal, Depreciate,
       ReadAssets, ReadMonthRows, ChargeAssets, Close, MarkTransactions, SumEntries,
       SaveBalances, ReadSettings, ReadForUpdate, WriteSettings, Revalue,
       ReadForRevaluation, PostRevaluation, PersistRevaluation, Proceed, ledger

LEMMA CommitCloses ==
  ASSUME ApartInv, NEW w \in Workers, CommitClose(w)
  PROVE  settings'.closed = settings.closed \cup {Month(w)}
<1>1. tx[w].seen = settings /\ settings \in Settings
  BY DEF CommitClose, At, ApartInv, AgreeInv, DataInv, SerialInv, Fresh, SeenIsFresh
<1> QED BY <1>1 DEF CommitClose, Settings

(* The last closed month before one whose predecessors are all closed is the *)
(* one before it.                                                            *)
LEMMA LastOfClosed ==
  ASSUME NEW C \in SUBSET Months, NEW m \in Months, 1..m \subseteq C
  PROVE  /\ {k \in C : k < m + 1} # {}
         /\ m = CHOOSE k \in {k1 \in C : k1 < m + 1} :
                  \A j \in {k1 \in C : k1 < m + 1} : j <= k
<1> DEFINE before == {k \in C : k < m + 1}
           last == CHOOSE k \in before : \A j \in before : j <= k
<1>1. m \in Nat \ {0} /\ C \subseteq Nat
  BY CalendarAssumption DEF Months
<1>2. m \in before /\ \A j \in before : j <= m
  BY <1>1
<1>3. last \in before /\ \A j \in before : j <= last
  BY <1>2
<1>4. before \subseteq Nat
  BY <1>1
<1> HIDE DEF before, last
<1>5. last = m
  BY <1>2, <1>3, <1>4
<1> QED BY <1>2, <1>5 DEF before, last

(* After closed months the opening balance is the last snapshot, or the sum  *)
(* of the entries when the account has no row in it.                         *)
LEMMA OpeningAfter ==
  ASSUME settings \in Settings, NEW m \in Months, 1..m \subseteq settings.closed
  PROVE  Opening(m + 1) = IF balances[m] = 0 THEN Total(posted, charged, m)
                                             ELSE balances[m]
<1> DEFINE before == {k \in settings.closed : k < m + 1}
           last == CHOOSE k \in before : \A j \in before : j <= k
<1>1. settings.closed \in SUBSET Months /\ (m + 1) - 1 = m
  BY CalendarAssumption DEF Settings, Months
<1>2. before # {} /\ last = m
  BY <1>1, LastOfClosed
<1>3. Opening(m + 1) = IF balances[last] = 0 THEN History((m + 1) - 1)
                                             ELSE balances[last]
  BY <1>2 DEF Opening
<1> HIDE DEF before, last
<1> QED BY <1>1, <1>2, <1>3, HistoryIsTotal

LEMMA OpeningAfterNext ==
  ASSUME settings' \in Settings, NEW m \in Months, 1..m \subseteq settings'.closed
  PROVE  Opening(m + 1)' = IF balances'[m] = 0 THEN Total(posted', charged', m)
                                               ELSE balances'[m]
<1> DEFINE before == {k \in settings'.closed : k < m + 1}
           last == CHOOSE k \in before : \A j \in before : j <= k
<1>1. settings'.closed \in SUBSET Months /\ (m + 1) - 1 = m
  BY CalendarAssumption DEF Settings, Months
<1>2. before # {} /\ last = m
  BY <1>1, LastOfClosed
<1>3. Opening(m + 1)' = IF balances'[last] = 0 THEN History((m + 1) - 1)'
                                               ELSE balances'[last]
  BY <1>2 DEF Opening
<1>4. History(m)' = Total(posted', charged', m)
  BY DEF History, Total
<1> HIDE DEF before, last
<1> QED BY <1>1, <1>2, <1>3, <1>4

(* A month whose predecessors are closed opens what follows it right once it *)
(* is closed.                                                                *)
LEMMA ClosedOpensRight ==
  ASSUME ApartInv, ApartInv', [Next]_vars,
         NEW m \in settings'.closed \ settings.closed,
         1..(m - 1) \subseteq settings.closed
  PROVE  OpensRight(m)'
<1>1. PICK w \in Workers : CommitClose(w) /\ m = Month(w)
  BY ClosedByCommit
<1>2. settings'.closed = settings.closed \cup {m}
  BY <1>1, CommitCloses
<1>3. m \in Months /\ balances'[m] = Total(posted', charged', m)
  BY <1>1, CommitSnapshot DEF ApartInv
<1>4. settings' \in Settings
  BY DEF ApartInv, AgreeInv, DataInv
<1>5. m \in Nat \ {0}
  BY <1>3, CalendarAssumption DEF Months
<1>6. 1..m \subseteq settings'.closed
  BY <1>2, <1>5
<1>7. Opening(m + 1)' = Total(posted', charged', m)
  BY <1>3, <1>4, <1>6, OpeningAfterNext
<1>8. History(m)' = Total(posted', charged', m)
  BY DEF History, Total
<1> QED BY <1>6, <1>7, <1>8 DEF OpensRight

(* What opens right stays right: the entries up to the month are frozen, and *)
(* a close that saves its snapshot again saves their sum.                    *)
LEMMA OpensRightStays ==
  ASSUME ApartInv, ApartInv', [Next]_vars, NEW m \in Months, OpensRight(m)
  PROVE  OpensRight(m)'
<1>1. settings \in Settings /\ settings' \in Settings
  BY DEF ApartInv, AgreeInv, DataInv
<1>2. 1..m \subseteq settings.closed /\ m \in settings.closed
  BY CalendarAssumption DEF OpensRight, Months
<1>3. settings.closed \subseteq settings'.closed
  BY ClosedGrows DEF ApartInv
<1>4. Total(posted', charged', m) = Total(posted, charged, m)
  BY <1>2, FrozenTotal
<1>5. \/ balances'[m] = balances[m]
      \/ balances'[m] = Total(posted', charged', m)
  <2>1. CASE \A w \in Workers : ~CommitClose(w)
    BY <2>1, SavedByCommit
  <2>2. ASSUME NEW w \in Workers, CommitClose(w)
        PROVE  \/ balances'[m] = balances[m]
               \/ balances'[m] = Total(posted', charged', m)
    BY <2>2, CommitSnapshot DEF ApartInv
  <2> QED BY <2>1, <2>2
<1>6. /\ Opening(m + 1) = IF balances[m] = 0 THEN Total(posted, charged, m)
                                             ELSE balances[m]
      /\ Opening(m + 1) = Total(posted, charged, m)
  BY <1>1, <1>2, OpeningAfter, HistoryIsTotal DEF OpensRight
<1>7. Opening(m + 1)' = IF balances'[m] = 0 THEN Total(posted', charged', m)
                                            ELSE balances'[m]
  BY <1>1, <1>2, <1>3, OpeningAfterNext
<1>8. Opening(m + 1)' = Total(posted', charged', m)
  BY <1>4, <1>5, <1>6, <1>7
<1>9. History(m)' = Total(posted', charged', m)
  BY DEF History, Total
<1> QED BY <1>2, <1>3, <1>8, <1>9 DEF OpensRight

(* One request at a time: the trial balance after a month that is closed when *)
(* all the earlier ones are opens with all the entries before it, read from  *)
(* the snapshot or summed, and no later request spoils it (trialBalance).    *)
THEOREM SerialOpeningAfterClosedMonths ==
  ASSUME MaxInFlight <= 1, IsFiniteSet(Workers)
  PROVE  Spec => OpeningAfterClosedMonths
<1> DEFINE Opens ==
      \A m \in Months :
        /\ OpensRight(m) => OpensRight(m)'
        /\ m \in settings'.closed \ settings.closed
             /\ 1..(m - 1) \subseteq settings.closed => OpensRight(m)'
<1>1. ApartInv /\ ApartInv' /\ [Next]_vars => Opens
  BY OpensRightStays, ClosedOpensRight
<1> HIDE DEF Opens
<1>2. ApartInv /\ ApartInv' /\ [Next]_vars => [Opens]_vars
  BY <1>1
<1>3. Spec => [][Opens]_vars
  BY <1>2, SerialApart, PTL DEF Spec
<1> QED BY <1>3 DEF Opens, OpeningAfterClosedMonths
================================================================================
