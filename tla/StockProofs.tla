------------------------------- MODULE StockProofs -------------------------------
(***************************************************************************)
(* Proofs about Stock.  However many requests are served at once, every  *)
(* variable keeps its type: stock is never negative, because a quantity    *)
(* that is written was computed from one that was read and checked, and is *)
(* a number of pieces by itself, whatever has been written since; and what *)
(* the books are moved by is a number, because the layers of a cell are    *)
(* prices.  The rest is proved for requests that are served one after      *)
(* another: that a warehouse is under one count and its stock rests        *)
(* meanwhile, that a quantity is what its movements add up to, that        *)
(* documents leave what was counted, that issues find their layers, and    *)
(* that the books hold what stock and production cost.                     *)
(* With two requests at a time all of that is lost (see the README).       *)
(***************************************************************************)
EXTENDS Stock, SumTheorems, SequenceTheorems, TLAPS

IsLine(l) ==
  /\ l = [system |-> l.system, fact |-> l.fact, since |-> l.since]
  /\ l.system \in Nat
  /\ l.fact \in Nat

IsCount(k) ==
  /\ k = [status |-> k.status, lines |-> k.lines, classified |-> k.classified]
  /\ k.lines = [p \in DOMAIN k.lines |-> k.lines[p]]
  /\ DOMAIN k.lines \subseteq Products
  /\ \A p \in DOMAIN k.lines : IsLine(k.lines[p])

CountsOK ==
  /\ DOMAIN count = Counts
  /\ \A k \in Counts : IsCount(count[k])

DraftsOK == draft \in [Drafts -> [status : {"NONE", "DRAFT", "POSTED"},
                                  type : DraftTypes, actual : Nat]]

\* A plan writes quantities that are no less than zero, to documents that
\* exist.
PlanOK(j) ==
  /\ \A c \in DOMAIN j.post : j.post[c].qty \in Nat
  /\ j.op \in {"start", "complete"} => j.doc \in Counts
  /\ j.op = "start" => DOMAIN j.post = {}
  /\ j.op = "post" => j.doc \in Drafts
  /\ j.op \in {"order", "finish", "cancel"} => j.doc \in Orders

JobsOK ==
  /\ DOMAIN job = Handlers
  /\ \A h \in Handlers : PlanOK(job[h])

SafeInv ==
  /\ item \in [Cells -> Nat]
  /\ DraftsOK
  /\ CountsOK
  /\ DOMAIN order = Orders
  /\ JobsOK

--------------------------------------------------------------------------------
(* Plans                                                                    *)

LEMMA PlanFields ==
  ASSUME NEW op, NEW doc, NEW post, NEW s, NEW w
  PROVE  /\ Plan(op, doc, post, s, w).op = op
         /\ Plan(op, doc, post, s, w).doc = doc
         /\ Plan(op, doc, post, s, w).post = post
BY DEF Plan

(* A plan that moves one cell.                                              *)
LEMMA OneCell ==
  ASSUME NEW c, NEW p
  PROVE  /\ DOMAIN One(c, p) = {c}
         /\ One(c, p)[c] = p
BY DEF One

LEMMA InFields ==
  ASSUME NEW c, NEW q, NEW price, NEW d, NEW doc
  PROVE  /\ In(c, q, price, d, doc).qty = item[c] + q
         /\ In(c, q, price, d, doc).move.doc = doc
BY DEF In

LEMMA OutFields ==
  ASSUME NEW c, NEW q, NEW d, NEW doc
  PROVE  /\ Out(c, q, d, doc).qty = item[c] - q
         /\ Out(c, q, d, doc).move.doc = doc
BY DEF Out

(* A correction leaves the quantity and the difference.                     *)
LEMMA CorrectionFields ==
  ASSUME NEW c, item[c] \in Int, NEW delta \in Int, NEW price, NEW d, NEW doc
  PROVE  /\ Correction(c, delta, price, d, doc).qty = item[c] + delta
         /\ Correction(c, delta, price, d, doc).move.doc = doc
<1>1. CASE delta > 0
  BY <1>1, InFields DEF Correction
<1>2. CASE ~(delta > 0)
  <2>1. Correction(c, delta, price, d, doc) = Out(c, -delta, d, doc)
    BY <1>2 DEF Correction
  <2>2. item[c] - (-delta) = item[c] + delta
    OBVIOUS
  <2> QED BY <2>1, <2>2, OutFields
<1> QED BY <1>1, <1>2

(* What a new request needs to keep the invariant is that its plan is good.  *)
LEMMA BeginKeeps ==
  ASSUME SafeInv, NEW h \in Handlers, NEW plan, PlanOK(plan), Begin(h, plan)
  PROVE  SafeInv'
<1>1. \A g \in Handlers : job'[g] = IF g = h THEN plan ELSE job[g]
  BY DEF SafeInv, JobsOK, Begin
<1>2. JobsOK'
  BY <1>1 DEF SafeInv, JobsOK, Begin, PlanOK
<1> QED BY <1>2 DEF SafeInv, Begin, stock, docs, DraftsOK, CountsOK

(* A plan that moves one cell and is about no document but, maybe, an        *)
(* invoice.                                                                  *)
LEMMA OneCellPlan ==
  ASSUME NEW op \in {"move", "ship", "import"}, NEW doc, NEW c, NEW p, p.qty \in Nat,
         NEW s, NEW w
  PROVE  PlanOK(Plan(op, doc, One(c, p), s, w))
<1> DEFINE plan == Plan(op, doc, One(c, p), s, w)
<1>1. plan.op = op /\ plan.post = One(c, p)
  BY PlanFields
<1> HIDE DEF plan
<1>2. \A x \in DOMAIN plan.post : plan.post[x].qty \in Nat
  <2>1. DOMAIN plan.post = {c} /\ plan.post[c] = p
    BY <1>1, OneCell
  <2> QED BY <2>1
<1>3. PlanOK(plan)
  BY <1>1, <1>2 DEF PlanOK
<1> QED BY <1>3 DEF plan

(* The units of a cell, and of one more or less.                             *)
LEMMA CellsAreNumbers ==
  ASSUME SafeInv
  PROVE  \A w \in Warehouses, p \in Products :
           /\ <<w, p>> \in Cells
           /\ item[<<w, p>>] \in Nat
BY DEF SafeInv, Cells

LEMMA FailKeeps ==
  ASSUME SafeInv, NEW h \in Handlers, Fail(h)
  PROVE  SafeInv'
<1>1. PlanOK(Idle)
  BY PlanFields DEF PlanOK, Idle
<1>2. \A g \in Handlers : job'[g] = IF g = h THEN Idle ELSE job[g]
  BY DEF SafeInv, JobsOK, Fail
<1>3. JobsOK'
  BY <1>1, <1>2 DEF SafeInv, JobsOK, Fail, PlanOK
<1> QED BY <1>3 DEF SafeInv, Fail, stock, docs, DraftsOK, CountsOK

(* A commit writes the quantities of a good plan.                            *)
LEMMA WriteKeeps ==
  ASSUME SafeInv, NEW h \in Handlers, Write(h)
  PROVE  item' \in [Cells -> Nat] /\ JobsOK'
<1>1. PlanOK(Idle)
  BY PlanFields DEF PlanOK, Idle
<1>2. \A g \in Handlers : job'[g] = IF g = h THEN Idle ELSE job[g]
  BY DEF SafeInv, JobsOK, Write
<1>3. JobsOK'
  BY <1>1, <1>2 DEF SafeInv, JobsOK, Write, PlanOK
<1>4. item' \in [Cells -> Nat]
  BY DEF SafeInv, JobsOK, Write, PlanOK
<1> QED BY <1>3, <1>4
--------------------------------------------------------------------------------
(* Requests                                                                 *)

(* Goods that come in to a cell, and goods that are there and go out.        *)
LEMMA ComeAndGo ==
  ASSUME SafeInv, NEW w \in Warehouses, NEW p \in Products, NEW q \in Nat,
         NEW price, NEW d, NEW doc
  PROVE  /\ In(<<w, p>>, q, price, d, doc).qty \in Nat
         /\ item[<<w, p>>] >= q => Out(<<w, p>>, q, d, doc).qty \in Nat
<1>1. item[<<w, p>>] \in Nat
  BY CellsAreNumbers
<1>2. item[<<w, p>>] + q \in Nat
  BY <1>1
<1>3. item[<<w, p>>] >= q => item[<<w, p>>] - q \in Nat
  BY <1>1
<1> QED BY <1>2, <1>3, InFields, OutFields

LEMMA EnteredCell ==
  ASSUME NEW c \in Cells
  PROVE  c[1] \in Warehouses /\ c[2] \in Products /\ c = <<c[1], c[2]>>
BY DEF Cells

LEMMA MovementsKeep ==
  ASSUME SafeInv, NEW h \in Handlers, NEW c \in Cells, NEW q \in Lots, NEW price,
         NEW d,
         Receive(h, c, q, d) \/ AdjustIn(h, c, q, price) \/ AdjustOut(h, c, q)
           \/ Import(h, c, q, price)
  PROVE  SafeInv'
<1>1. q \in Nat
  BY NumbersAssumption
<1>2. c = <<c[1], c[2]>> /\ c[1] \in Warehouses /\ c[2] \in Products
  BY EnteredCell
<1>3. CASE Receive(h, c, q, d)
  BY <1>1, <1>2, <1>3, ComeAndGo, OneCellPlan, BeginKeeps DEF Receive
<1>4. CASE AdjustIn(h, c, q, price)
  BY <1>1, <1>2, <1>4, ComeAndGo, OneCellPlan, BeginKeeps DEF AdjustIn
<1>5. CASE AdjustOut(h, c, q)
  BY <1>1, <1>2, <1>5, ComeAndGo, OneCellPlan, BeginKeeps DEF AdjustOut
<1>6. CASE Import(h, c, q, price)
  <2> DEFINE plan == Plan("import", NoDoc, One(c, In(c, q, price, Today, NoDoc)), q * price, 0)
             version == <<c, Len(moves[c]), opening>>
  <2>1. PlanOK(plan)
    BY <1>1, <1>2, ComeAndGo, OneCellPlan
  <2>2. Begin(h, [plan EXCEPT !.version = version])
    BY <1>6 DEF Import
  <2>3. PlanOK([plan EXCEPT !.version = version])
    <3>1. /\ [plan EXCEPT !.version = version].op = plan.op
          /\ [plan EXCEPT !.version = version].doc = plan.doc
          /\ [plan EXCEPT !.version = version].post = plan.post
      BY DEF Plan
    <3> HIDE DEF plan, version
    <3> QED BY <2>1, <3>1 DEF PlanOK
  <2> QED BY <2>2, <2>3, BeginKeeps
<1> QED BY <1>3, <1>4, <1>5, <1>6

(* A request that takes a unit from one cell and adds one to another.        *)
LEMMA TwoCellPlan ==
  ASSUME NEW c, NEW t, NEW out, NEW into, out.qty \in Nat, into.qty \in Nat
  PROVE  PlanOK(Plan("move", NoDoc,
                     [x \in {c, t} |-> IF x = c THEN out ELSE into], 0, 0))
BY PlanFields DEF PlanOK

LEMMA TransferKeeps ==
  ASSUME SafeInv, NEW h \in Handlers, NEW c \in Cells, NEW w \in Warehouses, NEW d,
         Transfer(h, c, w, d)
  PROVE  SafeInv'
<1>1. c = <<c[1], c[2]>> /\ c[1] \in Warehouses /\ c[2] \in Products
  BY EnteredCell
<1>2. Out(c, 1, d, NoDoc).qty \in Nat
  BY <1>1, ComeAndGo DEF Transfer
<1>3. In(<<w, c[2]>>, 1, IssueCost(c, 1), d, NoDoc).qty \in Nat
  BY <1>1, ComeAndGo
<1> DEFINE to == <<w, c[2]>>
           out == Out(c, 1, d, NoDoc)
           into == In(to, 1, IssueCost(c, 1), d, NoDoc)
           plan == Plan("move", NoDoc, [x \in {c, to} |-> IF x = c THEN out ELSE into], 0, 0)
<1>4. Begin(h, plan)
  BY DEF Transfer
<1>5. PlanOK(plan)
  <2>1. out.qty \in Nat /\ into.qty \in Nat
    BY <1>2, <1>3
  <2> HIDE DEF to, out, into
  <2> QED BY ONLY <2>1, TwoCellPlan
<1> HIDE DEF plan
<1> QED BY <1>4, <1>5, BeginKeeps

LEMMA ReleaseKeeps ==
  ASSUME SafeInv, NEW h \in Handlers, NEW w \in Warehouses, Release(h, w)
  PROVE  SafeInv'
<1> DEFINE c == <<w, Goods>>
           made == <<w, Made>>
           out == Out(c, 1, Today, NoDoc)
           into == In(made, 1, IssueCost(c, 1), Today, NoDoc)
           plan == Plan("move", NoDoc, [x \in {c, made} |-> IF x = c THEN out ELSE into], 0, 0)
<1>1. out.qty \in Nat
  BY ComeAndGo DEF Release, Products
<1>2. into.qty \in Nat
  BY ComeAndGo DEF Products
<1>3. Begin(h, plan)
  BY DEF Release
<1>4. PlanOK(plan)
  <2> HIDE DEF c, made, out, into
  <2> QED BY <1>1, <1>2, TwoCellPlan
<1> HIDE DEF plan
<1> QED BY <1>3, <1>4, BeginKeeps

LEMMA ShipKeeps ==
  ASSUME SafeInv, NEW h \in Handlers, NEW i \in Invoices, NEW w \in Warehouses, NEW d,
         Ship(h, i, w, d)
  PROVE  SafeInv'
<1>1. Quantity[i] \in Nat
  BY DocumentsAssumption
<1>2. Out(<<w, Goods>>, Quantity[i], d, i).qty \in Nat
  BY <1>1, ComeAndGo DEF Ship, Products
<1> QED BY <1>2, OneCellPlan, BeginKeeps DEF Ship

(* What posts a draft brings the cell to the quantity counted.               *)
LEMMA PostDraftKeeps ==
  ASSUME SafeInv, NEW h \in Handlers, NEW n \in Drafts, NEW price, PostDraft(h, n, price)
  PROVE  SafeInv'
<1> DEFINE c == DraftCell[n]
           delta == draft[n].actual - item[c]
           post == [x \in {c} \ {y \in {c} : delta = 0}
                      |-> Correction(c, delta, price, DraftDate[n], n)]
           plan == Plan("post", n, post, CorrectionCost(c, delta, price), 0)
<1>1. item[c] \in Nat /\ draft[n].actual \in Nat
  BY DocumentsAssumption DEF SafeInv, DraftsOK
<1>2. Begin(h, plan)
  BY DEF PostDraft
<1>3. \A x \in DOMAIN post : post[x].qty \in Nat
  <2>1. delta \in Int /\ item[c] + delta = draft[n].actual /\ item[c] \in Int
    BY <1>1
  <2> DEFINE fix == Correction(c, delta, price, DraftDate[n], n)
  <2>2. fix.qty = item[c] + delta
    BY <2>1, CorrectionFields
  <2>3. fix.qty \in Nat
    BY <1>1, <2>1, <2>2
  <2>4. \A x \in DOMAIN post : post[x] = fix
    BY Zenon
  <2> QED BY <2>3, <2>4, Zenon
<1>4. PlanOK(plan)
  <2> HIDE DEF post
  <2> QED BY <1>3, PlanFields DEF PlanOK
<1> QED BY <1>2, <1>4, BeginKeeps

LEMMA CreateDraftKeeps ==
  ASSUME SafeInv, NEW n \in Drafts, NEW type \in DraftTypes, NEW actual \in Facts,
         CreateDraft(n, type, actual)
  PROVE  SafeInv'
<1>1. actual \in Nat
  BY NumbersAssumption
<1> QED BY <1>1 DEF SafeInv, CreateDraft, stock, DraftsOK, CountsOK, JobsOK

(* A count is completed only when every shortage is in stock.                *)
LEMMA CompleteKeeps ==
  ASSUME SafeInv, NEW h \in Handlers, NEW k \in Counts, NEW price, Complete(h, k, price)
  PROVE  SafeInv'
<1> DEFINE post == [c \in Corrected(k) |->
                      Correction(c, Delta(k, c[2]), price, CountDate[k], k)]
           cost == MapThenSumSet(LAMBDA c : CorrectionCost(c, Delta(k, c[2]), price),
                                 Corrected(k))
           plan == Plan("complete", k, post, cost, 0)
<1>1. Begin(h, plan)
  BY DEF Complete
<1>2. \A c \in Corrected(k) : item[c] \in Nat /\ Delta(k, c[2]) \in Int
  <2>1. \A p \in Differing(k) : p \in Products /\ IsLine(count[k].lines[p])
    BY DEF Differing, SafeInv, CountsOK, IsCount
  <2>2. \A p \in Differing(k) : Delta(k, p) \in Int
    <3>1. \A p \in Differing(k) : /\ count[k].lines[p].fact \in Nat
                                  /\ count[k].lines[p].system \in Nat
      BY <2>1 DEF IsLine
    <3> QED BY <3>1 DEF Delta
  <2>3. \A p \in Differing(k) : item[<<CountAt[k], p>>] \in Nat
    BY <2>1, CellsAreNumbers, DocumentsAssumption
  <2> QED BY <2>2, <2>3 DEF Corrected
<1>3. \A c \in DOMAIN post : post[c].qty \in Nat
  <2> SUFFICES ASSUME NEW c \in Corrected(k)
               PROVE  Correction(c, Delta(k, c[2]), price, CountDate[k], k).qty \in Nat
    OBVIOUS
  <2>1. item[c] \in Int /\ Delta(k, c[2]) \in Int
    BY <1>2
  <2>2. item[c] + Delta(k, c[2]) >= 0
    BY DEF Complete
  <2>3. item[c] + Delta(k, c[2]) \in Nat
    BY <2>1, <2>2
  <2> QED BY <2>1, <2>3, CorrectionFields
<1>4. PlanOK(plan)
  <2> HIDE DEF post, cost
  <2> QED BY <1>3, PlanFields DEF PlanOK
<1> QED BY <1>1, <1>4, BeginKeeps

LEMMA StartCountingKeeps ==
  ASSUME SafeInv, NEW h \in Handlers, NEW k \in Counts, StartCounting(h, k)
  PROVE  SafeInv'
<1>1. PlanOK(Plan("start", k, <<>>, 0, 0))
  BY PlanFields DEF PlanOK
<1> QED BY <1>1, BeginKeeps DEF StartCounting

LEMMA ClerksKeep ==
  ASSUME SafeInv, NEW k \in Counts, NEW p, NEW fact,
         (fact \in Facts /\ SetFact(k, p, fact)) \/ Submit(k) \/ Classify(k, p) \/ CancelCount(k)
  PROVE  SafeInv'
<1> DEFINE c == count[k]
<1>1. IsCount(c) /\ DOMAIN count = Counts
  BY DEF SafeInv, CountsOK
<1>2. \A new : count' = [count EXCEPT ![k] = new] /\ IsCount(new) => CountsOK'
  BY <1>1 DEF SafeInv, CountsOK
<1>3. UNCHANGED <<stock, draft, order, job>> /\ CountsOK' => SafeInv'
  BY DEF SafeInv, stock, DraftsOK, JobsOK
<1>4. CASE fact \in Facts /\ SetFact(k, p, fact)
  <2> DEFINE new == [c EXCEPT !.lines[p].fact = fact]
  <2>1. IsLine([c.lines[p] EXCEPT !.fact = fact])
    BY <1>1, <1>4, NumbersAssumption DEF SetFact, IsCount, IsLine
  <2>2. IsCount(new)
    BY <1>1, <1>4, <2>1 DEF SetFact, IsCount
  <2>3. count' = [count EXCEPT ![k] = new]
    BY <1>1, <1>4 DEF SetFact
  <2> QED BY <1>2, <1>3, <1>4, <2>2, <2>3 DEF SetFact
<1>5. CASE Submit(k)
  <2>1. IsCount([c EXCEPT !.status = "REVIEW"])
    BY <1>1 DEF IsCount
  <2> QED BY <1>2, <1>3, <1>5, <2>1 DEF Submit
<1>6. CASE Classify(k, p)
  <2>1. IsCount([c EXCEPT !.classified = @ \cup {p}])
    BY <1>1 DEF IsCount
  <2>2. count' = [count EXCEPT ![k] = [c EXCEPT !.classified = @ \cup {p}]]
    BY <1>6 DEF Classify
  <2> QED BY <1>2, <1>3, <1>6, <2>1, <2>2 DEF Classify
<1>7. CASE CancelCount(k)
  <2>1. IsCount(Blank("CANCELLED"))
    BY DEF IsCount, Blank
  <2> QED BY <1>2, <1>3, <1>7, <2>1 DEF CancelCount
<1> QED BY <1>4, <1>5, <1>6, <1>7

LEMMA ProductionKeeps ==
  ASSUME SafeInv, NEW h \in Handlers, NEW o \in Orders,
         StartOrder(h, o) \/ FinishOrder(h, o) \/ CancelOrder(h, o)
  PROVE  SafeInv'
<1> DEFINE c == <<OrderAt[o], Goods>>
           made == <<OrderAt[o], Made>>
           cost == order[o].cost
<1>1. OrderAt[o] \in Warehouses /\ Goods \in Products /\ Made \in Products
  BY DocumentsAssumption DEF Products
<1>2. \A op \in {"order", "finish", "cancel"} : \A x, p, s, w :
        p.qty \in Nat => PlanOK(Plan(op, o, One(x, p), s, w))
  <2> SUFFICES ASSUME NEW op \in {"order", "finish", "cancel"}, NEW x, NEW p, NEW s, NEW w,
                      p.qty \in Nat
               PROVE  PlanOK(Plan(op, o, One(x, p), s, w))
    OBVIOUS
  <2> DEFINE plan == Plan(op, o, One(x, p), s, w)
  <2>1. plan.op = op /\ plan.doc = o /\ DOMAIN plan.post = {x} /\ plan.post[x] = p
    <3>1. plan.op = op /\ plan.doc = o /\ plan.post = One(x, p)
      BY PlanFields
    <3> HIDE DEF plan
    <3> QED BY <3>1, OneCell
  <2> HIDE DEF plan
  <2>2. PlanOK(plan)
    BY <2>1 DEF PlanOK
  <2> QED BY <2>2 DEF plan
<1>3. CASE StartOrder(h, o)
  <2>1. Out(c, 1, Today, o).qty \in Nat
    BY <1>1, <1>3, ComeAndGo DEF StartOrder
  <2>2. PlanOK(Plan("order", o, One(c, Out(c, 1, Today, o)), -IssueCost(c, 1), IssueCost(c, 1)))
    BY <1>2, <2>1
  <2> QED BY <1>3, <2>2, BeginKeeps DEF StartOrder
<1>4. CASE FinishOrder(h, o)
  <2>1. In(made, 1, cost, Today, o).qty \in Nat
    BY <1>1, ComeAndGo
  <2>2. PlanOK(Plan("finish", o, One(made, In(made, 1, cost, Today, o)), cost, -cost))
    BY <1>2, <2>1
  <2> QED BY <1>4, <2>2, BeginKeeps DEF FinishOrder
<1>5. CASE CancelOrder(h, o)
  <2>1. In(c, 1, cost, Today, o).qty \in Nat
    BY <1>1, ComeAndGo
  <2>2. PlanOK(Plan("cancel", o, One(c, In(c, 1, cost, Today, o)), cost, -cost))
    BY <1>2, <2>1
  <2>3. PlanOK(Plan("cancel", o, <<>>, 0, 0))
    BY PlanFields DEF PlanOK
  <2> QED BY <1>5, <2>2, <2>3, BeginKeeps DEF CancelOrder
<1> QED BY <1>3, <1>4, <1>5

--------------------------------------------------------------------------------
(* Commits                                                                  *)

LEMMA CommitKeeps ==
  ASSUME SafeInv, NEW h \in Handlers, Commit(h)
  PROVE  SafeInv'
<1>1. Write(h)
  BY DEF Commit, CommitMove, CommitShipment, CommitImport, CommitDraft, CommitCounting,
         CommitCount, CommitOrder, CommitFinish, CommitCancel
<1>2. item' \in [Cells -> Nat] /\ JobsOK'
  BY <1>1, WriteKeeps
<1>3. PlanOK(job[h])
  BY DEF SafeInv, JobsOK
<1>4. DraftsOK'
  <2>1. CASE CommitDraft(h)
    <3>1. draft' = [draft EXCEPT ![job[h].doc] = Posted]
      BY <2>1 DEF CommitDraft
    <3>2. Posted \in [status : {"NONE", "DRAFT", "POSTED"}, type : DraftTypes, actual : Nat]
      BY DEF Posted, NoDraft, DraftTypes
    <3> QED BY <3>1, <3>2 DEF SafeInv, DraftsOK
  <2>2. CASE ~CommitDraft(h)
    <3>1. UNCHANGED draft
      BY <2>2 DEF Commit, CommitMove, CommitShipment, CommitImport, CommitCounting,
                  CommitCount, CommitOrder, CommitFinish, CommitCancel, docs
    <3> QED BY <3>1 DEF SafeInv, DraftsOK
  <2> QED BY <2>1, <2>2
<1>5. DOMAIN order' = Orders
  BY DEF Commit, CommitMove, CommitShipment, CommitImport, CommitDraft, CommitCounting,
         CommitCount, CommitOrder, CommitFinish, CommitCancel, docs, SafeInv
<1>6. CountsOK'
  <2>1. \A k \in Counts : \A new : count' = [count EXCEPT ![k] = new] /\ IsCount(new) => CountsOK'
    BY DEF SafeInv, CountsOK
  <2>2. CASE CommitCounting(h)
    <3> DEFINE k == job[h].doc
               rows == {p \in Products : Moved(<<CountAt[k], p>>)}
               line(p) == [system |-> item[<<CountAt[k], p>>], fact |-> item[<<CountAt[k], p>>],
                           since |-> Len(moves[<<CountAt[k], p>>])]
               new == [status |-> "COUNTING", lines |-> [p \in rows |-> line(p)],
                       classified |-> {}]
    <3>1. k \in Counts /\ CountAt[k] \in Warehouses
      BY <1>3, <2>2, DocumentsAssumption DEF CommitCounting, PlanOK
    <3>2. \A p \in rows : IsLine(line(p))
      BY <3>1, CellsAreNumbers DEF IsLine
    <3>3. IsCount(new)
      <4> HIDE DEF line
      <4> QED BY <3>2 DEF IsCount
    <3>4. count' = [count EXCEPT ![k] = new]
      BY <2>2 DEF CommitCounting
    <3> QED BY <2>1, <3>1, <3>3, <3>4
  <2>3. CASE CommitCount(h)
    <3>1. IsCount(Blank("COMPLETED"))
      BY DEF IsCount, Blank
    <3> QED BY <1>3, <2>1, <2>3, <3>1 DEF CommitCount, PlanOK
  <2>4. CASE ~CommitCounting(h) /\ ~CommitCount(h)
    <3>1. UNCHANGED count
      BY <2>4 DEF Commit, CommitMove, CommitShipment, CommitImport, CommitDraft,
                  CommitOrder, CommitFinish, CommitCancel, docs
    <3> QED BY <3>1 DEF SafeInv, CountsOK
  <2> QED BY <2>2, <2>3, <2>4
<1> QED BY <1>2, <1>4, <1>5, <1>6 DEF SafeInv

--------------------------------------------------------------------------------
LEMMA SafeInit == Init => SafeInv
<1> SUFFICES ASSUME Init PROVE SafeInv
  OBVIOUS
<1>1. item \in [Cells -> Nat] /\ DOMAIN order = Orders
  BY DEF Init
<1>2. DraftsOK
  BY DEF Init, DraftsOK, NoDraft, DraftTypes
<1>3. CountsOK
  BY DEF Init, CountsOK, IsCount, Blank
<1>4. JobsOK
  <2>1. PlanOK(Idle)
    BY PlanFields DEF PlanOK, Idle
  <2> QED BY <2>1 DEF Init, JobsOK, PlanOK
<1> QED BY <1>1, <1>2, <1>3, <1>4 DEF SafeInv

LEMMA SafeNext == SafeInv /\ [Next]_vars => SafeInv'
<1> SUFFICES ASSUME SafeInv, [Next]_vars PROVE SafeInv'
  OBVIOUS
<1>1. ASSUME NEW h \in Handlers, NEW c \in Entry, NEW q \in Lots
      PROVE  /\ \A d : Receive(h, c, q, d) => SafeInv'
             /\ \A price : AdjustIn(h, c, q, price) => SafeInv'
             /\ \A price : Import(h, c, q, price) => SafeInv'
             /\ AdjustOut(h, c, q) => SafeInv'
  <2>1. c \in Cells
    BY NumbersAssumption
  <2> QED BY <2>1, MovementsKeep
<1>2. ASSUME UNCHANGED vars PROVE SafeInv'
  BY <1>2 DEF vars, stock, docs, SafeInv, DraftsOK, CountsOK, JobsOK
<1>3. ASSUME NEW h \in Handlers, NEW c \in Cells, NEW w \in Warehouses, NEW d,
             Transfer(h, c, w, d)
      PROVE  SafeInv'
  BY <1>3, TransferKeeps
<1>4. ASSUME NEW h \in Handlers, NEW i \in Invoices, NEW w \in Warehouses, NEW d,
             Ship(h, i, w, d)
      PROVE  SafeInv'
  BY <1>4, ShipKeeps
<1>5. ASSUME NEW n \in Drafts, NEW type \in DraftTypes, NEW actual \in Facts,
             CreateDraft(n, type, actual)
      PROVE  SafeInv'
  BY <1>5, CreateDraftKeeps
<1>6. ASSUME NEW h \in Handlers, NEW n \in Drafts, NEW price, PostDraft(h, n, price)
      PROVE  SafeInv'
  BY <1>6, PostDraftKeeps
<1>7. ASSUME NEW h \in Handlers, NEW k \in Counts
      PROVE  /\ StartCounting(h, k) => SafeInv'
             /\ \A price : Complete(h, k, price) => SafeInv'
  BY StartCountingKeeps, CompleteKeeps
<1>8. ASSUME NEW k \in Counts, NEW p, NEW fact \in Facts, SetFact(k, p, fact)
      PROVE  SafeInv'
  BY <1>8, ClerksKeep
<1>9. ASSUME NEW k \in Counts
      PROVE  /\ Submit(k) \/ CancelCount(k) => SafeInv'
             /\ \A p : Classify(k, p) => SafeInv'
  BY ClerksKeep
<1>10. ASSUME NEW h \in Handlers, NEW o \in Orders,
              StartOrder(h, o) \/ FinishOrder(h, o) \/ CancelOrder(h, o)
       PROVE  SafeInv'
  BY <1>10, ProductionKeeps
<1>11. ASSUME NEW h \in Handlers, NEW w \in Warehouses, Release(h, w)
       PROVE  SafeInv'
  BY <1>11, ReleaseKeeps
<1>12. ASSUME NEW h \in Handlers, Commit(h) \/ Fail(h)
       PROVE  SafeInv'
  BY <1>12, CommitKeeps, FailKeeps
<1> QED BY <1>1, <1>2, <1>3, <1>4, <1>5, <1>6, <1>7, <1>8, <1>9, <1>10, <1>11, <1>12 DEF Next

(* Whoever takes goods out, no quantity in stock is ever negative: each       *)
(* writer has looked, and writes what it computed from what it saw.           *)
THEOREM StockNeverNegative == Spec => []NeverNegative
<1>1. SafeInv => NeverNegative
  BY DEF SafeInv, NeverNegative
<1> QED BY SafeInit, SafeNext, <1>1, PTL DEF Spec

--------------------------------------------------------------------------------
(* One request at a time                                                    *)

OneHandler == \A g, h \in Handlers : g = h

\* What a plan was made from is still so.
StillSo(j) ==
  /\ j.op = "start" => ~Frozen(CountAt[j.doc])
  /\ j.op \in {"move", "import", "ship", "post", "order"} =>
       \A c \in DOMAIN j.post : ~Frozen(c[1])
  /\ j.op \in {"complete", "finish", "cancel"} =>
       \A c \in DOMAIN j.post : j.post[c].move.doc = j.doc
  /\ j.op \in {"finish", "cancel"} =>
       \A c \in DOMAIN j.post : order[j.doc].status = "IN_PROGRESS"

\* A warehouse is under one count at a time.
OneActiveCount ==
  \A k, l \in Counts :
    /\ CountAt[k] = CountAt[l]
    /\ count[k].status \in Active
    /\ count[l].status \in Active
    => k = l

SerialInv == OneActiveCount /\ \A h \in Handlers : StillSo(job[h])

\* Movements are sequences, of whatever.
MovesOK ==
  /\ DOMAIN moves = Cells
  /\ \A c \in Cells : \E V : moves[c] \in Seq(V)

CountInv == SafeInv /\ SerialInv /\ MovesOK

LEMMA SerialBegin ==
  ASSUME CountInv, NEW h \in Handlers, NEW plan, StillSo(plan), Begin(h, plan)
  PROVE  SerialInv'
<1>1. \A g \in Handlers : job'[g] = IF g = h THEN plan ELSE job[g]
  BY DEF CountInv, SafeInv, JobsOK, Begin
<1>2. count' = count /\ order' = order
  BY DEF Begin, docs
<1>3. \A j : StillSo(j) => StillSo(j)'
  BY <1>2 DEF StillSo, Frozen
<1>4. OneActiveCount'
  BY <1>2 DEF CountInv, SerialInv, OneActiveCount
<1>5. \A g \in Handlers : StillSo(job[g])
  BY DEF CountInv, SerialInv
<1>6. \A g \in Handlers : StillSo(job[g])'
  BY <1>1, <1>2, <1>5 DEF StillSo, Frozen
<1> QED BY <1>4, <1>6 DEF SerialInv

(* A warehouse is not locked by those who work on a count.                   *)
LEMMA SerialClerks ==
  ASSUME CountInv, NEW k \in Counts, NEW p, NEW fact,
         SetFact(k, p, fact) \/ Submit(k) \/ Classify(k, p) \/ CancelCount(k)
  PROVE  SerialInv'
<1>1. UNCHANGED <<order, job>>
  BY DEF SetFact, Submit, Classify, CancelCount
<1>2. \A l \in Counts : count'[l].status \in Active => count[l].status \in Active
  <2>1. IsCount(count[k]) /\ DOMAIN count = Counts
    BY DEF CountInv, SafeInv, CountsOK
  <2>2. CASE SetFact(k, p, fact)
    BY <2>1, <2>2 DEF SetFact, IsCount
  <2>3. CASE Submit(k)
    BY <2>1, <2>3 DEF Submit, IsCount, Active
  <2>4. CASE Classify(k, p)
    BY <2>1, <2>4 DEF Classify, IsCount
  <2>5. CASE CancelCount(k)
    BY <2>1, <2>5 DEF CancelCount, Blank, Active
  <2> QED BY <2>2, <2>3, <2>4, <2>5
<1>3. \A w : Frozen(w)' => Frozen(w)
  BY <1>2 DEF Frozen
<1>4. OneActiveCount'
  BY <1>2 DEF CountInv, SerialInv, OneActiveCount
<1>5. \A h \in Handlers : StillSo(job[h])
  BY DEF CountInv, SerialInv
<1>6. \A h \in Handlers : StillSo(job[h])'
  BY <1>1, <1>3, <1>5 DEF StillSo
<1> QED BY <1>4, <1>6 DEF SerialInv

(* When the request in service ends there is none.                           *)
LEMMA SerialEnd ==
  ASSUME CountInv, OneHandler, NEW h \in Handlers, Commit(h) \/ Fail(h)
  PROVE  SerialInv'
<1>1. job' = [job EXCEPT ![h] = Idle]
  <2>1. Commit(h) => Write(h)
    BY DEF Commit, CommitMove, CommitShipment, CommitImport, CommitDraft,
           CommitCounting, CommitCount, CommitOrder, CommitFinish, CommitCancel
  <2>2. Write(h) => job' = [job EXCEPT ![h] = Idle]
    BY DEF Write
  <2> QED BY <2>1, <2>2 DEF Fail
<1>2. \A g \in Handlers : job'[g] = Idle
  BY <1>1 DEF CountInv, SafeInv, JobsOK, OneHandler
<1>3. \A g \in Handlers : StillSo(job[g])'
  <2>1. Idle.op = "idle"
    BY PlanFields DEF Idle
  <2> QED BY <1>2, <2>1 DEF StillSo
<1>4. OneActiveCount'
  <2>1. DOMAIN count = Counts /\ OneActiveCount /\ StillSo(job[h]) /\ PlanOK(job[h])
    BY DEF CountInv, SafeInv, CountsOK, JobsOK, SerialInv
  <2>2. CASE CommitCounting(h)
    <3> DEFINE k == job[h].doc
    <3>1. k \in Counts /\ \A l \in Counts : CountAt[l] = CountAt[k] => count[l].status \notin Active
      BY <2>1, <2>2 DEF CommitCounting, PlanOK, StillSo, Frozen
    <3>2. \A l \in Counts \ {k} : count'[l] = count[l]
      BY <2>1, <2>2, <3>1 DEF CommitCounting
    <3> HIDE DEF k
    <3> QED BY <2>1, <3>1, <3>2 DEF OneActiveCount
  <2>3. CASE CommitCount(h)
    <3>1. \A l \in Counts : count'[l].status \in Active => count'[l] = count[l]
      BY <2>1, <2>3 DEF CommitCount, Blank, Active
    <3> QED BY <2>1, <3>1 DEF OneActiveCount
  <2>4. CASE ~CommitCounting(h) /\ ~CommitCount(h)
    <3>1. UNCHANGED count
      BY <2>4 DEF Commit, CommitMove, CommitShipment, CommitImport, CommitDraft,
                  CommitOrder, CommitFinish, CommitCancel, Fail, docs
    <3> QED BY <2>1, <3>1 DEF OneActiveCount
  <2> QED BY <2>2, <2>3, <2>4
<1> QED BY <1>3, <1>4 DEF SerialInv

--------------------------------------------------------------------------------
(* Whoever makes a plan has looked at what StillSo says.                     *)
LEMMA SerialRequests ==
  ASSUME CountInv, NEW h \in Handlers
  PROVE  /\ \A c \in Cells : \A q, price, d :
              \/ Receive(h, c, q, d) \/ AdjustIn(h, c, q, price) \/ AdjustOut(h, c, q)
              \/ Import(h, c, q, price)
              => SerialInv'
         /\ \A i \in Invoices : \A w, d : Ship(h, i, w, d) => SerialInv'
         /\ \A n \in Drafts : \A price : PostDraft(h, n, price) => SerialInv'
         /\ \A k \in Counts : StartCounting(h, k) => SerialInv'
         /\ \A w : Release(h, w) => SerialInv'
<1>1. ASSUME NEW op \in {"move", "ship", "import"}, NEW doc, NEW c, ~Frozen(c[1]),
             NEW p, NEW s, NEW w
      PROVE  StillSo(Plan(op, doc, One(c, p), s, w))
  <2> DEFINE plan == Plan(op, doc, One(c, p), s, w)
  <2>1. plan.op = op /\ plan.post = One(c, p)
    BY PlanFields
  <2> HIDE DEF plan
  <2>2. DOMAIN plan.post = {c}
    BY <2>1, OneCell
  <2>3. StillSo(plan)
    BY <1>1, <2>1, <2>2 DEF StillSo
  <2> QED BY <2>3 DEF plan
<1>2. ASSUME NEW c \in Cells, NEW q, NEW price, NEW d,
             \/ Receive(h, c, q, d) \/ AdjustIn(h, c, q, price) \/ AdjustOut(h, c, q)
             \/ Import(h, c, q, price)
      PROVE  SerialInv'
  <2>1. CASE Receive(h, c, q, d)
    BY <1>1, <2>1, SerialBegin DEF Receive
  <2>2. CASE AdjustIn(h, c, q, price)
    BY <1>1, <2>2, SerialBegin DEF AdjustIn
  <2>3. CASE AdjustOut(h, c, q)
    BY <1>1, <2>3, SerialBegin DEF AdjustOut
  <2>4. CASE Import(h, c, q, price)
    <3> DEFINE plan == Plan("import", NoDoc, One(c, In(c, q, price, Today, NoDoc)), q * price, 0)
               version == <<c, Len(moves[c]), opening>>
    <3>1. StillSo(plan)
      BY <1>1, <2>4 DEF Import
    <3>2. Begin(h, [plan EXCEPT !.version = version])
      BY <2>4 DEF Import
    <3>3. StillSo([plan EXCEPT !.version = version])
      <4>1. /\ [plan EXCEPT !.version = version].op = plan.op
            /\ [plan EXCEPT !.version = version].doc = plan.doc
            /\ [plan EXCEPT !.version = version].post = plan.post
        BY DEF Plan
      <4> HIDE DEF plan, version
      <4> QED BY <3>1, <4>1 DEF StillSo
    <3> QED BY <3>2, <3>3, SerialBegin
  <2> QED BY <1>2, <2>1, <2>2, <2>3, <2>4
<1>3. ASSUME NEW i \in Invoices, NEW w, NEW d, Ship(h, i, w, d) PROVE SerialInv'
  <2>1. ~Frozen(<<w, Goods>>[1])
    BY <1>3 DEF Ship
  <2> QED BY <1>1, <1>3, <2>1, SerialBegin DEF Ship
<1>4. ASSUME NEW n \in Drafts, NEW price, PostDraft(h, n, price) PROVE SerialInv'
  <2> DEFINE c == DraftCell[n]
             delta == draft[n].actual - item[c]
             post == [x \in {c} \ {y \in {c} : delta = 0}
                        |-> Correction(c, delta, price, DraftDate[n], n)]
             plan == Plan("post", n, post, CorrectionCost(c, delta, price), 0)
  <2>1. Begin(h, plan) /\ ~Frozen(c[1])
    BY <1>4 DEF PostDraft
  <2>2. DOMAIN post \subseteq {c}
    OBVIOUS
  <2>3. plan.op = "post" /\ plan.post = post
    BY PlanFields
  <2>4. StillSo(plan)
    <3> HIDE DEF plan, post
    <3> QED BY <2>1, <2>2, <2>3 DEF StillSo
  <2> HIDE DEF plan
  <2> QED BY <2>1, <2>4, SerialBegin
<1>5. ASSUME NEW k \in Counts, StartCounting(h, k) PROVE SerialInv'
  <2>1. StillSo(Plan("start", k, <<>>, 0, 0))
    BY <1>5, PlanFields DEF StartCounting, StillSo
  <2> QED BY <1>5, <2>1, SerialBegin DEF StartCounting
<1>6. ASSUME NEW w, Release(h, w) PROVE SerialInv'
  <2> DEFINE c == <<w, Goods>>
             made == <<w, Made>>
             post == [x \in {c, made} |->
                        IF x = c THEN Out(c, 1, Today, NoDoc)
                        ELSE In(made, 1, IssueCost(c, 1), Today, NoDoc)]
             plan == Plan("move", NoDoc, post, 0, 0)
  <2>1. Begin(h, plan) /\ ~Frozen(w)
    BY <1>6 DEF Release
  <2>2. \A x \in DOMAIN post : x[1] = w
    OBVIOUS
  <2>3. plan.op = "move" /\ plan.post = post
    BY PlanFields
  <2>4. StillSo(plan)
    <3> HIDE DEF plan, post
    <3> QED BY <2>1, <2>2, <2>3 DEF StillSo
  <2> HIDE DEF plan
  <2> QED BY <2>1, <2>4, SerialBegin
<1> QED BY <1>2, <1>3, <1>4, <1>5, <1>6

LEMMA SerialTransfer ==
  ASSUME CountInv, NEW h \in Handlers, NEW c \in Cells, NEW w, NEW d, Transfer(h, c, w, d)
  PROVE  SerialInv'
<1> DEFINE to == <<w, c[2]>>
           post == [x \in {c, to} |-> IF x = c THEN Out(c, 1, d, NoDoc)
                                      ELSE In(to, 1, IssueCost(c, 1), d, NoDoc)]
           plan == Plan("move", NoDoc, post, 0, 0)
<1>1. Begin(h, plan) /\ ~Frozen(c[1]) /\ ~Frozen(w)
  BY DEF Transfer
<1>2. \A x \in DOMAIN post : x = c \/ x[1] = w
  OBVIOUS
<1>3. plan.op = "move" /\ plan.post = post
  BY PlanFields
<1>4. StillSo(plan)
  <2> HIDE DEF plan, post
  <2> QED BY <1>1, <1>2, <1>3 DEF StillSo
<1> HIDE DEF plan
<1> QED BY <1>1, <1>4, SerialBegin

LEMMA SerialComplete ==
  ASSUME CountInv, NEW h \in Handlers, NEW k \in Counts, NEW price, Complete(h, k, price)
  PROVE  SerialInv'
<1> DEFINE post == [c \in Corrected(k) |->
                      Correction(c, Delta(k, c[2]), price, CountDate[k], k)]
           cost == MapThenSumSet(LAMBDA c : CorrectionCost(c, Delta(k, c[2]), price),
                                 Corrected(k))
           plan == Plan("complete", k, post, cost, 0)
<1>1. Begin(h, plan)
  BY DEF Complete
<1>2. \A c \in DOMAIN post : post[c].move.doc = k
  BY DEF Correction, In, Out
<1>3. plan.op = "complete" /\ plan.post = post /\ plan.doc = k
  BY PlanFields
<1>4. StillSo(plan)
  <2> HIDE DEF plan, post
  <2> QED BY <1>2, <1>3 DEF StillSo
<1> HIDE DEF plan
<1> QED BY <1>1, <1>4, SerialBegin

LEMMA SerialProduction ==
  ASSUME CountInv, NEW h \in Handlers, NEW o \in Orders,
         StartOrder(h, o) \/ FinishOrder(h, o) \/ CancelOrder(h, o)
  PROVE  SerialInv'
<1> DEFINE c == <<OrderAt[o], Goods>>
           made == <<OrderAt[o], Made>>
           cost == order[o].cost
<1>1. ASSUME NEW op \in {"order", "finish", "cancel"}, NEW x, NEW p, NEW s, NEW w,
             p.move.doc = o,
             op = "order" => ~Frozen(x[1]),
             op # "order" => order[o].status = "IN_PROGRESS"
      PROVE  StillSo(Plan(op, o, One(x, p), s, w))
  <2> DEFINE plan == Plan(op, o, One(x, p), s, w)
  <2>1. plan.op = op /\ plan.doc = o /\ plan.post = One(x, p)
    BY PlanFields
  <2> HIDE DEF plan
  <2>2. DOMAIN plan.post = {x} /\ plan.post[x] = p
    BY <2>1, OneCell
  <2>3. StillSo(plan)
    BY <1>1, <2>1, <2>2 DEF StillSo
  <2> QED BY <2>3 DEF plan
<1>2. CASE StartOrder(h, o)
  <2>1. Out(c, 1, Today, o).move.doc = o /\ ~Frozen(c[1])
    BY <1>2, OutFields DEF StartOrder
  <2>2. StillSo(Plan("order", o, One(c, Out(c, 1, Today, o)), -IssueCost(c, 1), IssueCost(c, 1)))
    BY <1>1, <2>1
  <2> QED BY <1>2, <2>2, SerialBegin DEF StartOrder
<1>3. CASE FinishOrder(h, o)
  <2>1. In(made, 1, cost, Today, o).move.doc = o /\ order[o].status = "IN_PROGRESS"
    BY <1>3, InFields DEF FinishOrder
  <2>2. StillSo(Plan("finish", o, One(made, In(made, 1, cost, Today, o)), cost, -cost))
    BY <1>1, <2>1
  <2> QED BY <1>3, <2>2, SerialBegin DEF FinishOrder
<1>4. CASE CancelOrder(h, o)
  <2>1. In(c, 1, cost, Today, o).move.doc = o
    BY InFields
  <2>2. order[o].status = "IN_PROGRESS"
        => StillSo(Plan("cancel", o, One(c, In(c, 1, cost, Today, o)), cost, -cost))
    BY <1>1, <2>1
  <2>3. StillSo(Plan("cancel", o, <<>>, 0, 0))
    BY PlanFields DEF StillSo
  <2> QED BY <1>4, <2>2, <2>3, SerialBegin DEF CancelOrder
<1> QED BY <1>2, <1>3, <1>4

--------------------------------------------------------------------------------
(* Movements                                                                *)

LEMMA AppendLast ==
  ASSUME NEW V, NEW s \in Seq(V), NEW x
  PROVE  /\ Append(s, x) \in Seq(V \cup {x})
         /\ Append(s, x)[Len(Append(s, x))] = x
<1>1. s \in Seq(V \cup {x}) /\ x \in V \cup {x}
  OBVIOUS
<1> QED BY <1>1, AppendProperties

(* A commit appends the movements of its plan.                               *)
LEMMA WriteMoves ==
  ASSUME MovesOK, NEW h, Write(h)
  PROVE  /\ MovesOK'
         /\ \A c \in Cells : moves'[c] # moves[c] =>
              /\ c \in DOMAIN job[h].post
              /\ moves'[c][Len(moves'[c])] = job[h].post[c].move
<1>1. \A c \in Cells : moves'[c] = IF c \in DOMAIN job[h].post
                                  THEN Append(moves[c], job[h].post[c].move) ELSE moves[c]
  BY DEF Write
<1>2. ASSUME NEW c \in Cells
      PROVE  /\ \E V : moves'[c] \in Seq(V)
             /\ c \in DOMAIN job[h].post
                  => moves'[c][Len(moves'[c])] = job[h].post[c].move
  <2>1. PICK V : moves[c] \in Seq(V)
    BY DEF MovesOK
  <2>2. CASE c \in DOMAIN job[h].post
    <3> DEFINE x == job[h].post[c].move
    <3>1. moves'[c] = Append(moves[c], x)
      BY <1>1, <2>2
    <3> HIDE DEF x
    <3>2. moves'[c] \in Seq(V \cup {x}) /\ moves'[c][Len(moves'[c])] = x
      BY <2>1, <3>1, AppendLast
    <3> QED BY <3>2 DEF x
  <2>3. CASE c \notin DOMAIN job[h].post
    BY <1>1, <2>1, <2>3
  <2> QED BY <2>2, <2>3
<1>3. DOMAIN moves' = Cells
  BY DEF Write
<1> QED BY <1>1, <1>2, <1>3 DEF MovesOK

(* Every step but a commit leaves stock and its movements alone.             *)
LEMMA OnlyCommitsMove ==
  ASSUME [Next]_vars, ~(\E h \in Handlers : Commit(h))
  PROVE  UNCHANGED stock
<1>1. ASSUME NEW h, NEW plan, Begin(h, plan) PROVE UNCHANGED stock
  BY <1>1 DEF Begin
<1>2. \A h : /\ \A c, q, d : Receive(h, c, q, d) => UNCHANGED stock
             /\ \A c, q, price : AdjustIn(h, c, q, price) => UNCHANGED stock
             /\ \A c, q, price : Import(h, c, q, price) => UNCHANGED stock
             /\ \A c, q : AdjustOut(h, c, q) => UNCHANGED stock
             /\ \A c, w, d : Transfer(h, c, w, d) => UNCHANGED stock
             /\ \A i, w, d : Ship(h, i, w, d) => UNCHANGED stock
  BY <1>1 DEF Receive, AdjustIn, Import, AdjustOut, Transfer, Ship
<1>3. \A h : /\ \A n, price : PostDraft(h, n, price) => UNCHANGED stock
             /\ \A k : StartCounting(h, k) => UNCHANGED stock
             /\ \A k, price : Complete(h, k, price) => UNCHANGED stock
             /\ \A o : StartOrder(h, o) \/ FinishOrder(h, o) \/ CancelOrder(h, o) => UNCHANGED stock
             /\ \A w : Release(h, w) => UNCHANGED stock
             /\ Fail(h) => UNCHANGED stock
  BY <1>1 DEF PostDraft, StartCounting, Complete, StartOrder, FinishOrder, CancelOrder,
              Release, Fail
<1>4. /\ \A n, type, actual : CreateDraft(n, type, actual) => UNCHANGED stock
      /\ \A k, p, fact : SetFact(k, p, fact) => UNCHANGED stock
      /\ \A k, p : Classify(k, p) => UNCHANGED stock
      /\ \A k : Submit(k) \/ CancelCount(k) => UNCHANGED stock
  BY DEF CreateDraft, SetFact, Classify, Submit, CancelCount
<1>5. UNCHANGED vars => UNCHANGED stock
  BY DEF vars, stock
<1> QED BY <1>2, <1>3, <1>4, <1>5 DEF Next

LEMMA CommitWrites ==
  ASSUME NEW h, Commit(h)
  PROVE  Write(h)
BY DEF Commit, CommitMove, CommitShipment, CommitImport, CommitDraft, CommitCounting,
       CommitCount, CommitOrder, CommitFinish, CommitCancel

LEMMA CountInit == Init => CountInv
<1> SUFFICES ASSUME Init PROVE CountInv
  OBVIOUS
<1>1. OneActiveCount
  BY DEF Init, OneActiveCount, Blank, Active
<1>2. \A h \in Handlers : StillSo(job[h])
  <2>1. Idle.op = "idle"
    BY PlanFields DEF Idle
  <2> QED BY <2>1 DEF Init, StillSo
<1>3. MovesOK
  <2>1. <<>> \in Seq({})
    OBVIOUS
  <2> QED BY <2>1 DEF Init, MovesOK
<1> QED BY SafeInit, <1>1, <1>2, <1>3 DEF CountInv, SerialInv

LEMMA SerialNext ==
  ASSUME CountInv, OneHandler, [Next]_vars
  PROVE  SerialInv'
<1>1. ASSUME NEW h \in Handlers, NEW c \in Entry, NEW q \in Lots
      PROVE  /\ \A d : Receive(h, c, q, d) => SerialInv'
             /\ \A price : AdjustIn(h, c, q, price) => SerialInv'
             /\ \A price : Import(h, c, q, price) => SerialInv'
             /\ AdjustOut(h, c, q) => SerialInv'
  <2>1. c \in Cells
    BY NumbersAssumption
  <2> QED BY <2>1, SerialRequests
<1>2. ASSUME UNCHANGED vars PROVE SerialInv'
  BY <1>2 DEF vars, stock, docs, CountInv, SerialInv, OneActiveCount, StillSo, Frozen
<1>3. ASSUME NEW h \in Handlers, NEW c \in Cells, NEW w, NEW d, Transfer(h, c, w, d)
      PROVE  SerialInv'
  BY <1>3, SerialTransfer
<1>4. ASSUME NEW h \in Handlers, NEW i \in Invoices, NEW w, NEW d, Ship(h, i, w, d)
      PROVE  SerialInv'
  BY <1>4, SerialRequests
<1>5. ASSUME NEW n, NEW type, NEW actual, CreateDraft(n, type, actual)
      PROVE  SerialInv'
  BY <1>5 DEF CreateDraft, stock, CountInv, SerialInv, OneActiveCount, StillSo, Frozen
<1>6. ASSUME NEW h \in Handlers, NEW n \in Drafts, NEW price, PostDraft(h, n, price)
      PROVE  SerialInv'
  BY <1>6, SerialRequests
<1>7. ASSUME NEW h \in Handlers, NEW k \in Counts
      PROVE  /\ StartCounting(h, k) => SerialInv'
             /\ \A price : Complete(h, k, price) => SerialInv'
  BY SerialRequests, SerialComplete
<1>8. ASSUME NEW k \in Counts
      PROVE  /\ \A p, fact : SetFact(k, p, fact) => SerialInv'
             /\ Submit(k) \/ CancelCount(k) => SerialInv'
             /\ \A p : Classify(k, p) => SerialInv'
  BY SerialClerks
<1>9. ASSUME NEW h \in Handlers, NEW o \in Orders,
             StartOrder(h, o) \/ FinishOrder(h, o) \/ CancelOrder(h, o)
      PROVE  SerialInv'
  BY <1>9, SerialProduction
<1>10. ASSUME NEW h \in Handlers, NEW w, Release(h, w)
       PROVE  SerialInv'
  BY <1>10, SerialRequests
<1>11. ASSUME NEW h \in Handlers, Commit(h) \/ Fail(h)
       PROVE  SerialInv'
  BY <1>11, SerialEnd
<1> QED BY <1>1, <1>2, <1>3, <1>4, <1>5, <1>6, <1>7, <1>8, <1>9, <1>10, <1>11 DEF Next

LEMMA CountNext ==
  ASSUME OneHandler
  PROVE  CountInv /\ [Next]_vars => CountInv'
<1> SUFFICES ASSUME CountInv, [Next]_vars PROVE CountInv'
  OBVIOUS
<1>1. SafeInv' /\ SerialInv'
  BY SafeNext, SerialNext DEF CountInv
<1>2. MovesOK'
  <2>1. CASE \E h \in Handlers : Commit(h)
    BY <2>1, CommitWrites, WriteMoves DEF CountInv
  <2>2. CASE ~(\E h \in Handlers : Commit(h))
    <3>1. UNCHANGED moves
      BY <2>2, OnlyCommitsMove DEF stock
    <3> QED BY <3>1 DEF CountInv, MovesOK
  <2> QED BY <2>1, <2>2
<1> QED BY <1>1, <1>2 DEF CountInv

MovedBy(doc) ==
  \/ doc \in Counts /\ count'[doc].status = "COMPLETED"
  \/ doc \in Orders /\ order[doc].status = "IN_PROGRESS"

LEMMA CountedStockStep ==
  ASSUME CountInv, [Next]_vars, NEW c \in Cells, Frozen(c[1]), moves'[c] # moves[c]
  PROVE  MovedBy(moves'[c][Len(moves'[c])].doc)
<1>1. PICK h \in Handlers : Commit(h)
  BY OnlyCommitsMove DEF stock
<1> DEFINE j == job[h]
           last == moves'[c][Len(moves'[c])]
<1>2. c \in DOMAIN j.post /\ last = j.post[c].move
  BY <1>1, CommitWrites, WriteMoves DEF CountInv
<1>3. StillSo(j) /\ PlanOK(j) /\ DOMAIN count = Counts
  BY DEF CountInv, SerialInv, SafeInv, JobsOK, CountsOK
<1>4. j.op \notin {"move", "import", "ship", "post", "order"}
  BY <1>2, <1>3 DEF StillSo
<1>5. CASE j.op = "start"
  \* The warehouse is not locked when a count of it begins, and a plan to
  \* begin it moves nothing.
  BY <1>2, <1>3, <1>5 DEF PlanOK
<1>6. CASE j.op = "complete"
  <2>1. CommitCount(h)
    BY <1>1, <1>6 DEF Commit, CommitMove, CommitShipment, CommitImport, CommitDraft,
                      CommitCounting, CommitOrder, CommitFinish, CommitCancel
  <2>2. last.doc = j.doc /\ j.doc \in Counts
    BY <1>2, <1>3, <1>6 DEF StillSo, PlanOK
  <2>3. count'[j.doc].status = "COMPLETED"
    BY <1>3, <2>1, <2>2 DEF CommitCount, Blank
  <2> HIDE DEF j, last
  <2> QED BY <2>2, <2>3 DEF MovedBy, last
<1>7. CASE j.op \in {"finish", "cancel"}
  <2>1. last.doc = j.doc /\ j.doc \in Orders /\ order[j.doc].status = "IN_PROGRESS"
    BY <1>2, <1>3, <1>7 DEF StillSo, PlanOK
  <2> HIDE DEF j, last
  <2> QED BY <2>1 DEF MovedBy, last
<1>8. j.op \in {"move", "import", "ship", "post", "order", "start", "complete", "finish", "cancel"}
  BY <1>1 DEF Commit, CommitMove, CommitShipment, CommitImport, CommitDraft,
              CommitCounting, CommitCount, CommitOrder, CommitFinish, CommitCancel
<1> QED BY <1>4, <1>5, <1>6, <1>7, <1>8

(* One request at a time: the stock of a warehouse that is being counted is  *)
(* moved by the count's end and by orders in production, which do not ask     *)
(* (assertWarehouseNotUnderReconciliation), and by nothing else.              *)
THEOREM SerialOnlyProductionMovesCountedStock ==
  ASSUME OneHandler
  PROVE  Spec => OnlyProductionMovesCountedStock
<1> DEFINE Rests ==
      \A c \in Cells :
        Frozen(c[1]) /\ moves'[c] # moves[c] =>
          LET doc == moves'[c][Len(moves'[c])].doc IN
            \/ doc \in Counts /\ count'[doc].status = "COMPLETED"
            \/ doc \in Orders /\ order[doc].status = "IN_PROGRESS"
<1>1. CountInv /\ [Next]_vars => [Rests]_vars
  BY CountedStockStep DEF MovedBy
<1> QED BY CountInit, CountNext, <1>1, PTL DEF Spec, OnlyProductionMovesCountedStock

--------------------------------------------------------------------------------
(* What movements add up to.  Net is a fold over a sequence, from its last *)
(* element: the sum of the signed quantities.                              *)

IsMovement(m) == m.in \in BOOLEAN /\ m.qty \in Nat

Signed(m) == IF m.in THEN m.qty ELSE -m.qty

Movements(ms) ==
  /\ \E V : ms \in Seq(V)
  /\ \A i \in DOMAIN ms : IsMovement(ms[i])

SignedQuantities(ms) == [i \in DOMAIN ms |-> Signed(ms[i])]

LEMMA SignedType ==
  ASSUME NEW m, IsMovement(m)
  PROVE  Signed(m) \in Int
BY DEF IsMovement, Signed

LEMMA QuantitiesAreValues ==
  ASSUME NEW ms, Movements(ms)
  PROVE  /\ Values(SignedQuantities(ms), DOMAIN ms)
         /\ IsFiniteSet(DOMAIN ms) /\ DOMAIN ms \subseteq Nat
         /\ Len(ms) \in Nat /\ DOMAIN ms = 1..Len(ms)
<1>1. DOMAIN ms = 1..Len(ms) /\ Len(ms) \in Nat
  BY DEF Movements
<1>2. IsFiniteSet(1..Len(ms))
  BY <1>1, FS_Interval
<1>3. Values(SignedQuantities(ms), DOMAIN ms)
  BY SignedType DEF Values, SignedQuantities, Movements
<1> QED BY <1>1, <1>2, <1>3

(* The greatest of some positions is one of them.                            *)
LEMMA GreatestIsPicked ==
  ASSUME NEW n \in Nat, NEW s \in SUBSET (1..n), s # {}
  PROVE  Max(s) \in s
<1> DEFINE T == {n - i : i \in s}
<1>1. T \in SUBSET Nat /\ T # {}
  <2>1. \A i \in s : n - i \in Nat
    OBVIOUS
  <2>2. PICK i \in s : TRUE
    OBVIOUS
  <2> QED BY <2>1, <2>2
<1>2. PICK m \in T : \A k \in T : m <= k
  <2> HIDE DEF T
  <2> QED BY <1>1, SmallestNumber
<1>3. PICK x \in s : m = n - x
  OBVIOUS
<1>4. \A y \in s : x >= y
  <2> TAKE y \in s
  <2>1. n - y \in T
    OBVIOUS
  <2>2. n - x <= n - y
    BY <1>2, <1>3, <2>1
  <2>3. x \in Nat /\ y \in Nat
    OBVIOUS
  <2> QED BY <2>2, <2>3
<1>5. \E z \in s : \A y \in s : z >= y
  BY <1>4
<1> QED BY <1>5 DEF Max

LEMMA NetIsSum ==
  ASSUME NEW ms, Movements(ms)
  PROVE  Net(ms) = SumOn(SignedQuantities(ms), DOMAIN ms)
<1> DEFINE D == DOMAIN ms
           v == SignedQuantities(ms)
           pick == [s \in SUBSET D |-> Max(s)]
           Eq(H) == H = [s \in SUBSET D |->
                           IF s = {} THEN 0
                           ELSE IF ms[Max(s)].in
                                THEN H[s \ {Max(s)}] + ms[Max(s)].qty
                                ELSE H[s \ {Max(s)}] - ms[Max(s)].qty]
<1>1. IsFiniteSet(D) /\ Values(v, D)
  BY QuantitiesAreValues
<1>2. Picks(pick, D) /\ \A s \in SUBSET D : pick[s] = Max(s)
  BY QuantitiesAreValues, GreatestIsPicked DEF Picks
<1> HIDE DEF pick
<1>3. PICK G \in [SUBSET D -> Int] : \A s \in SUBSET D : Step(G, 0, v, pick, s)
  <2>1. HasSteps(0, v, pick, D)
    <3> HIDE DEF D, v
    <3> QED BY <1>1, <1>2, RecursionExists
  <2> HIDE DEF D, v
  <2> QED BY <2>1 DEF HasSteps
<1>4. \A s \in SUBSET D : s # {} =>
        /\ Max(s) \in D /\ IsMovement(ms[Max(s)])
        /\ v[Max(s)] = Signed(ms[Max(s)])
  BY <1>2 DEF Picks, Movements, SignedQuantities
<1>5. Eq(G)
  <2>1. ASSUME NEW s \in SUBSET D, s # {}
        PROVE  G[s] = IF ms[Max(s)].in THEN G[s \ {Max(s)}] + ms[Max(s)].qty
                                       ELSE G[s \ {Max(s)}] - ms[Max(s)].qty
    <3> DEFINE g == G[s \ {Max(s)}]
               m == ms[Max(s)]
    <3>1. G[s] = Signed(m) + g /\ g \in Int /\ IsMovement(m)
      <4>1. s \ {Max(s)} \in SUBSET D
        OBVIOUS
      <4>2. v[Max(s)] = Signed(m) /\ IsMovement(m)
        BY <1>4, <2>1
      <4> HIDE DEF v
      <4> QED BY <1>2, <1>3, <2>1, <4>1, <4>2 DEF Step
    <3> HIDE DEF g, m
    <3>2. G[s] = IF m.in THEN g + m.qty ELSE g - m.qty
      BY <3>1 DEF Signed, IsMovement
    <3> QED BY <3>2 DEF g, m
  <2>2. G[{}] = 0
    BY <1>3 DEF Step
  <2> HIDE DEF D
  <2> QED BY <2>1, <2>2
<1>6. PICK H : Eq(H) /\ Net(ms) = H[D]
  BY <1>5 DEF Net, FoldLeft, MapThenFoldSet
<1> DEFINE Bad == {s \in SUBSET D : H[s] # G[s]}
<1>7. Bad = {}
  <2> SUFFICES ASSUME Bad # {} PROVE FALSE
    OBVIOUS
  <2>1. PICK s \in Bad : \A t \in Bad : t \subseteq s => t = s
    <3>1. Bad \in SUBSET (SUBSET D)
      OBVIOUS
    <3> HIDE DEF Bad, D
    <3> QED BY <1>1, <3>1, SmallestSet
  <2>2. s # {}
    <3> HIDE DEF D
    <3>1. H[{}] = 0 /\ G[{}] = 0
      BY <1>5, <1>6
    <3> QED BY <3>1
  <2>3. Max(s) \in s
    BY <2>2, <1>2 DEF Picks
  <2> HIDE DEF D
  <2>4. H[s \ {Max(s)}] = G[s \ {Max(s)}]
    <3>1. s \ {Max(s)} \notin Bad
      BY <2>1, <2>3
    <3> QED BY <3>1
  <2>5. H[s] = IF ms[Max(s)].in THEN H[s \ {Max(s)}] + ms[Max(s)].qty
                               ELSE H[s \ {Max(s)}] - ms[Max(s)].qty
    BY <1>6, <2>2, Zenon
  <2>6. G[s] = IF ms[Max(s)].in THEN G[s \ {Max(s)}] + ms[Max(s)].qty
                               ELSE G[s \ {Max(s)}] - ms[Max(s)].qty
    BY <1>5, <2>2, Zenon
  <2> QED BY <2>4, <2>5, <2>6
<1>8. Net(ms) = G[D]
  BY <1>6, <1>7
<1>9. G[D] = 0 + SumOn(v, D)
  <2> HIDE DEF D, v
  <2> QED BY <1>1, <1>2, <1>3, RecursionIsSum
<1>10. SumOn(v, D) \in Int
  BY <1>1, SumType
<1>11. Net(ms) = SumOn(v, D)
  <2> HIDE DEF D, v
  <2> QED BY <1>8, <1>9, <1>10
<1> QED BY <1>11

LEMMA NetType ==
  ASSUME NEW ms, Movements(ms)
  PROVE  Net(ms) \in Int
<1>1. SumOn(SignedQuantities(ms), DOMAIN ms) \in Int
  BY QuantitiesAreValues, SumType
<1> QED BY <1>1, NetIsSum

LEMMA NetEmpty == Movements(<<>>) /\ Net(<<>>) = 0
<1>1. Movements(<<>>)
  BY DEF Movements
<1>2. DOMAIN <<>> = {}
  OBVIOUS
<1>3. SumOn(SignedQuantities(<<>>), {}) = 0
  BY SumEmpty
<1> QED BY <1>1, <1>2, <1>3, NetIsSum

LEMMA AppendedMovements ==
  ASSUME NEW ms, Movements(ms), NEW m, IsMovement(m)
  PROVE  /\ Movements(Append(ms, m))
         /\ Len(Append(ms, m)) = Len(ms) + 1
         /\ \A i \in 1..Len(ms) : Append(ms, m)[i] = ms[i]
         /\ Append(ms, m)[Len(ms) + 1] = m
<1>1. PICK V : ms \in Seq(V)
  BY DEF Movements
<1> DEFINE W == V \cup {m}
<1>2. ms \in Seq(W) /\ m \in W
  <2>1. V \subseteq W
    OBVIOUS
  <2> QED BY <1>1, <2>1
<1>3. /\ Append(ms, m) \in Seq(W)
      /\ Len(Append(ms, m)) = Len(ms) + 1
      /\ \A i \in 1..Len(ms) : Append(ms, m)[i] = ms[i]
      /\ Append(ms, m)[Len(ms) + 1] = m
      /\ Len(ms) \in Nat /\ DOMAIN ms = 1..Len(ms)
      /\ DOMAIN Append(ms, m) = 1..(Len(ms) + 1)
  <2> HIDE DEF W
  <2> QED BY <1>2
<1>4. \A i \in DOMAIN Append(ms, m) : IsMovement(Append(ms, m)[i])
  <2> SUFFICES ASSUME NEW i \in 1..(Len(ms) + 1) PROVE IsMovement(Append(ms, m)[i])
    BY <1>3
  <2>1. CASE i = Len(ms) + 1
    BY <1>3, <2>1
  <2>2. CASE i # Len(ms) + 1
    <3>1. i \in DOMAIN ms
      BY <1>3, <2>2
    <3> QED BY <1>3, <3>1 DEF Movements
  <2> QED BY <2>1, <2>2
<1> QED BY <1>3, <1>4 DEF Movements

LEMMA NetAppend ==
  ASSUME NEW ms, Movements(ms), NEW m, IsMovement(m)
  PROVE  Net(Append(ms, m)) = Net(ms) + Signed(m)
<1> DEFINE n == Len(ms)
           as == Append(ms, m)
           v == SignedQuantities(ms)
           w == SignedQuantities(as)
<1>1. /\ Movements(as) /\ Len(as) = n + 1
      /\ \A i \in 1..n : as[i] = ms[i]
      /\ as[n + 1] = m
  BY AppendedMovements
<1> HIDE DEF as
<1>2. /\ Values(v, DOMAIN ms) /\ IsFiniteSet(DOMAIN ms) /\ DOMAIN ms = 1..n /\ n \in Nat
      /\ Values(w, DOMAIN as) /\ IsFiniteSet(DOMAIN as) /\ DOMAIN as = 1..(n + 1)
  BY <1>1, QuantitiesAreValues
<1>3. (1..(n + 1)) \ {n + 1} = 1..n /\ n + 1 \in 1..(n + 1)
  BY <1>2
<1>4. w[n + 1] = Signed(m) /\ \A i \in 1..n : w[i] = v[i]
  BY <1>1, <1>2, <1>3 DEF SignedQuantities
<1> HIDE DEF v, w, n
<1>5. SumOn(w, DOMAIN as) = Signed(m) + SumOn(w, DOMAIN ms)
  BY <1>2, <1>3, <1>4, SumRemove
<1>6. SumOn(w, DOMAIN ms) = SumOn(v, DOMAIN ms)
  BY <1>2, <1>4, SumSame
<1>7. Net(as) = SumOn(w, DOMAIN as) /\ Net(ms) = SumOn(v, DOMAIN ms)
  BY <1>1, NetIsSum DEF v, w
<1>8. SumOn(v, DOMAIN ms) \in Int /\ Signed(m) \in Int
  BY <1>2, SumType, SignedType
<1>9. Net(as) = Net(ms) + Signed(m)
  <2> DEFINE old == SumOn(v, DOMAIN ms)
             new == SumOn(w, DOMAIN as)
             by == Signed(m)
  <2>1. new = by + old /\ old \in Int /\ by \in Int
    BY <1>5, <1>6, <1>8
  <2> HIDE DEF old, new, by
  <2>2. new = old + by
    BY <2>1
  <2> QED BY <1>7, <2>2 DEF old, new, by
<1> QED BY <1>9 DEF as

(* The movements since one of them.                                         *)
IsTail(t, ms, k) ==
  /\ Movements(t)
  /\ Len(t) = Len(ms) - k
  /\ \A i \in 1..(Len(ms) - k) : t[i] = ms[k + i]

LEMMA TailMovements ==
  ASSUME NEW ms, Movements(ms), NEW k \in Nat, k <= Len(ms)
  PROVE  IsTail(SubSeq(ms, k + 1, Len(ms)), ms, k)
<1>1. PICK V : ms \in Seq(V)
  BY DEF Movements
<1> DEFINE n == Len(ms)
           t == SubSeq(ms, k + 1, n)
<1>2. n \in Nat /\ DOMAIN ms = 1..n
  BY <1>1
<1>3. t = [i \in 1..(n - k) |-> ms[k + i]]
  <2>1. 1..((n - (k + 1)) + 1) = 1..(n - k)
    BY <1>2
  <2>2. \A i \in 1..(n - k) : (k + 1) + i - 1 = k + i
    BY <1>2
  <2>3. t = [i \in 1..((n - (k + 1)) + 1) |-> ms[(k + 1) + i - 1]]
    BY SMT
  <2> QED BY <2>1, <2>2, <2>3
<1>4. \A i \in 1..(n - k) : k + i \in DOMAIN ms
  BY <1>2
<1>5. n - k \in Nat
  BY <1>2
<1>6. t \in Seq(V) /\ Len(t) = n - k
  <2>1. t \in [1..(n - k) -> V]
    <3>1. \A i \in 1..(n - k) : ms[k + i] \in V
      BY <1>1, <1>4
    <3> HIDE DEF t, n
    <3> QED BY <1>3, <3>1
  <2> HIDE DEF t, n
  <2> QED BY <1>5, <2>1
<1>7. \A i \in DOMAIN t : IsMovement(t[i])
  BY <1>3, <1>4 DEF Movements
<1>8. Movements(t)
  BY <1>6, <1>7 DEF Movements
<1> QED BY <1>3, <1>6, <1>8 DEF IsTail

LEMMA TailAppend ==
  ASSUME NEW ms, Movements(ms), NEW m, IsMovement(m), NEW k \in Nat, k <= Len(ms)
  PROVE  Net(SubSeq(Append(ms, m), k + 1, Len(Append(ms, m))))
           = Net(SubSeq(ms, k + 1, Len(ms))) + Signed(m)
<1> DEFINE n == Len(ms)
           as == Append(ms, m)
           t == SubSeq(ms, k + 1, Len(ms))
           u == SubSeq(as, k + 1, Len(as))
<1>1. /\ Movements(as) /\ Len(as) = n + 1
      /\ \A i \in 1..n : as[i] = ms[i]
      /\ as[n + 1] = m
  BY AppendedMovements
<1>2. n \in Nat /\ k <= n
  BY QuantitiesAreValues
<1>3. IsTail(t, ms, k)
  BY TailMovements
<1>4. IsTail(u, as, k)
  <2>1. k <= Len(as)
    BY <1>1, <1>2
  <2> HIDE DEF as
  <2> QED BY <1>1, <2>1, TailMovements
<1> DEFINE a == Append(t, m)
<1>5. /\ Movements(a) /\ Len(a) = (n - k) + 1
      /\ \A i \in 1..(n - k) : a[i] = t[i]
      /\ a[(n - k) + 1] = m
  <2>1. Movements(t) /\ Len(t) = n - k
    BY <1>3 DEF IsTail
  <2>2. /\ Movements(a) /\ Len(a) = Len(t) + 1
        /\ \A i \in 1..Len(t) : a[i] = t[i]
        /\ a[Len(t) + 1] = m
    <3> HIDE DEF t
    <3> QED BY <2>1, AppendedMovements
  <2> HIDE DEF t, n, a
  <2> QED BY <2>1, <2>2
<1> HIDE DEF t, u, as, a
<1>6. Movements(u) /\ Len(u) = Len(a) /\ Len(a) = (n - k) + 1
  BY <1>1, <1>2, <1>4, <1>5 DEF IsTail
<1>7. \A i \in 1..Len(a) : u[i] = a[i]
  <2> SUFFICES ASSUME NEW i \in 1..((n - k) + 1) PROVE u[i] = a[i]
    BY <1>6
  <2>1. u[i] = as[k + i]
    <3>1. Len(as) - k = (n - k) + 1
      BY <1>1, <1>2
    <3>2. i \in 1..(Len(as) - k)
      BY <3>1
    <3> QED BY <1>4, <3>2 DEF IsTail
  <2>2. CASE i = (n - k) + 1
    <3>1. k + i = n + 1
      BY <1>2, <2>2
    <3> QED BY <1>1, <1>5, <2>1, <2>2, <3>1
  <2>3. CASE i # (n - k) + 1
    <3>1. i \in 1..(n - k) /\ k + i \in 1..n
      BY <1>2, <2>3
    <3>2. t[i] = ms[k + i]
      BY <1>3, <3>1 DEF IsTail
    <3> QED BY <1>1, <1>5, <2>1, <3>1, <3>2
  <2> QED BY <2>2, <2>3
<1>8. u = a
  <2>1. \E V, W : u \in Seq(V) /\ a \in Seq(W)
    BY <1>5, <1>6 DEF Movements
  <2> QED BY <1>6, <1>7, <2>1
<1>9. Net(a) = Net(t) + Signed(m)
  BY <1>3, NetAppend DEF a, IsTail
<1> QED BY <1>8, <1>9 DEF u, as, t
--------------------------------------------------------------------------------
(* What a request has read is still so when it commits.                     *)

\* A quantity that is the one in stock and its movement.
Fits(c, p) == IsMovement(p.move) /\ p.qty = item[c] + Signed(p.move)

\* The quantity of a cell when a plan is carried out.
After(j, c) == IF c \in DOMAIN j.post THEN j.post[c].qty ELSE item[c]

PlanSettles(j) ==
  /\ \A c \in DOMAIN j.post : c \in Cells /\ Fits(c, j.post[c])
  /\ j.op = "post" =>
       /\ draft[j.doc].status = "DRAFT"
       /\ After(j, DraftCell[j.doc]) = draft[j.doc].actual
  /\ j.op = "complete" =>
       \A p \in DOMAIN count[j.doc].lines :
         /\ count[j.doc].status = "REVIEW"
         /\ After(j, <<CountAt[j.doc], p>>)
              = item[<<CountAt[j.doc], p>>] + Delta(j.doc, p)

\* A line of a count: the quantity it began with, and what moved since.
LineFits(l, c) ==
  /\ l.since \in Nat
  /\ l.since <= Len(moves[c])
  /\ item[c] = l.system + Net(SubSeq(moves[c], l.since + 1, Len(moves[c])))

LinesFit ==
  \A k \in Counts : \A p \in DOMAIN count[k].lines :
    LineFits(count[k].lines[p], <<CountAt[k], p>>)

CellsFit == \A c \in Cells : Movements(moves[c]) /\ item[c] = Net(moves[c])

PlansSettle == \A h \in Handlers : PlanSettles(job[h])

SettleInv == CellsFit /\ LinesFit /\ PlansSettle

QuantityInv == CountInv /\ SettleInv

LEMMA IdleSettles == PlanSettles(Idle)
<1>1. Idle.op = "idle" /\ Idle.post = <<>>
  BY PlanFields DEF Idle
<1>2. DOMAIN Idle.post = {}
  BY <1>1
<1> QED BY <1>1, <1>2 DEF PlanSettles

(* Goods that come in and goods that go out fit, and so does a correction.  *)
LEMMA InFits ==
  ASSUME NEW c, item[c] \in Nat, NEW q \in Nat, NEW price, NEW d, NEW doc
  PROVE  Fits(c, In(c, q, price, d, doc))
BY DEF Fits, In, IsMovement, Signed

LEMMA OutFits ==
  ASSUME NEW c, item[c] \in Nat, NEW q \in Nat, NEW d, NEW doc
  PROVE  Fits(c, Out(c, q, d, doc))
<1> DEFINE p == Out(c, q, d, doc)
<1>1. p.move.in = FALSE /\ p.move.qty = q /\ p.qty = item[c] - q
  BY DEF Out
<1> HIDE DEF p
<1>2. IsMovement(p.move) /\ Signed(p.move) = -q
  BY <1>1 DEF IsMovement, Signed
<1>3. p.qty = item[c] + (-q)
  BY <1>1
<1>4. Fits(c, p)
  BY <1>2, <1>3 DEF Fits
<1> QED BY <1>4 DEF p

LEMMA CorrectionFits ==
  ASSUME NEW c, item[c] \in Nat, NEW delta \in Int, NEW price, NEW d, NEW doc
  PROVE  Fits(c, Correction(c, delta, price, d, doc))
<1>1. CASE delta > 0
  <2>1. delta \in Nat
    BY <1>1
  <2> QED BY <1>1, <2>1, InFits DEF Correction
<1>2. CASE ~(delta > 0)
  <2>1. -delta \in Nat
    BY <1>2
  <2> QED BY <1>2, <2>1, OutFits DEF Correction
<1> QED BY <1>1, <1>2

(* A plan that moves one cell, or two, and settles no document.             *)
LEMMA OneCellSettles ==
  ASSUME NEW op, op \notin {"post", "complete"}, NEW doc,
         NEW c \in Cells, NEW p, Fits(c, p), NEW s, NEW w
  PROVE  PlanSettles(Plan(op, doc, One(c, p), s, w))
<1> DEFINE plan == Plan(op, doc, One(c, p), s, w)
<1>1. plan.op = op /\ plan.post = One(c, p)
  BY PlanFields
<1> HIDE DEF plan
<1>2. DOMAIN plan.post = {c} /\ plan.post[c] = p
  BY <1>1, OneCell
<1>3. PlanSettles(plan)
  BY <1>1, <1>2 DEF PlanSettles
<1> QED BY <1>3 DEF plan

LEMMA TwoCellsSettle ==
  ASSUME NEW c \in Cells, NEW t \in Cells, NEW out, Fits(c, out), NEW into, Fits(t, into)
  PROVE  PlanSettles(Plan("move", NoDoc,
                          [x \in {c, t} |-> IF x = c THEN out ELSE into], 0, 0))
<1> DEFINE post == [x \in {c, t} |-> IF x = c THEN out ELSE into]
           plan == Plan("move", NoDoc, post, 0, 0)
<1>1. plan.op = "move" /\ plan.post = post
  BY PlanFields
<1>2. \A x \in DOMAIN post : x \in Cells /\ Fits(x, post[x])
  BY DEF Fits
<1> HIDE DEF plan, post
<1>3. PlanSettles(plan)
  BY <1>1, <1>2 DEF PlanSettles
<1> QED BY <1>3 DEF plan, post

(* A request that begins is the only one.                                   *)
LEMMA BeginSettles ==
  ASSUME QuantityInv, OneHandler, NEW h \in Handlers, NEW plan, PlanSettles(plan),
         Begin(h, plan)
  PROVE  SettleInv'
<1>1. item' = item /\ moves' = moves /\ draft' = draft /\ count' = count
  BY DEF Begin, stock, docs
<1>2. \A g \in Handlers : job'[g] = plan
  BY DEF QuantityInv, CountInv, SafeInv, JobsOK, OneHandler, Begin
<1>3. CellsFit' /\ LinesFit'
  BY <1>1 DEF QuantityInv, SettleInv, CellsFit, LinesFit, LineFits
<1>4. PlansSettle'
  <2> SUFFICES ASSUME NEW g \in Handlers PROVE PlanSettles(job[g])'
    BY DEF PlansSettle
  <2>1. PICK j : j = job'[g] /\ j = plan
    BY <1>2
  <2>2. PlanSettles(j)
    BY <2>1
  <2> QED BY <1>1, <2>1, <2>2 DEF PlanSettles, Fits, After, Delta
<1> QED BY <1>3, <1>4 DEF SettleInv

(* The cells of the requests.                                               *)
LEMMA CellsInStock ==
  ASSUME SafeInv, NEW c \in Cells
  PROVE  item[c] \in Nat
BY DEF SafeInv

--------------------------------------------------------------------------------
(* Whatever a request writes fits what it has read.                         *)
LEMMA MovementsSettle ==
  ASSUME QuantityInv, OneHandler, NEW h \in Handlers, NEW c \in Cells, NEW q \in Lots,
         NEW price, NEW d,
         Receive(h, c, q, d) \/ AdjustIn(h, c, q, price) \/ AdjustOut(h, c, q)
           \/ Import(h, c, q, price)
  PROVE  SettleInv'
<1>1. q \in Nat /\ item[c] \in Nat
  BY NumbersAssumption, CellsInStock DEF QuantityInv, CountInv
<1>2. CASE Receive(h, c, q, d)
  <2>1. PlanSettles(Plan("move", NoDoc, One(c, In(c, q, 0, d, NoDoc)), 0, 0))
    BY <1>1, InFits, OneCellSettles
  <2> QED BY <1>2, <2>1, BeginSettles DEF Receive
<1>3. CASE AdjustIn(h, c, q, price)
  <2>1. PlanSettles(Plan("move", NoDoc, One(c, In(c, q, price, Today, NoDoc)), q * price, 0))
    BY <1>1, InFits, OneCellSettles
  <2> QED BY <1>3, <2>1, BeginSettles DEF AdjustIn
<1>4. CASE AdjustOut(h, c, q)
  <2>1. PlanSettles(Plan("move", NoDoc, One(c, Out(c, q, Today, NoDoc)), -IssueCost(c, q), 0))
    BY <1>1, OutFits, OneCellSettles
  <2> QED BY <1>4, <2>1, BeginSettles DEF AdjustOut
<1>5. CASE Import(h, c, q, price)
  <2> DEFINE plan == Plan("import", NoDoc, One(c, In(c, q, price, Today, NoDoc)), q * price, 0)
             version == <<c, Len(moves[c]), opening>>
  <2>1. PlanSettles(plan)
    BY <1>1, InFits, OneCellSettles
  <2>2. Begin(h, [plan EXCEPT !.version = version])
    BY <1>5 DEF Import
  <2>3. PlanSettles([plan EXCEPT !.version = version])
    <3>1. /\ [plan EXCEPT !.version = version].op = plan.op
          /\ [plan EXCEPT !.version = version].doc = plan.doc
          /\ [plan EXCEPT !.version = version].post = plan.post
      BY DEF Plan
    <3>2. plan.op = "import"
      BY PlanFields
    <3> HIDE DEF plan, version
    <3> QED BY <2>1, <3>1, <3>2 DEF PlanSettles
  <2> HIDE DEF plan, version
  <2> QED BY <2>2, <2>3, BeginSettles
<1> QED BY <1>2, <1>3, <1>4, <1>5

LEMMA TransferSettles ==
  ASSUME QuantityInv, OneHandler, NEW h \in Handlers, NEW c \in Cells,
         NEW w \in Warehouses, NEW d, Transfer(h, c, w, d)
  PROVE  SettleInv'
<1> DEFINE to == <<w, c[2]>>
           out == Out(c, 1, d, NoDoc)
           into == In(to, 1, IssueCost(c, 1), d, NoDoc)
           plan == Plan("move", NoDoc, [x \in {c, to} |-> IF x = c THEN out ELSE into], 0, 0)
<1>1. to \in Cells
  BY DEF Cells
<1>2. item[c] \in Nat /\ item[to] \in Nat
  BY <1>1, CellsInStock DEF QuantityInv, CountInv
<1>3. Fits(c, out)
  BY <1>2, OutFits
<1>4. Fits(to, into)
  <2> HIDE DEF to
  <2> QED BY <1>2, InFits
<1>5. Begin(h, plan)
  BY DEF Transfer
<1>6. PlanSettles(plan)
  <2> HIDE DEF to, out, into
  <2> QED BY <1>1, <1>3, <1>4, TwoCellsSettle
<1> HIDE DEF plan
<1> QED BY <1>5, <1>6, BeginSettles

LEMMA ReleaseSettles ==
  ASSUME QuantityInv, OneHandler, NEW h \in Handlers, NEW w \in Warehouses, Release(h, w)
  PROVE  SettleInv'
<1> DEFINE c == <<w, Goods>>
           made == <<w, Made>>
           out == Out(c, 1, Today, NoDoc)
           into == In(made, 1, IssueCost(c, 1), Today, NoDoc)
           plan == Plan("move", NoDoc, [x \in {c, made} |-> IF x = c THEN out ELSE into], 0, 0)
<1>1. c \in Cells /\ made \in Cells
  BY DEF Cells, Products
<1>2. item[c] \in Nat /\ item[made] \in Nat
  BY <1>1, CellsInStock DEF QuantityInv, CountInv
<1>3. Fits(c, out) /\ Fits(made, into)
  <2> HIDE DEF c, made
  <2> QED BY <1>2, OutFits, InFits
<1>4. Begin(h, plan)
  BY DEF Release
<1>5. PlanSettles(plan)
  <2> HIDE DEF c, made, out, into
  <2> QED BY <1>1, <1>3, TwoCellsSettle
<1> HIDE DEF plan
<1> QED BY <1>4, <1>5, BeginSettles

LEMMA ShipSettles ==
  ASSUME QuantityInv, OneHandler, NEW h \in Handlers, NEW i \in Invoices,
         NEW w \in Warehouses, NEW d, Ship(h, i, w, d)
  PROVE  SettleInv'
<1> DEFINE c == <<w, Goods>>
           q == Quantity[i]
           plan == Plan("ship", i, One(c, Out(c, q, d, i)), -IssueCost(c, q), 0)
<1>1. c \in Cells /\ q \in Nat
  BY DocumentsAssumption DEF Cells, Products
<1>2. item[c] \in Nat
  BY <1>1, CellsInStock DEF QuantityInv, CountInv
<1>3. Begin(h, plan)
  BY DEF Ship
<1>4. PlanSettles(plan)
  <2> HIDE DEF c, q
  <2> QED BY <1>1, <1>2, OutFits, OneCellSettles
<1> HIDE DEF plan
<1> QED BY <1>3, <1>4, BeginSettles

LEMMA ProductionSettles ==
  ASSUME QuantityInv, OneHandler, NEW h \in Handlers, NEW o \in Orders,
         StartOrder(h, o) \/ FinishOrder(h, o) \/ CancelOrder(h, o)
  PROVE  SettleInv'
<1> DEFINE c == <<OrderAt[o], Goods>>
           made == <<OrderAt[o], Made>>
           cost == order[o].cost
<1>1. c \in Cells /\ made \in Cells
  BY DocumentsAssumption DEF Cells, Products
<1>2. item[c] \in Nat /\ item[made] \in Nat
  BY <1>1, CellsInStock DEF QuantityInv, CountInv
<1>3. CASE StartOrder(h, o)
  <2> DEFINE plan == Plan("order", o, One(c, Out(c, 1, Today, o)), -IssueCost(c, 1),
                          IssueCost(c, 1))
  <2>1. Begin(h, plan)
    BY <1>3 DEF StartOrder
  <2>2. PlanSettles(plan)
    <3> HIDE DEF c
    <3> QED BY <1>1, <1>2, OutFits, OneCellSettles
  <2> HIDE DEF plan
  <2> QED BY <2>1, <2>2, BeginSettles
<1>4. CASE FinishOrder(h, o)
  <2> DEFINE plan == Plan("finish", o, One(made, In(made, 1, cost, Today, o)), cost, -cost)
  <2>1. Begin(h, plan)
    BY <1>4 DEF FinishOrder
  <2>2. PlanSettles(plan)
    <3> HIDE DEF made, cost
    <3> QED BY <1>1, <1>2, InFits, OneCellSettles
  <2> HIDE DEF plan
  <2> QED BY <2>1, <2>2, BeginSettles
<1>5. CASE CancelOrder(h, o)
  <2> DEFINE plan == Plan("cancel", o, One(c, In(c, 1, cost, Today, o)), cost, -cost)
             none == Plan("cancel", o, <<>>, 0, 0)
  <2>1. Begin(h, plan) \/ Begin(h, none)
    BY <1>5 DEF CancelOrder
  <2>2. PlanSettles(plan)
    <3> HIDE DEF c, cost
    <3> QED BY <1>1, <1>2, InFits, OneCellSettles
  <2>3. PlanSettles(none)
    <3>1. none.op = "cancel" /\ none.post = <<>>
      BY PlanFields
    <3>2. DOMAIN none.post = {}
      BY <3>1
    <3> HIDE DEF none
    <3> QED BY <3>1, <3>2 DEF PlanSettles
  <2> HIDE DEF plan, none
  <2> QED BY <2>1, <2>2, <2>3, BeginSettles
<1> QED BY <1>3, <1>4, <1>5

LEMMA StartCountingSettles ==
  ASSUME QuantityInv, OneHandler, NEW h \in Handlers, NEW k \in Counts, StartCounting(h, k)
  PROVE  SettleInv'
<1> DEFINE plan == Plan("start", k, <<>>, 0, 0)
<1>1. plan.op = "start" /\ plan.post = <<>>
  BY PlanFields
<1>2. Begin(h, plan)
  BY DEF StartCounting
<1> HIDE DEF plan
<1>3. DOMAIN plan.post = {}
  BY <1>1
<1>4. PlanSettles(plan)
  BY <1>1, <1>3 DEF PlanSettles
<1> QED BY <1>2, <1>4, BeginSettles

(* What posts a draft brings its cell to the quantity counted.              *)
LEMMA PostDraftSettles ==
  ASSUME QuantityInv, OneHandler, NEW h \in Handlers, NEW n \in Drafts, NEW price,
         PostDraft(h, n, price)
  PROVE  SettleInv'
<1> DEFINE c == DraftCell[n]
           delta == draft[n].actual - item[c]
           fix == Correction(c, delta, price, DraftDate[n], n)
           post == [x \in {c} \ {y \in {c} : delta = 0} |-> fix]
           plan == Plan("post", n, post, CorrectionCost(c, delta, price), 0)
<1>1. c \in Cells /\ draft[n].actual \in Nat
  BY DocumentsAssumption DEF QuantityInv, CountInv, SafeInv, DraftsOK
<1>2. item[c] \in Nat
  BY <1>1, CellsInStock DEF QuantityInv, CountInv
<1>3. delta \in Int /\ item[c] + delta = draft[n].actual
      /\ (delta = 0 => item[c] = draft[n].actual)
  BY <1>1, <1>2
<1>4. Begin(h, plan) /\ draft[n].status = "DRAFT"
  BY DEF PostDraft
<1>5. Fits(c, fix) /\ fix.qty = item[c] + delta
  <2> HIDE DEF c, delta
  <2> QED BY <1>2, <1>3, CorrectionFits, CorrectionFields
<1>6. plan.op = "post" /\ plan.doc = n /\ plan.post = post
  BY PlanFields
<1> HIDE DEF plan, fix
<1>7. \A x \in DOMAIN post : x = c /\ post[x] = fix
  BY Zenon
<1>8. delta # 0 => c \in DOMAIN post
  OBVIOUS
<1> HIDE DEF post, delta
<1>9. After(plan, c) = draft[n].actual
  <2>1. CASE delta = 0
    BY <1>3, <1>5, <1>6, <1>7, <2>1 DEF After
  <2>2. CASE delta # 0
    BY <1>3, <1>5, <1>6, <1>7, <1>8, <2>2 DEF After
  <2> QED BY <2>1, <2>2
<1>10. PlanSettles(plan)
  BY <1>1, <1>4, <1>5, <1>6, <1>7, <1>9 DEF PlanSettles
<1> QED BY <1>4, <1>10, BeginSettles

(* What completes a count applies each difference to the stock there is.    *)
LEMMA CompleteSettles ==
  ASSUME QuantityInv, OneHandler, NEW h \in Handlers, NEW k \in Counts, NEW price,
         Complete(h, k, price)
  PROVE  SettleInv'
<1> DEFINE fix(c) == Correction(c, Delta(k, c[2]), price, CountDate[k], k)
           post == [c \in Corrected(k) |-> fix(c)]
           cost == MapThenSumSet(LAMBDA c : CorrectionCost(c, Delta(k, c[2]), price),
                                 Corrected(k))
           plan == Plan("complete", k, post, cost, 0)
           at(p) == <<CountAt[k], p>>
<1>1. Begin(h, plan) /\ count[k].status = "REVIEW"
  BY DEF Complete
<1>2. \A p \in DOMAIN count[k].lines :
        /\ p \in Products /\ at(p) \in Cells /\ at(p)[2] = p
        /\ item[at(p)] \in Nat /\ Delta(k, p) \in Int
  <2> SUFFICES ASSUME NEW p \in DOMAIN count[k].lines
               PROVE  /\ p \in Products /\ at(p) \in Cells /\ at(p)[2] = p
                      /\ item[at(p)] \in Nat /\ Delta(k, p) \in Int
    OBVIOUS
  <2>1. p \in Products /\ IsLine(count[k].lines[p])
    BY DEF QuantityInv, CountInv, SafeInv, CountsOK, IsCount
  <2>2. Delta(k, p) \in Int
    BY <2>1 DEF Delta, IsLine
  <2>3. at(p) \in Cells /\ at(p)[2] = p
    BY <2>1, DocumentsAssumption DEF Cells
  <2>4. item[at(p)] \in Nat
    BY <2>3, CellsInStock DEF QuantityInv, CountInv
  <2> QED BY <2>1, <2>2, <2>3, <2>4
<1>3. plan.op = "complete" /\ plan.doc = k /\ plan.post = post
  BY PlanFields
<1> HIDE DEF plan, cost
<1>4. \A c \in Corrected(k) : \E p \in Differing(k) : c = at(p)
  BY DEF Corrected
<1>5. \A p \in Differing(k) : at(p) \in Corrected(k)
  BY DEF Corrected
<1>6. \A p \in DOMAIN count[k].lines : p \notin Differing(k) => Delta(k, p) = 0
  BY DEF Differing
<1>7. Differing(k) \subseteq DOMAIN count[k].lines
  BY DEF Differing
<1>8. \A c \in Corrected(k) : Fits(c, fix(c)) /\ fix(c).qty = item[c] + Delta(k, c[2])
  <2> SUFFICES ASSUME NEW c \in Corrected(k)
               PROVE  Fits(c, fix(c)) /\ fix(c).qty = item[c] + Delta(k, c[2])
    OBVIOUS
  <2>1. item[c] \in Nat /\ Delta(k, c[2]) \in Int
    BY <1>2, <1>4, <1>7
  <2> QED BY <2>1, CorrectionFits, CorrectionFields
<1>9. DOMAIN post = Corrected(k) /\ \A c \in Corrected(k) : post[c] = fix(c)
  OBVIOUS
<1> HIDE DEF post, fix
<1>10. ASSUME NEW p \in DOMAIN count[k].lines
       PROVE  After(plan, at(p)) = item[at(p)] + Delta(k, p)
  <2>0. item[at(p)] \in Nat /\ at(p)[2] = p
    BY <1>2
  <2>1. CASE at(p) \in Corrected(k)
    <3>1. post[at(p)].qty = item[at(p)] + Delta(k, p)
      BY <1>8, <1>9, <2>0, <2>1
    <3> HIDE DEF at
    <3> QED BY <1>3, <1>9, <2>1, <3>1 DEF After
  <2>2. CASE at(p) \notin Corrected(k)
    <3>1. Delta(k, p) = 0
      BY <1>5, <1>6, <2>2
    <3> HIDE DEF at
    <3>2. After(plan, at(p)) = item[at(p)]
      BY <1>3, <1>9, <2>2 DEF After
    <3> QED BY <2>0, <3>1, <3>2
  <2> QED BY <2>1, <2>2
<1>11. \A c \in DOMAIN plan.post : c \in Cells /\ Fits(c, plan.post[c])
  BY <1>2, <1>3, <1>4, <1>7, <1>8, <1>9
<1>12. PlanSettles(plan)
  BY <1>1, <1>3, <1>10, <1>11 DEF PlanSettles
<1> QED BY <1>1, <1>12, BeginSettles

--------------------------------------------------------------------------------
(* Clerks work on drafts and on counts; a count that is being completed they *)
(* may cancel, and no more.                                                  *)
LEMMA CreateDraftSettles ==
  ASSUME QuantityInv, NEW n \in Drafts, NEW type, NEW actual, CreateDraft(n, type, actual)
  PROVE  SettleInv'
<1>1. item' = item /\ moves' = moves /\ count' = count /\ job' = job
  BY DEF CreateDraft, stock
<1>2. CellsFit' /\ LinesFit'
  BY <1>1 DEF QuantityInv, SettleInv, CellsFit, LinesFit, LineFits
<1>3. \A m \in Drafts : draft[m].status = "DRAFT" => draft'[m] = draft[m]
  BY DEF CreateDraft, QuantityInv, CountInv, SafeInv, DraftsOK
<1>4. PlansSettle'
  <2> SUFFICES ASSUME NEW g \in Handlers PROVE PlanSettles(job[g])'
    BY DEF PlansSettle
  <2>1. PlanSettles(job[g]) /\ PlanOK(job[g])
    BY DEF QuantityInv, SettleInv, PlansSettle, CountInv, SafeInv, JobsOK
  <2>2. job[g].op = "post" => draft'[job[g].doc] = draft[job[g].doc]
    BY <1>3, <2>1 DEF PlanSettles, PlanOK
  <2> QED BY <1>1, <2>1, <2>2 DEF PlanSettles, Fits, After, Delta
<1> QED BY <1>2, <1>4 DEF SettleInv

\* What clerks leave of the lines of a count.
LinesStay ==
  \A k \in Counts : \A p \in DOMAIN count'[k].lines :
    /\ p \in DOMAIN count[k].lines
    /\ count'[k].lines[p].since = count[k].lines[p].since
    /\ count'[k].lines[p].system = count[k].lines[p].system
    /\ count[k].status = "REVIEW" =>
         count'[k].status = "REVIEW" /\ count'[k].lines[p] = count[k].lines[p]

LEMMA ClerksLeaveLines ==
  ASSUME CountsOK, NEW k \in Counts, NEW p, NEW fact,
         SetFact(k, p, fact) \/ Submit(k) \/ Classify(k, p) \/ CancelCount(k)
  PROVE  LinesStay
<1>1. \A l \in Counts : l # k => count'[l] = count[l]
  BY DEF CountsOK, SetFact, Submit, Classify, CancelCount
<1>2. IsCount(count[k]) /\ DOMAIN count = Counts
  BY DEF CountsOK
<1> DEFINE c == count[k]
<1>3. CASE SetFact(k, p, fact)
  <2>1. /\ count'[k] = [c EXCEPT !.lines[p].fact = fact]
        /\ c.status = "COUNTING" /\ p \in DOMAIN c.lines /\ IsLine(c.lines[p])
    BY <1>2, <1>3 DEF SetFact, IsCount
  <2>2. count'[k].lines = [c.lines EXCEPT ![p].fact = fact]
    BY <1>2, <2>1 DEF IsCount
  <2>3. \A q \in DOMAIN c.lines :
          count'[k].lines[q] = IF q = p THEN [c.lines[p] EXCEPT !.fact = fact] ELSE c.lines[q]
    BY <1>2, <2>2 DEF IsCount
  <2>4. DOMAIN count'[k].lines = DOMAIN c.lines
    BY <1>2, <2>2 DEF IsCount
  <2>5. /\ [c.lines[p] EXCEPT !.fact = fact].since = c.lines[p].since
        /\ [c.lines[p] EXCEPT !.fact = fact].system = c.lines[p].system
    BY <2>1 DEF IsLine
  <2> QED BY <1>1, <2>1, <2>3, <2>4, <2>5 DEF LinesStay
<1>4. CASE Submit(k)
  <2>1. count'[k].lines = c.lines /\ c.status = "COUNTING"
    BY <1>2, <1>4 DEF Submit, IsCount
  <2> QED BY <1>1, <2>1 DEF LinesStay
<1>5. CASE Classify(k, p)
  <2>1. count'[k].lines = c.lines /\ count'[k].status = c.status
    BY <1>2, <1>5 DEF Classify, IsCount
  <2> QED BY <1>1, <2>1 DEF LinesStay
<1>6. CASE CancelCount(k)
  <2>1. count'[k].lines = <<>>
    BY <1>2, <1>6 DEF CancelCount, Blank
  <2>2. DOMAIN count'[k].lines = {}
    BY <2>1
  <2> QED BY <1>1, <2>2 DEF LinesStay
<1> QED BY <1>3, <1>4, <1>5, <1>6

LEMMA ClerksSettle ==
  ASSUME QuantityInv, NEW k \in Counts, NEW p, NEW fact,
         SetFact(k, p, fact) \/ Submit(k) \/ Classify(k, p) \/ CancelCount(k)
  PROVE  SettleInv'
<1>1. item' = item /\ moves' = moves /\ draft' = draft /\ job' = job
  BY DEF SetFact, Submit, Classify, CancelCount, stock
<1>2. CountsOK
  BY DEF QuantityInv, CountInv, SafeInv
<1>3. LinesStay
  BY <1>2, ClerksLeaveLines
<1>4. CellsFit'
  BY <1>1 DEF QuantityInv, SettleInv, CellsFit
<1>5. LinesFit'
  <2>1. LinesFit
    BY DEF QuantityInv, SettleInv
  <2> SUFFICES ASSUME NEW l \in Counts, NEW q \in DOMAIN count'[l].lines
               PROVE  LineFits(count[l].lines[q], <<CountAt[l], q>>)'
    BY DEF LinesFit
  <2>2. LineFits(count[l].lines[q], <<CountAt[l], q>>)
    BY <1>3, <2>1 DEF LinesFit, LinesStay
  <2> QED BY <1>1, <1>3, <2>2 DEF LinesStay, LineFits
<1>6. PlansSettle'
  <2> SUFFICES ASSUME NEW g \in Handlers PROVE PlanSettles(job[g])'
    BY DEF PlansSettle
  <2>1. PlanSettles(job[g]) /\ PlanOK(job[g])
    BY DEF QuantityInv, SettleInv, PlansSettle, CountInv, SafeInv, JobsOK
  <2> DEFINE l == job[g].doc
  <2>2. ASSUME job[g].op = "complete", NEW q \in DOMAIN count'[l].lines
        PROVE  /\ q \in DOMAIN count[l].lines
               /\ count'[l].status = "REVIEW" /\ count'[l].lines[q] = count[l].lines[q]
    BY <1>3, <2>1, <2>2 DEF LinesStay, PlanOK, PlanSettles
  <2> QED BY <1>1, <2>1, <2>2 DEF PlanSettles, Fits, After, Delta
<1> QED BY <1>4, <1>5, <1>6 DEF SettleInv

LEMMA JobsEnd ==
  ASSUME SafeInv, OneHandler, NEW h \in Handlers, Write(h) \/ Fail(h)
  PROVE  \A g \in Handlers : job'[g] = Idle
BY DEF Write, Fail, SafeInv, JobsOK, OneHandler

LEMMA PlansEnd ==
  ASSUME SafeInv, OneHandler, NEW h \in Handlers, Write(h) \/ Fail(h)
  PROVE  PlansSettle'
<1> SUFFICES ASSUME NEW g \in Handlers PROVE PlanSettles(job[g])'
  BY DEF PlansSettle
<1>1. job'[g] = Idle
  BY JobsEnd
<1>2. Idle.op = "idle" /\ Idle.post = <<>>
  BY PlanFields DEF Idle
<1>3. DOMAIN Idle.post = {}
  BY <1>2
<1> QED BY <1>1, <1>2, <1>3 DEF PlanSettles

LEMMA FailSettles ==
  ASSUME QuantityInv, OneHandler, NEW h \in Handlers, Fail(h)
  PROVE  SettleInv'
<1>1. item' = item /\ moves' = moves /\ count' = count
  BY DEF Fail, stock, docs
<1>2. CellsFit' /\ LinesFit'
  BY <1>1 DEF QuantityInv, SettleInv, CellsFit, LinesFit, LineFits
<1> QED BY <1>2, PlansEnd DEF SettleInv, QuantityInv, CountInv

(* A commit writes what is in stock and what its movement adds.             *)
LEMMA WriteFits ==
  ASSUME QuantityInv, NEW h \in Handlers, Write(h), NEW c \in Cells
  PROVE  \/ item'[c] = item[c] /\ moves'[c] = moves[c]
         \/ \E m : /\ IsMovement(m)
                   /\ moves'[c] = Append(moves[c], m)
                   /\ item'[c] = item[c] + Signed(m)
<1> DEFINE j == job[h]
<1>1. PlanSettles(j)
  BY DEF QuantityInv, SettleInv, PlansSettle
<1>2. CASE c \in DOMAIN j.post
  <2>1. moves'[c] = Append(moves[c], j.post[c].move) /\ item'[c] = j.post[c].qty
    BY <1>2 DEF Write
  <2>2. Fits(c, j.post[c])
    BY <1>1, <1>2 DEF PlanSettles
  <2> QED BY <2>1, <2>2 DEF Fits
<1>3. CASE c \notin DOMAIN j.post
  BY <1>3 DEF Write
<1> QED BY <1>2, <1>3

LEMMA WriteCells ==
  ASSUME QuantityInv, NEW h \in Handlers, Write(h)
  PROVE  CellsFit'
<1> SUFFICES ASSUME NEW c \in Cells
             PROVE  Movements(moves'[c]) /\ item'[c] = Net(moves'[c])
  BY DEF CellsFit
<1>1. Movements(moves[c]) /\ item[c] = Net(moves[c])
  BY DEF QuantityInv, SettleInv, CellsFit
<1>2. CASE item'[c] = item[c] /\ moves'[c] = moves[c]
  BY <1>1, <1>2
<1>3. ASSUME NEW m, IsMovement(m), moves'[c] = Append(moves[c], m),
             item'[c] = item[c] + Signed(m)
      PROVE  Movements(moves'[c]) /\ item'[c] = Net(moves'[c])
  BY <1>1, <1>3, AppendedMovements, NetAppend
<1> QED BY <1>2, <1>3, WriteFits

(* The lines that were there still say what has moved.                      *)
LEMMA WriteLine ==
  ASSUME QuantityInv, NEW h \in Handlers, Write(h), NEW c \in Cells, NEW l,
         l.system \in Nat, LineFits(l, c)
  PROVE  /\ l.since <= Len(moves'[c])
         /\ item'[c] = l.system + Net(SubSeq(moves'[c], l.since + 1, Len(moves'[c])))
<1>1. Movements(moves[c])
  BY DEF QuantityInv, SettleInv, CellsFit
<1> DEFINE k == l.since
           old == Net(SubSeq(moves[c], k + 1, Len(moves[c])))
<1>2. k \in Nat /\ k <= Len(moves[c]) /\ item[c] = l.system + old
  BY DEF LineFits
<1>3. CASE item'[c] = item[c] /\ moves'[c] = moves[c]
  BY <1>2, <1>3
<1>4. ASSUME NEW m, IsMovement(m), moves'[c] = Append(moves[c], m),
             item'[c] = item[c] + Signed(m)
      PROVE  /\ k <= Len(moves'[c])
             /\ item'[c] = l.system + Net(SubSeq(moves'[c], k + 1, Len(moves'[c])))
  <2>1. Net(SubSeq(moves'[c], k + 1, Len(moves'[c]))) = old + Signed(m)
    BY <1>1, <1>2, <1>4, TailAppend
  <2>2. old \in Int /\ Signed(m) \in Int
    <3>1. IsTail(SubSeq(moves[c], k + 1, Len(moves[c])), moves[c], k)
      BY <1>1, <1>2, TailMovements
    <3> QED BY <1>4, <3>1, NetType, SignedType DEF IsTail
  <2>3. Len(moves'[c]) = Len(moves[c]) + 1 /\ Len(moves[c]) \in Nat
    BY <1>1, <1>4, AppendedMovements, QuantitiesAreValues
  <2> HIDE DEF old, k
  <2>4. k <= Len(moves'[c])
    BY <1>2, <2>3
  <2>5. item'[c] = l.system + (old + Signed(m))
    BY <1>2, <1>4, <2>2
  <2> QED BY <2>1, <2>4, <2>5
<1> QED BY <1>3, <1>4, WriteFits

LEMMA EmptyTail ==
  ASSUME NEW ms, Movements(ms)
  PROVE  Net(SubSeq(ms, Len(ms) + 1, Len(ms))) = 0
<1> DEFINE t == SubSeq(ms, Len(ms) + 1, Len(ms))
<1>1. Len(ms) \in Nat
  BY QuantitiesAreValues
<1>2. IsTail(t, ms, Len(ms))
  BY <1>1, TailMovements
<1> HIDE DEF t
<1>3. Len(t) = 0 /\ \E V : t \in Seq(V)
  BY <1>1, <1>2 DEF IsTail, Movements
<1>4. t = <<>>
  BY <1>3
<1> QED BY <1>4, NetEmpty DEF t

LEMMA CommitLines ==
  ASSUME QuantityInv, NEW h \in Handlers, Commit(h)
  PROVE  LinesFit'
<1>1. Write(h)
  BY CommitWrites
<1>2. CountsOK /\ PlanOK(job[h]) /\ LinesFit /\ CellsFit
  BY DEF QuantityInv, CountInv, SafeInv, JobsOK, SettleInv
<1>3. ASSUME NEW k \in Counts, count'[k] = count[k], NEW p \in DOMAIN count'[k].lines
      PROVE  LineFits(count[k].lines[p], <<CountAt[k], p>>)'
  <2> DEFINE l == count[k].lines[p]
             c == <<CountAt[k], p>>
  <2>1. LineFits(l, c)
    BY <1>2, <1>3 DEF LinesFit
  <2>2. IsLine(l) /\ p \in Products
    BY <1>2, <1>3 DEF CountsOK, IsCount
  <2>3. c \in Cells /\ l.system \in Nat
    BY <2>2, DocumentsAssumption DEF Cells, IsLine
  <2>4. /\ l.since <= Len(moves'[c])
        /\ item'[c] = l.system + Net(SubSeq(moves'[c], l.since + 1, Len(moves'[c])))
    <3> HIDE DEF l, c
    <3> QED BY <1>1, <2>1, <2>3, WriteLine
  <2>5. count'[k].lines[p] = l
    BY <1>3
  <2>6. l.since \in Nat
    BY <2>1 DEF LineFits
  <2> HIDE DEF l
  <2> QED BY <2>4, <2>5, <2>6 DEF LineFits
<1>4. CASE CommitCounting(h)
  <2>1. PICK k \in Counts : k = job[h].doc /\ DOMAIN job[h].post = {}
    BY <1>2, <1>4 DEF CommitCounting, PlanOK
  <2>2. \A c \in Cells : item'[c] = item[c] /\ moves'[c] = moves[c]
    BY <1>1, <2>1 DEF Write
  <2>3. \A l \in Counts : l # k => count'[l] = count[l]
    BY <1>2, <1>4, <2>1 DEF CommitCounting, CountsOK
  <2>4. ASSUME NEW p \in DOMAIN count'[k].lines
        PROVE  LineFits(count[k].lines[p], <<CountAt[k], p>>)'
    <3>0. PICK c : c = <<CountAt[k], p>>
      OBVIOUS
    <3> DEFINE rows == {q \in Products : Moved(<<CountAt[k], q>>)}
               lines == [q \in rows |-> [system |-> item[<<CountAt[k], q>>],
                                         fact |-> item[<<CountAt[k], q>>],
                                         since |-> Len(moves[<<CountAt[k], q>>])]]
    <3>1. count'[k].lines = lines
      BY <1>2, <1>4, <2>1 DEF CommitCounting, CountsOK
    <3>2. p \in rows
      BY <3>1
    <3>3. c \in Cells
      BY <3>0, <3>2, DocumentsAssumption DEF Cells
    <3>4. count'[k].lines[p].system = item[c] /\ count'[k].lines[p].since = Len(moves[c])
      BY <3>0, <3>1, <3>2
    <3> HIDE DEF lines, rows
    <3>5. Movements(moves[c]) /\ Len(moves[c]) \in Nat
      BY <1>2, <3>3, QuantitiesAreValues DEF CellsFit
    <3>6. Net(SubSeq(moves[c], Len(moves[c]) + 1, Len(moves[c]))) = 0
      BY <3>5, EmptyTail
    <3>7. item[c] \in Nat
      BY <3>3, CellsInStock DEF QuantityInv, CountInv
    <3>8. LineFits(count[k].lines[p], c)'
      BY <2>2, <3>3, <3>4, <3>5, <3>6, <3>7 DEF LineFits
    <3> QED BY <3>0, <3>8
  <2> QED BY <1>3, <2>3, <2>4 DEF LinesFit
<1>5. CASE CommitCount(h)
  <2>1. PICK k \in Counts : k = job[h].doc
    BY <1>2, <1>5 DEF CommitCount, PlanOK
  <2>2. \A l \in Counts : l # k => count'[l] = count[l]
    BY <1>2, <1>5, <2>1 DEF CommitCount, CountsOK
  <2>3. count'[k].lines = <<>>
    BY <1>2, <1>5, <2>1 DEF CommitCount, CountsOK, Blank
  <2>4. DOMAIN count'[k].lines = {}
    BY <2>3
  <2> QED BY <1>3, <2>2, <2>4 DEF LinesFit
<1>6. CASE ~CommitCounting(h) /\ ~CommitCount(h)
  <2>1. count' = count
    BY <1>6 DEF Commit, CommitMove, CommitShipment, CommitImport, CommitDraft,
                CommitOrder, CommitFinish, CommitCancel, docs
  <2> QED BY <1>3, <2>1 DEF LinesFit
<1> QED BY <1>4, <1>5, <1>6

LEMMA CommitSettles ==
  ASSUME QuantityInv, OneHandler, NEW h \in Handlers, Commit(h)
  PROVE  SettleInv'
BY CommitWrites, WriteCells, CommitLines, PlansEnd DEF SettleInv, QuantityInv, CountInv

--------------------------------------------------------------------------------
LEMMA QuantityInit == Init => QuantityInv
<1> SUFFICES ASSUME Init PROVE QuantityInv
  OBVIOUS
<1>1. CellsFit
  BY NetEmpty DEF Init, CellsFit
<1>2. LinesFit
  <2>1. \A k \in Counts : count[k].lines = <<>>
    BY DEF Init, Blank
  <2>2. \A k \in Counts : DOMAIN count[k].lines = {}
    BY <2>1
  <2> QED BY <2>2 DEF LinesFit
<1>3. PlansSettle
  BY IdleSettles DEF Init, PlansSettle
<1> QED BY <1>1, <1>2, <1>3, CountInit DEF QuantityInv, SettleInv

LEMMA SettleNext ==
  ASSUME QuantityInv, OneHandler, [Next]_vars
  PROVE  SettleInv'
<1>1. ASSUME NEW h \in Handlers, NEW c \in Entry, NEW q \in Lots
      PROVE  /\ \A d : Receive(h, c, q, d) => SettleInv'
             /\ \A price : AdjustIn(h, c, q, price) => SettleInv'
             /\ \A price : Import(h, c, q, price) => SettleInv'
             /\ AdjustOut(h, c, q) => SettleInv'
  <2>1. c \in Cells
    BY NumbersAssumption
  <2> QED BY <2>1, MovementsSettle
<1>2. ASSUME UNCHANGED vars PROVE SettleInv'
  <2>1. item' = item /\ moves' = moves /\ draft' = draft /\ count' = count /\ job' = job
    BY <1>2 DEF vars, stock, docs
  <2> QED BY <2>1 DEF QuantityInv, SettleInv, CellsFit, LinesFit, LineFits, PlansSettle,
                      PlanSettles, Fits, After, Delta
<1>3. ASSUME NEW h \in Handlers, NEW c \in Cells, NEW w \in Warehouses, NEW d,
             Transfer(h, c, w, d)
      PROVE  SettleInv'
  BY <1>3, TransferSettles
<1>4. ASSUME NEW h \in Handlers, NEW i \in Invoices, NEW w \in Warehouses, NEW d,
             Ship(h, i, w, d)
      PROVE  SettleInv'
  BY <1>4, ShipSettles
<1>5. ASSUME NEW n \in Drafts, NEW type, NEW actual, CreateDraft(n, type, actual)
      PROVE  SettleInv'
  BY <1>5, CreateDraftSettles
<1>6. ASSUME NEW h \in Handlers, NEW n \in Drafts, NEW price, PostDraft(h, n, price)
      PROVE  SettleInv'
  BY <1>6, PostDraftSettles
<1>7. ASSUME NEW h \in Handlers, NEW k \in Counts
      PROVE  /\ StartCounting(h, k) => SettleInv'
             /\ \A price : Complete(h, k, price) => SettleInv'
  BY StartCountingSettles, CompleteSettles
<1>8. ASSUME NEW k \in Counts
      PROVE  /\ \A p, fact : SetFact(k, p, fact) => SettleInv'
             /\ Submit(k) \/ CancelCount(k) => SettleInv'
             /\ \A p : Classify(k, p) => SettleInv'
  BY ClerksSettle
<1>9. ASSUME NEW h \in Handlers, NEW o \in Orders,
             StartOrder(h, o) \/ FinishOrder(h, o) \/ CancelOrder(h, o)
      PROVE  SettleInv'
  BY <1>9, ProductionSettles
<1>10. ASSUME NEW h \in Handlers, NEW w \in Warehouses, Release(h, w)
       PROVE  SettleInv'
  BY <1>10, ReleaseSettles
<1>11. ASSUME NEW h \in Handlers, Commit(h) \/ Fail(h)
       PROVE  SettleInv'
  BY <1>11, CommitSettles, FailSettles
<1> QED BY <1>1, <1>2, <1>3, <1>4, <1>5, <1>6, <1>7, <1>8, <1>9, <1>10, <1>11 DEF Next

LEMMA QuantityNext ==
  ASSUME OneHandler
  PROVE  QuantityInv /\ [Next]_vars => QuantityInv'
BY CountNext, SettleNext DEF QuantityInv

(* Who posts a draft.                                                       *)
LEMMA OnlyPostersPost ==
  ASSUME QuantityInv, [Next]_vars, NEW n \in Drafts, draft'[n].status = "POSTED",
         draft[n].status # "POSTED"
  PROVE  \E h \in Handlers : CommitDraft(h) /\ job[h].doc = n
<1>1. DraftsOK /\ DOMAIN draft = Drafts
  BY DEF QuantityInv, CountInv, SafeInv, DraftsOK
<1>2. draft' # draft
  OBVIOUS
<1>3. ASSUME NEW m \in Drafts, NEW type, NEW actual, CreateDraft(m, type, actual) PROVE FALSE
  BY <1>1, <1>3 DEF CreateDraft
<1>4. ASSUME NEW h, NEW plan, Begin(h, plan) PROVE FALSE
  BY <1>2, <1>4 DEF Begin, docs
<1>5. \A h : /\ \A c, q, d : ~Receive(h, c, q, d)
             /\ \A c, q, price : ~AdjustIn(h, c, q, price) /\ ~Import(h, c, q, price)
             /\ \A c, q : ~AdjustOut(h, c, q)
             /\ \A c, w, d : ~Transfer(h, c, w, d)
             /\ \A i, w, d : ~Ship(h, i, w, d)
  BY <1>4 DEF Receive, AdjustIn, Import, AdjustOut, Transfer, Ship
<1>6. \A h : /\ \A m, price : ~PostDraft(h, m, price)
             /\ \A k : ~StartCounting(h, k) /\ \A price : ~Complete(h, k, price)
             /\ \A o : ~StartOrder(h, o) /\ ~FinishOrder(h, o) /\ ~CancelOrder(h, o)
             /\ \A w : ~Release(h, w)
  BY <1>4 DEF PostDraft, StartCounting, Complete, StartOrder, FinishOrder, CancelOrder, Release
<1>7. /\ \A k, p, fact : ~SetFact(k, p, fact)
      /\ \A k, p : ~Classify(k, p)
      /\ \A k : ~Submit(k) /\ ~CancelCount(k)
      /\ \A h : ~Fail(h)
  BY <1>2 DEF SetFact, Classify, Submit, CancelCount, Fail, docs
<1>8. ~UNCHANGED vars
  BY <1>2 DEF vars, docs
<1>9. PICK h \in Handlers : Commit(h)
  BY <1>3, <1>5, <1>6, <1>7, <1>8 DEF Next
<1>10. CommitDraft(h)
  BY <1>2, <1>9 DEF Commit, CommitMove, CommitShipment, CommitImport, CommitCounting,
                    CommitCount, CommitOrder, CommitFinish, CommitCancel, docs
<1>11. job[h].doc = n
  BY <1>1, <1>10 DEF CommitDraft
<1> QED BY <1>10, <1>11

(* Who completes a count.                                                   *)
LEMMA OnlyCountersComplete ==
  ASSUME QuantityInv, [Next]_vars, NEW k \in Counts, count'[k].status = "COMPLETED",
         count[k].status # "COMPLETED"
  PROVE  \E h \in Handlers : CommitCount(h) /\ job[h].doc = k
<1>1. DOMAIN count = Counts /\ \A l \in Counts : IsCount(count[l])
  BY DEF QuantityInv, CountInv, SafeInv, CountsOK
<1>2. count' # count
  OBVIOUS
<1>3. ASSUME NEW l \in Counts, NEW p, NEW fact,
             SetFact(l, p, fact) \/ Submit(l) \/ Classify(l, p) \/ CancelCount(l)
      PROVE  FALSE
  <2>1. IsCount(count[l])
    BY <1>1
  <2>2. CASE SetFact(l, p, fact)
    BY <1>1, <2>1, <2>2 DEF SetFact, IsCount
  <2>3. CASE Submit(l)
    BY <1>1, <2>1, <2>3 DEF Submit, IsCount
  <2>4. CASE Classify(l, p)
    BY <1>1, <2>1, <2>4 DEF Classify, IsCount
  <2>5. CASE CancelCount(l)
    BY <1>1, <2>1, <2>5 DEF CancelCount, Blank
  <2> QED BY <1>3, <2>2, <2>3, <2>4, <2>5
<1>4. ASSUME NEW h, NEW plan, Begin(h, plan) PROVE FALSE
  BY <1>2, <1>4 DEF Begin, docs
<1>5. \A h : /\ \A c, q, d : ~Receive(h, c, q, d)
             /\ \A c, q, price : ~AdjustIn(h, c, q, price) /\ ~Import(h, c, q, price)
             /\ \A c, q : ~AdjustOut(h, c, q)
             /\ \A c, w, d : ~Transfer(h, c, w, d)
             /\ \A i, w, d : ~Ship(h, i, w, d)
  BY <1>4 DEF Receive, AdjustIn, Import, AdjustOut, Transfer, Ship
<1>6. \A h : /\ \A m, price : ~PostDraft(h, m, price)
             /\ \A l : ~StartCounting(h, l) /\ \A price : ~Complete(h, l, price)
             /\ \A o : ~StartOrder(h, o) /\ ~FinishOrder(h, o) /\ ~CancelOrder(h, o)
             /\ \A w : ~Release(h, w)
  BY <1>4 DEF PostDraft, StartCounting, Complete, StartOrder, FinishOrder, CancelOrder, Release
<1>7. /\ \A n, type, actual : ~CreateDraft(n, type, actual)
      /\ \A h : ~Fail(h)
  BY <1>2 DEF CreateDraft, Fail, docs
<1>8. ~UNCHANGED vars
  BY <1>2 DEF vars, docs
<1>9. PICK h \in Handlers : Commit(h)
  BY <1>3, <1>5, <1>6, <1>7, <1>8 DEF Next
<1>10. CommitCounting(h) \/ CommitCount(h)
  BY <1>2, <1>9 DEF Commit, CommitMove, CommitShipment, CommitImport, CommitDraft,
                    CommitOrder, CommitFinish, CommitCancel, docs
<1>11. ~CommitCounting(h)
  BY <1>1 DEF CommitCounting
<1>12. CommitCount(h)
  BY <1>10, <1>11
<1>13. job[h].doc = k
  BY <1>1, <1>12 DEF CommitCount
<1> QED BY <1>12, <1>13

LEMMA DraftSettled ==
  ASSUME QuantityInv, [Next]_vars, NEW n \in Drafts, draft'[n].status = "POSTED",
         draft[n].status # "POSTED"
  PROVE  item'[DraftCell[n]] = draft[n].actual
<1>1. PICK h \in Handlers : CommitDraft(h) /\ job[h].doc = n
  BY OnlyPostersPost
<1>2. PlanSettles(job[h])
  BY DEF QuantityInv, SettleInv, PlansSettle
<1>3. DraftCell[n] \in Cells
  BY DocumentsAssumption
<1>4. item'[DraftCell[n]] = After(job[h], DraftCell[n])
  BY <1>1, <1>3 DEF CommitDraft, Write, After
<1> QED BY <1>1, <1>2, <1>4 DEF PlanSettles, CommitDraft

LEMMA CountSettled ==
  ASSUME QuantityInv, [Next]_vars, NEW k \in Counts, count'[k].status = "COMPLETED",
         count[k].status # "COMPLETED", NEW p \in DOMAIN count[k].lines
  PROVE  item'[<<CountAt[k], p>>]
           = count[k].lines[p].fact
             + Net(SubSeq(moves[<<CountAt[k], p>>], count[k].lines[p].since + 1,
                          Len(moves[<<CountAt[k], p>>])))
<1> DEFINE c == <<CountAt[k], p>>
           l == count[k].lines[p]
           since == Net(SubSeq(moves[c], l.since + 1, Len(moves[c])))
<1>1. PICK h \in Handlers : CommitCount(h) /\ job[h].doc = k
  BY OnlyCountersComplete
<1>2. PlanSettles(job[h]) /\ LineFits(l, c)
  BY DEF QuantityInv, SettleInv, PlansSettle, LinesFit
<1>3. p \in Products /\ IsLine(l)
  BY DEF QuantityInv, CountInv, SafeInv, CountsOK, IsCount
<1>4. c \in Cells
  BY <1>3, DocumentsAssumption DEF Cells
<1>5. item'[c] = After(job[h], c)
  BY <1>1, <1>4 DEF CommitCount, Write, After
<1>6. After(job[h], c) = item[c] + Delta(k, p)
  BY <1>1, <1>2 DEF PlanSettles, CommitCount
<1>7. Delta(k, p) = l.fact - l.system /\ item[c] = l.system + since
  BY <1>2 DEF Delta, LineFits
<1>8. since \in Int
  <2>1. Movements(moves[c])
    BY <1>4 DEF QuantityInv, SettleInv, CellsFit
  <2>2. IsTail(SubSeq(moves[c], l.since + 1, Len(moves[c])), moves[c], l.since)
    BY <1>2, <2>1, TailMovements DEF LineFits
  <2> QED BY <2>2, NetType DEF IsTail
<1>9. l.fact \in Nat /\ l.system \in Nat
  BY <1>3 DEF IsLine
<1> HIDE DEF c, l, since
<1>10. item'[c] = l.fact + since
  BY <1>5, <1>6, <1>7, <1>8, <1>9
<1> QED BY <1>10 DEF c, l, since

(* One request at a time: the quantity of a stock item (StockItem.quantity)  *)
(* is what its movements add up to.                                          *)
THEOREM QuantityFollowsMovements ==
  ASSUME OneHandler
  PROVE  Spec => []QuantityIsMovements
<1>1. QuantityInv => QuantityIsMovements
  BY DEF QuantityInv, SettleInv, CellsFit, QuantityIsMovements
<1> QED BY QuantityInit, QuantityNext, <1>1, PTL DEF Spec

(* One request at a time: posting a draft (postAdjustment) leaves the        *)
(* quantity its line counted, and completing a count (complete) leaves what  *)
(* was counted and what moved since the count began.                         *)
THEOREM SerialDocumentsSettle ==
  ASSUME OneHandler
  PROVE  Spec => DocumentsSettleStock
<1> DEFINE Settle ==
      /\ \A n \in Drafts :
           draft'[n].status = "POSTED" /\ draft[n].status # "POSTED" =>
             item'[DraftCell[n]] = draft[n].actual
      /\ \A k \in Counts :
           count'[k].status = "COMPLETED" /\ count[k].status # "COMPLETED" =>
             \A p \in DOMAIN count[k].lines :
               LET c == <<CountAt[k], p>>
                   l == count[k].lines[p]
               IN  item'[c] = l.fact + Net(SubSeq(moves[c], l.since + 1, Len(moves[c])))
<1>1. QuantityInv /\ [Next]_vars => [Settle]_vars
  BY DraftSettled, CountSettled
<1> QED BY QuantityInit, QuantityNext, <1>1, PTL DEF Spec, DocumentsSettleStock
--------------------------------------------------------------------------------
(* Folds of sequences.  FoldLeft takes the greatest position first, so its *)
(* value on 1..k is reached after k steps.                                 *)

RunsTo(F, V, b, act, n, result) ==
  /\ F \in [0..n -> V]
  /\ F[0] = b
  /\ \A k \in 1..n : F[k] = act[k][F[k - 1]]
  /\ F[n] = result

LEMMA GreatestOfInterval ==
  ASSUME NEW k \in Nat \ {0}
  PROVE  Max(1..k) = k /\ (1..k) \ {k} = 1..(k - 1)
<1>1. 1..k # {} /\ 1..k \in SUBSET (1..k) /\ k \in 1..k
  OBVIOUS
<1>2. \E x \in 1..k : \A y \in 1..k : x >= y
  <2>1. \A y \in 1..k : k >= y
    OBVIOUS
  <2> QED BY <1>1, <2>1
<1>3. Max(1..k) \in 1..k /\ \A y \in 1..k : Max(1..k) >= y
  BY <1>2 DEF Max
<1>4. Max(1..k) >= k
  BY <1>1, <1>3
<1> DEFINE g == Max(1..k)
<1>5. g \in 1..k /\ g >= k
  BY <1>3, <1>4
<1> HIDE DEF g
<1>6. g = k
  BY <1>5
<1> QED BY <1>6 DEF g

\* H folds act from the greatest position, wherever it stays in V.
FoldsBack(H, V, b, act, n) ==
  /\ H[{}] = b
  /\ \A s \in SUBSET (1..n) :
       s # {} /\ H[s \ {Max(s)}] \in V => H[s] = act[Max(s)][H[s \ {Max(s)}]]

\* What FoldLeft chooses exists.
LEMMA SequenceFoldExists ==
  ASSUME NEW n \in Nat, NEW V, NEW b \in V, NEW act \in [1..n -> [V -> V]]
  PROVE  \E G \in [SUBSET (1..n) -> V] : FoldsBack(G, V, b, act, n)
<1> DEFINE S == 1..n
           pick == [s \in SUBSET S |-> Max(s)]
<1>1. IsFiniteSet(S)
  BY FS_Interval
<1>2. Picks(pick, S) /\ \A s \in SUBSET S : pick[s] = Max(s)
  BY GreatestIsPicked DEF Picks
<1>3. act \in [S -> [V -> V]]
  OBVIOUS
<1> HIDE DEF pick, S
<1>4. PICK G \in [SUBSET S -> V] : \A s \in SUBSET S : FoldStep(G, b, act, pick, s)
  <2>1. HasFold(V, b, act, pick, S)
    BY <1>1, <1>2, <1>3, FoldExists
  <2> QED BY <2>1 DEF HasFold
<1>5. G[{}] = b
  BY <1>4 DEF FoldStep
<1>6. ASSUME NEW s \in SUBSET S, s # {}
      PROVE  G[s] = act[Max(s)][G[s \ {Max(s)}]]
  <2>1. pick[s] = Max(s) /\ Max(s) \in s
    BY <1>2, <1>6 DEF Picks
  <2>2. G[s] = act[pick[s]][G[s \ {pick[s]}]]
    BY <1>4, <1>6 DEF FoldStep
  <2> QED BY <2>1, <2>2
<1> QED BY <1>5, <1>6 DEF FoldsBack, S

\* Such a fold is reached step by step.
LEMMA SequenceFoldRuns ==
  ASSUME NEW n \in Nat, NEW V, NEW b \in V, NEW act \in [1..n -> [V -> V]],
         NEW H, FoldsBack(H, V, b, act, n)
  PROVE  \E F : RunsTo(F, V, b, act, n, H[1..n])
<1> DEFINE F == [k \in 0..n |-> H[1..k]]
           Bad == {k \in 0..n : F[k] \notin V}
<1>1. F[0] = b
  <2>1. 1..0 = {}
    OBVIOUS
  <2> QED BY <2>1 DEF FoldsBack
<1>2. ASSUME NEW k \in 1..n, F[k - 1] \in V
      PROVE  F[k] = act[k][F[k - 1]] /\ F[k] \in V
  <2>1. k \in Nat \ {0} /\ 1..k \in SUBSET (1..n) /\ 1..k # {}
    <3>1. k \in 1..k /\ k \in Nat \ {0}
      OBVIOUS
    <3>2. 1..k \subseteq 1..n
      OBVIOUS
    <3> QED BY <3>1, <3>2
  <2>2. Max(1..k) = k /\ (1..k) \ {k} = 1..(k - 1)
    BY <2>1, GreatestOfInterval
  <2>3. H[(1..k) \ {Max(1..k)}] = F[k - 1]
    <3>1. k - 1 \in 0..n
      OBVIOUS
    <3>2. F[k - 1] = H[1..(k - 1)]
      BY <3>1
    <3>3. (1..k) \ {Max(1..k)} = 1..(k - 1)
      BY <2>2
    <3> HIDE DEF F
    <3> QED BY <3>2, <3>3, Zenon
  <2>4. H[1..k] = act[k][F[k - 1]]
    <3> HIDE DEF F
    <3> QED BY <1>2, <2>1, <2>2, <2>3 DEF FoldsBack
  <2>5. F[k] = H[1..k]
    OBVIOUS
  <2> HIDE DEF F
  <2> QED BY <1>2, <2>4, <2>5
<1>3. Bad = {}
  <2> SUFFICES ASSUME Bad # {} PROVE FALSE
    OBVIOUS
  <2>1. PICK k \in Bad : \A j \in Bad : k <= j
    <3>1. Bad \in SUBSET Nat
      OBVIOUS
    <3> HIDE DEF Bad
    <3> QED BY <3>1, SmallestNumber
  <2> HIDE DEF F
  <2>2. k \in 0..n /\ F[k] \notin V
    OBVIOUS
  <2>3. k # 0
    BY <2>2, <1>1
  <2>4. k \in 1..n /\ k - 1 \in 0..n
    BY <2>2, <2>3
  <2>5. F[k - 1] \in V
    BY <2>1, <2>4
  <2> QED BY <1>2, <2>2, <2>4, <2>5
<1>4. F \in [0..n -> V]
  BY <1>3
<1>5. \A k \in 1..n : F[k] = act[k][F[k - 1]]
  <2> TAKE k \in 1..n
  <2>1. k - 1 \in 0..n
    OBVIOUS
  <2>2. F[k - 1] \in V
    <3> HIDE DEF F
    <3> QED BY <1>4, <2>1
  <2> HIDE DEF F
  <2> QED BY <1>2, <2>2
<1>6. F[n] = H[1..n]
  OBVIOUS
<1> HIDE DEF F
<1> QED BY <1>1, <1>4, <1>5, <1>6 DEF RunsTo
--------------------------------------------------------------------------------
(* Sorting by date keeps what movements add up to.                         *)

\* r is s with m behind its first k elements.
IsInserted(r, s, k, m) ==
  /\ Len(r) = Len(s) + 1
  /\ \A i \in 1..k : r[i] = s[i]
  /\ r[k + 1] = m
  /\ \A i \in (k + 2)..(Len(s) + 1) : r[i] = s[i - 1]

LEMMA Inserted ==
  ASSUME NEW M, NEW s \in Seq(M), NEW m \in M, NEW k \in 0..Len(s)
  PROVE  /\ InsertAt(s, 1 + k, m) \in Seq(M)
         /\ IsInserted(InsertAt(s, 1 + k, m), s, k, m)
<1> DEFINE n == Len(s)
           a == SubSeq(s, 1, k)
           z == SubSeq(s, k + 1, n)
           am == a \o <<m>>
           r == am \o z
<1>1. n \in Nat /\ k \in Nat /\ k <= n
  OBVIOUS
<1>2. a \in Seq(M) /\ Len(a) = k /\ \A i \in 1..k : a[i] = s[i]
  OBVIOUS
<1>3. z \in Seq(M) /\ Len(z) = n - k /\ \A i \in 1..(n - k) : z[i] = s[k + i]
  OBVIOUS
<1>4. InsertAt(s, 1 + k, m) = r
  <2>1. (1 + k) - 1 = k /\ 1 + k = k + 1
    BY <1>1
  <2> QED BY <2>1 DEF InsertAt
<1> HIDE DEF a, z, n
<1>5. /\ am \in Seq(M) /\ Len(am) = k + 1
      /\ \A i \in 1..k : am[i] = s[i]
      /\ am[k + 1] = m
  BY <1>1, <1>2
<1> HIDE DEF am
<1>6. /\ r \in Seq(M) /\ Len(r) = n + 1
      /\ \A i \in 1..(k + 1) : r[i] = am[i]
      /\ \A i \in (k + 2)..(n + 1) : r[i] = z[i - (k + 1)]
  <2>1. r \in Seq(M)
    BY <1>3, <1>5
  <2>2. Len(r) = Len(am) + Len(z)
    BY <1>3, <1>5, ConcatProperties
  <2>3. \A i \in 1..(k + 1) : r[i] = am[i]
    BY <1>1, <1>3, <1>5
  <2>4. \A i \in (k + 2)..(n + 1) : r[i] = z[i - (k + 1)]
    BY <1>1, <1>3, <1>5
  <2>5. Len(r) = n + 1
    <3> HIDE DEF r
    <3> QED BY <1>1, <1>3, <1>5, <2>2
  <2> HIDE DEF r
  <2> QED BY <2>1, <2>3, <2>4, <2>5
<1> HIDE DEF r
<1>7. \A i \in 1..k : r[i] = s[i]
  BY <1>1, <1>5, <1>6
<1>8. r[k + 1] = m
  BY <1>1, <1>5, <1>6
<1>9. ASSUME NEW i \in (k + 2)..(n + 1) PROVE r[i] = s[i - 1]
  <2>1. i - (k + 1) \in 1..(n - k) /\ k + (i - (k + 1)) = i - 1
    BY <1>1
  <2> QED BY <1>3, <1>6, <2>1
<1> QED BY <1>4, <1>6, <1>7, <1>8, <1>9 DEF n, IsInserted

LEMMA InsertedMovements ==
  ASSUME NEW M, NEW s \in Seq(M), Movements(s), NEW m \in M, IsMovement(m),
         NEW k \in 0..Len(s)
  PROVE  Movements(InsertAt(s, 1 + k, m))
<1> DEFINE n == Len(s)
           r == InsertAt(s, 1 + k, m)
<1>0. r \in Seq(M) /\ IsInserted(r, s, k, m)
  BY Inserted
<1>2. n \in Nat /\ k \in 0..n /\ DOMAIN s = 1..n
  OBVIOUS
<1> HIDE DEF r
<1>1. /\ r \in Seq(M) /\ Len(r) = n + 1
      /\ \A i \in 1..k : r[i] = s[i]
      /\ r[k + 1] = m
      /\ \A i \in (k + 2)..(n + 1) : r[i] = s[i - 1]
  BY <1>0 DEF IsInserted
<1> HIDE DEF n
<1>3. ASSUME NEW i \in 1..(n + 1) PROVE IsMovement(r[i])
  <2>1. CASE i \in 1..k
    <3>1. i \in DOMAIN s
      BY <1>2, <2>1
    <3> QED BY <1>1, <2>1, <3>1 DEF Movements
  <2>2. CASE i = k + 1
    BY <1>1, <2>2
  <2>3. CASE i \in (k + 2)..(n + 1)
    <3>1. i - 1 \in DOMAIN s
      BY <1>2, <2>3
    <3> QED BY <1>1, <2>3, <3>1 DEF Movements
  <2> QED BY <1>2, <2>1, <2>2, <2>3
<1>4. DOMAIN r = 1..(n + 1)
  BY <1>1
<1> QED BY <1>1, <1>3, <1>4 DEF Movements, r

\* The sum of the first positions of a sequence of movements.
Upto(ms, k) == SumOn(SignedQuantities(ms), 1..k)

LEMMA UptoSteps ==
  ASSUME NEW ms, Movements(ms)
  PROVE  /\ Upto(ms, 0) = 0
         /\ \A k \in 0..Len(ms) : Upto(ms, k) \in Int
         /\ \A k \in 1..Len(ms) : Upto(ms, k) = Upto(ms, k - 1) + Signed(ms[k])
         /\ Upto(ms, Len(ms)) = Net(ms)
<1> DEFINE n == Len(ms)
           v == SignedQuantities(ms)
<1>1. /\ n \in Nat /\ DOMAIN ms = 1..n /\ Values(v, 1..n)
      /\ \A i \in 1..n : v[i] = Signed(ms[i])
  BY QuantitiesAreValues DEF SignedQuantities
<1>2. SumOn(v, 1..n) = Net(ms)
  BY <1>1, NetIsSum
<1> HIDE DEF v
<1>3. \A k \in 0..n : IsFiniteSet(1..k) /\ Values(v, 1..k)
  <2> TAKE k \in 0..n
  <2>1. 1..k \subseteq 1..n
    OBVIOUS
  <2> QED BY <1>1, <2>1, FS_Interval DEF Values
<1>4. \A k \in 0..n : SumOn(v, 1..k) \in Int
  BY <1>3, SumType
<1>5. SumOn(v, 1..0) = 0
  <2>1. 1..0 = {}
    OBVIOUS
  <2> QED BY <2>1, SumEmpty
<1>6. ASSUME NEW k \in 1..n
      PROVE  SumOn(v, 1..k) = SumOn(v, 1..(k - 1)) + Signed(ms[k])
  <2> DEFINE new == SumOn(v, 1..k)
             old == SumOn(v, 1..(k - 1))
             by == Signed(ms[k])
  <2>1. k \in 0..n /\ k - 1 \in 0..n /\ k \in 1..k /\ (1..k) \ {k} = 1..(k - 1)
    BY <1>1
  <2>2. SumOn(v, 1..k) = v[k] + SumOn(v, (1..k) \ {k})
    BY <1>3, <2>1, SumRemove
  <2>3. new = by + old
    BY <1>1, <2>1, <2>2
  <2>4. old \in Int /\ by \in Int
    <3>1. v[k] \in Int /\ v[k] = by
      BY <1>1 DEF Values
    <3> QED BY <1>4, <2>1, <3>1
  <2> HIDE DEF new, old, by
  <2>5. new = old + by
    BY <2>3, <2>4
  <2> QED BY <2>5 DEF new, old, by
<1> QED BY <1>2, <1>4, <1>5, <1>6 DEF Upto, v

\* A movement counts the same wherever it is put.
LEMMA NetInserted ==
  ASSUME NEW M, NEW s \in Seq(M), Movements(s), NEW m \in M, IsMovement(m),
         NEW k \in 0..Len(s)
  PROVE  Net(InsertAt(s, 1 + k, m)) = Net(s) + Signed(m)
<1> DEFINE n == Len(s)
           r == InsertAt(s, 1 + k, m)
           by == Signed(m)
           old(i) == Upto(s, i)
           new(i) == Upto(r, i)
<1>0. IsInserted(r, s, k, m)
  BY Inserted
<1>1. /\ Len(r) = n + 1
      /\ \A i \in 1..k : r[i] = s[i]
      /\ r[k + 1] = m
      /\ \A i \in (k + 2)..(n + 1) : r[i] = s[i - 1]
  BY <1>0 DEF IsInserted
<1>2. n \in Nat /\ k \in 0..n /\ by \in Int
  BY SignedType
<1>3. Movements(r)
  BY InsertedMovements
<1> HIDE DEF r, n
<1>4. /\ old(0) = 0 /\ \A i \in 0..n : old(i) \in Int
      /\ \A i \in 1..n : old(i) = old(i - 1) + Signed(s[i])
      /\ old(n) = Net(s)
  BY UptoSteps DEF n
<1>5. /\ new(0) = 0 /\ \A i \in 0..(n + 1) : new(i) \in Int
      /\ \A i \in 1..(n + 1) : new(i) = new(i - 1) + Signed(r[i])
      /\ new(n + 1) = Net(r)
  BY <1>1, <1>3, UptoSteps
<1> HIDE DEF old, new
<1> DEFINE Bad == {i \in 0..n : IF i <= k THEN new(i) # old(i)
                                          ELSE new(i + 1) # old(i) + by}
<1>6. Bad = {}
  <2> SUFFICES ASSUME Bad # {} PROVE FALSE
    OBVIOUS
  <2>1. PICK i \in Bad : \A j \in Bad : i <= j
    <3>1. Bad \in SUBSET Nat
      BY <1>2
    <3> HIDE DEF Bad
    <3> QED BY <3>1, SmallestNumber
  <2>2. i \in 0..n
    OBVIOUS
  <2>3. i # 0
    BY <1>2, <1>4, <1>5
  <2>4. i - 1 \in 0..n /\ i - 1 \notin Bad
    BY <1>2, <2>1, <2>2, <2>3
  <2>5. CASE i <= k
    <3>1. new(i - 1) = old(i - 1)
      BY <1>2, <2>2, <2>4, <2>5
    <3>2. Signed(r[i]) = Signed(s[i])
      BY <1>1, <2>2, <2>3, <2>5
    <3>3. new(i) = old(i)
      BY <1>2, <1>4, <1>5, <2>2, <2>3, <3>1, <3>2
    <3> QED BY <2>5, <3>3
  <2>6. CASE i = k + 1
    <3>1. new(k) = old(k)
      BY <1>2, <2>4, <2>6
    <3>2. new(k + 1) = new(k) + by
      BY <1>1, <1>2, <1>5
    <3>3. new(k + 2) = new(k + 1) + Signed(s[k + 1])
      <4>1. k + 2 \in 1..(n + 1) /\ (k + 2) - 1 = k + 1 /\ k + 2 \in (k + 2)..(n + 1)
        BY <1>2, <2>2, <2>6
      <4>2. new(k + 2) = new((k + 2) - 1) + Signed(r[k + 2])
        BY <1>5, <4>1
      <4> QED BY <1>1, <4>1, <4>2
    <3>4. old(k + 1) = old(k) + Signed(s[k + 1])
      BY <1>2, <1>4, <2>2, <2>6
    <3>5. old(k) \in Int /\ Signed(s[k + 1]) \in Int
      <4>1. k + 1 \in DOMAIN s
        BY <1>2, <2>2, <2>6 DEF n
      <4> QED BY <1>2, <1>4, <4>1, SignedType DEF Movements
    <3>6. new(k + 2) = old(k + 1) + by
      <4> DEFINE x == Signed(s[k + 1])
      <4> HIDE DEF by, x
      <4> QED BY <1>2, <3>1, <3>2, <3>3, <3>4, <3>5 DEF x
    <3>7. i + 1 = k + 2 /\ ~(i <= k)
      BY <1>2, <2>6
    <3> QED BY <2>6, <3>6, <3>7
  <2>7. CASE i > k + 1
    <3>1. ~(i - 1 <= k) /\ ~(i <= k) /\ (i - 1) + 1 = i
      BY <1>2, <2>2, <2>7
    <3>2. new(i) = old(i - 1) + by
      BY <2>4, <3>1
    <3>3. new(i + 1) = new(i) + Signed(s[i])
      <4>1. i + 1 \in 1..(n + 1) /\ (i + 1) - 1 = i /\ i + 1 \in (k + 2)..(n + 1)
        BY <1>2, <2>2, <2>7
      <4> QED BY <1>1, <1>5, <4>1
    <3>4. old(i) = old(i - 1) + Signed(s[i])
      BY <1>2, <1>4, <2>2, <2>3
    <3>5. old(i - 1) \in Int /\ Signed(s[i]) \in Int
      <4>1. i \in DOMAIN s
        BY <1>2, <2>2, <2>3 DEF n
      <4> QED BY <1>4, <2>4, <4>1, SignedType DEF Movements
    <3>6. new(i + 1) = old(i) + by
      <4> DEFINE x == Signed(s[i])
      <4> HIDE DEF by, x
      <4> QED BY <1>2, <3>2, <3>3, <3>4, <3>5 DEF x
    <3> QED BY <3>1, <3>6
  <2> QED BY <1>2, <2>2, <2>5, <2>6, <2>7
<1>7. new(n + 1) = old(n) + by
  <2>1. n \in 0..n /\ n \notin Bad
    BY <1>2, <1>6
  <2>2. CASE n > k
    BY <1>2, <2>1, <2>2
  <2>3. CASE n = k
    <3>1. new(k) = old(k)
      BY <1>2, <2>1, <2>3
    <3>2. new(k + 1) = new(k) + by
      BY <1>1, <1>2, <1>5
    <3> QED BY <2>3, <3>1, <3>2
  <2> QED BY <1>2, <2>2, <2>3
<1> QED BY <1>4, <1>5, <1>7 DEF r

LEMMA PlaceInserts ==
  ASSUME NEW M, NEW s \in Seq(M), NEW m \in M
  PROVE  /\ Place(s, m) \in Seq(M)
         /\ Movements(s) /\ IsMovement(m) =>
              Movements(Place(s, m)) /\ Net(Place(s, m)) = Net(s) + Signed(m)
<1> DEFINE E == {i \in DOMAIN s : s[i].date <= m.date}
           k == Cardinality(E)
<1>1. k \in 0..Len(s)
  <2> DEFINE n == Len(s)
  <2>1. E \subseteq 1..n /\ n \in Nat
    OBVIOUS
  <2> HIDE DEF E, n
  <2>2. IsFiniteSet(1..n) /\ Cardinality(1..n) = n
    <3>1. IsFiniteSet(1..n) /\ Cardinality(1..n) = IF 1 > n THEN 0 ELSE n - 1 + 1
      BY <2>1, FS_Interval
    <3> HIDE DEF k
    <3> QED BY <2>1, <3>1
  <2>3. IsFiniteSet(E) /\ k <= n
    BY <2>1, <2>2, FS_Subset
  <2>4. k \in Nat
    BY <2>3, FS_CardinalityType
  <2> QED BY <2>1, <2>3, <2>4 DEF n
<1>2. Place(s, m) = InsertAt(s, 1 + k, m)
  BY DEF Place
<1> HIDE DEF k
<1> QED BY <1>1, <1>2, Inserted, InsertedMovements, NetInserted

\* What ByDate does is a run of Place.
LEMMA ByDateRuns ==
  ASSUME NEW M, NEW ms \in Seq(M)
  PROVE  \E F : /\ F \in [0..Len(ms) -> Seq(M)]
                /\ F[0] = <<>>
                /\ \A k \in 1..Len(ms) : F[k] = Place(F[k - 1], ms[k])
                /\ ByDate(ms) = F[Len(ms)]
<1> DEFINE n == Len(ms)
           V == Seq(M)
           act == [i \in 1..n |-> [s \in V |-> Place(s, ms[i])]]
           Eq(H) == H = [s \in SUBSET (DOMAIN ms) |->
                           IF s = {} THEN <<>>
                           ELSE Place(H[s \ {Max(s)}], ms[Max(s)])]
<1>1. n \in Nat /\ DOMAIN ms = 1..n /\ <<>> \in V /\ \A i \in 1..n : ms[i] \in M
  OBVIOUS
<1>2. ASSUME NEW s \in V, NEW i \in 1..n PROVE Place(s, ms[i]) \in V
  BY <1>1, <1>2, PlaceInserts
<1>3. act \in [1..n -> [V -> V]]
  <2> HIDE DEF n, V
  <2> QED BY <1>2
<1>4. \A i \in 1..n : \A s \in V : act[i][s] = Place(s, ms[i])
  <2> HIDE DEF n, V
  <2> QED OBVIOUS
<1> HIDE DEF act, n, V
<1>5. \E H : Eq(H)
  <2>1. PICK G \in [SUBSET (1..n) -> V] : FoldsBack(G, V, <<>>, act, n)
    BY <1>1, <1>3, SequenceFoldExists
  <2>2. \A s \in SUBSET (1..n) :
          G[s] = IF s = {} THEN <<>> ELSE Place(G[s \ {Max(s)}], ms[Max(s)])
    <3> TAKE s \in SUBSET (1..n)
    <3>1. CASE s = {}
      BY <2>1, <3>1 DEF FoldsBack
    <3>2. CASE s # {}
      <4>1. Max(s) \in 1..n /\ G[s \ {Max(s)}] \in V
        BY <1>1, <3>2, GreatestIsPicked
      <4>2. G[s] = act[Max(s)][G[s \ {Max(s)}]]
        BY <2>1, <3>2, <4>1 DEF FoldsBack
      <4> QED BY <1>4, <3>2, <4>1, <4>2
    <3> QED BY <3>1, <3>2
  <2>3. Eq(G)
    BY <1>1, <2>1, <2>2
  <2> HIDE DEF Eq
  <2> QED BY <2>3
<1>6. PICK H : Eq(H) /\ ByDate(ms) = H[DOMAIN ms]
  BY <1>5 DEF ByDate, FoldLeft, MapThenFoldSet
<1>7. H[{}] = <<>>
  BY <1>6
<1>8. \A s \in SUBSET (1..n) :
        s # {} /\ H[s \ {Max(s)}] \in V => H[s] = act[Max(s)][H[s \ {Max(s)}]]
  <2> SUFFICES ASSUME NEW s \in SUBSET (1..n), s # {}, H[s \ {Max(s)}] \in V
               PROVE  H[s] = act[Max(s)][H[s \ {Max(s)}]]
    OBVIOUS
  <2>1. Max(s) \in 1..n
    BY <1>1, GreatestIsPicked
  <2>2. H[s] = Place(H[s \ {Max(s)}], ms[Max(s)])
    BY <1>1, <1>6
  <2> QED BY <1>4, <2>1, <2>2
<1>9. PICK F : RunsTo(F, V, <<>>, act, n, H[1..n])
  <2>1. FoldsBack(H, V, <<>>, act, n)
    BY <1>7, <1>8 DEF FoldsBack
  <2> QED BY <1>1, <1>3, <2>1, SequenceFoldRuns
<1>10. F \in [0..n -> V] /\ F[0] = <<>>
  BY <1>9 DEF RunsTo
<1>11. \A k \in 1..n : F[k] = Place(F[k - 1], ms[k])
  <2> TAKE k \in 1..n
  <2>1. k - 1 \in 0..n
    BY <1>1
  <2>2. F[k - 1] \in V
    BY <1>10, <2>1
  <2>3. F[k] = act[k][F[k - 1]]
    BY <1>9 DEF RunsTo
  <2> QED BY <1>4, <2>2, <2>3
<1>12. ByDate(ms) = F[n]
  BY <1>1, <1>6, <1>9 DEF RunsTo
<1> QED BY <1>10, <1>11, <1>12 DEF n, V

\* Sorting keeps what the movements add up to.
LEMMA SortedMovements ==
  ASSUME NEW ms, Movements(ms)
  PROVE  Movements(ByDate(ms)) /\ Net(ByDate(ms)) = Net(ms)
<1>1. PICK M : ms \in Seq(M)
  BY DEF Movements
<1> DEFINE n == Len(ms)
           up(k) == Upto(ms, k)
<1>2. n \in Nat /\ \A i \in 1..n : ms[i] \in M /\ IsMovement(ms[i])
  BY <1>1 DEF Movements
<1>3. PICK F : /\ F \in [0..n -> Seq(M)]
               /\ F[0] = <<>>
               /\ \A k \in 1..n : F[k] = Place(F[k - 1], ms[k])
               /\ ByDate(ms) = F[n]
  BY <1>1, ByDateRuns
<1>4. /\ up(0) = 0 /\ \A k \in 1..n : up(k) = up(k - 1) + Signed(ms[k])
      /\ up(n) = Net(ms)
  BY UptoSteps
<1> HIDE DEF n, up
<1> DEFINE Bad == {k \in 0..n : ~(Movements(F[k]) /\ Net(F[k]) = up(k))}
<1>5. Bad = {}
  <2> SUFFICES ASSUME Bad # {} PROVE FALSE
    OBVIOUS
  <2>1. PICK k \in Bad : \A j \in Bad : k <= j
    <3>1. Bad \in SUBSET Nat
      BY <1>2
    <3> HIDE DEF Bad
    <3> QED BY <3>1, SmallestNumber
  <2>2. k # 0
    BY <1>3, <1>4, NetEmpty
  <2>3. k \in 1..n /\ k - 1 \in 0..n /\ k - 1 \notin Bad
    BY <1>2, <2>1, <2>2
  <2>4. F[k - 1] \in Seq(M) /\ Movements(F[k - 1]) /\ Net(F[k - 1]) = up(k - 1)
    BY <1>3, <2>3
  <2>5. ms[k] \in M /\ IsMovement(ms[k])
    BY <1>2, <2>3
  <2>6. Movements(F[k]) /\ Net(F[k]) = Net(F[k - 1]) + Signed(ms[k])
    BY <1>3, <2>3, <2>4, <2>5, PlaceInserts
  <2> QED BY <1>4, <2>3, <2>4, <2>6
<1>6. n \in 0..n /\ n \notin Bad
  BY <1>2, <1>5
<1> QED BY <1>3, <1>4, <1>6

--------------------------------------------------------------------------------
(* Layers                                                                  *)

\* Layers of movements in the order they are given.
LayersOf(ts) ==
  FoldLeft(LAMBDA ls, m :
             IF m.in THEN ls \o [i \in 1..m.qty |-> m.price]
                     ELSE SubSeq(ls, m.qty + 1, Len(ls)),
           <<>>, ts)

LEMMA LayersAreOfSorted ==
  ASSUME NEW ms
  PROVE  Layers(ms) = LayersOf(ByDate(ms))
BY DEF Layers, LayersOf

\* The layers after a movement.
LayersAfter(ls, m) == IF m.in THEN ls \o [i \in 1..m.qty |-> m.price]
                        ELSE SubSeq(ls, m.qty + 1, Len(ls))

LEMMA LayersAfterMovement ==
  ASSUME NEW P, NEW ls \in Seq(P), NEW m, IsMovement(m), m.price \in P
  PROVE  /\ LayersAfter(ls, m) \in Seq(P)
         /\ Len(LayersAfter(ls, m)) >= Len(ls) + Signed(m)
<1> DEFINE q == m.qty
           new == [i \in 1..q |-> m.price]
<1>1. q \in Nat /\ Len(ls) \in Nat /\ m.in \in BOOLEAN
  BY DEF IsMovement
<1>2. CASE m.in
  <2>1. new \in Seq(P) /\ Len(new) = q
    <3> HIDE DEF q
    <3> QED BY <1>1
  <2> HIDE DEF new
  <2>2. LayersAfter(ls, m) = ls \o new
    BY <1>2 DEF LayersAfter, new
  <2>3. ls \o new \in Seq(P) /\ Len(ls \o new) = Len(ls) + q
    BY <2>1, ConcatProperties
  <2>4. Signed(m) = q
    BY <1>2 DEF Signed
  <2> QED BY <1>1, <2>2, <2>3, <2>4
<1>3. CASE ~m.in
  <2> DEFINE rest == SubSeq(ls, q + 1, Len(ls))
  <2>1. LayersAfter(ls, m) = rest
    BY <1>3 DEF LayersAfter
  <2>2. Signed(m) = -q
    BY <1>3 DEF Signed
  <2>3. CASE q <= Len(ls)
    <3>1. q + 1 \in 1..(Len(ls) + 1) /\ Len(ls) \in (q + 1 - 1)..Len(ls)
      BY <1>1, <2>3
    <3>2. rest \in Seq(P) /\ Len(rest) = Len(ls) - (q + 1) + 1
      <4> HIDE DEF q
      <4> QED BY <1>1, <3>1, SubSeqProperties
    <3> HIDE DEF rest, q
    <3> QED BY <1>1, <2>1, <2>2, <3>2
  <2>4. CASE q > Len(ls)
    <3>1. rest = <<>>
      <4> HIDE DEF q
      <4> QED BY <1>1, <2>4
    <3> HIDE DEF rest, q
    <3> QED BY <1>1, <2>1, <2>2, <2>4, <3>1
  <2> QED BY <1>1, <2>3, <2>4
<1> QED BY <1>1, <1>2, <1>3

LEMMA LayersRun ==
  ASSUME NEW ts, Movements(ts), NEW P, \A i \in 1..Len(ts) : ts[i].price \in P
  PROVE  \E F : /\ F \in [0..Len(ts) -> Seq(P)]
                /\ F[0] = <<>>
                /\ \A k \in 1..Len(ts) : F[k] = LayersAfter(F[k - 1], ts[k])
                /\ LayersOf(ts) = F[Len(ts)]
<1> DEFINE n == Len(ts)
           V == Seq(P)
           act == [i \in 1..n |-> [ls \in V |-> LayersAfter(ls, ts[i])]]
           Eq(H) == H = [s \in SUBSET (DOMAIN ts) |->
                           IF s = {} THEN <<>>
                           ELSE IF ts[Max(s)].in
                                THEN H[s \ {Max(s)}]
                                       \o [i \in 1..ts[Max(s)].qty |-> ts[Max(s)].price]
                                ELSE SubSeq(H[s \ {Max(s)}], ts[Max(s)].qty + 1,
                                            Len(H[s \ {Max(s)}]))]
<1>1. n \in Nat /\ DOMAIN ts = 1..n /\ <<>> \in V
  BY QuantitiesAreValues
<1>2. ASSUME NEW ls \in V, NEW i \in 1..n PROVE LayersAfter(ls, ts[i]) \in V
  <2>1. IsMovement(ts[i])
    BY <1>1, <1>2 DEF Movements
  <2> QED BY <1>2, <2>1, LayersAfterMovement
<1>3. act \in [1..n -> [V -> V]]
  <2> HIDE DEF n, V
  <2> QED BY <1>2
<1>4. \A i \in 1..n : \A ls \in V : act[i][ls] = LayersAfter(ls, ts[i])
  <2> HIDE DEF n, V
  <2> QED OBVIOUS
<1> HIDE DEF act, n, V
<1>5. \E H : Eq(H)
  <2>1. PICK G \in [SUBSET (1..n) -> V] : FoldsBack(G, V, <<>>, act, n)
    BY <1>1, <1>3, SequenceFoldExists
  <2>2. \A s \in SUBSET (1..n) :
          G[s] = IF s = {} THEN <<>> ELSE LayersAfter(G[s \ {Max(s)}], ts[Max(s)])
    <3> TAKE s \in SUBSET (1..n)
    <3>1. CASE s = {}
      BY <2>1, <3>1 DEF FoldsBack
    <3>2. CASE s # {}
      <4>1. Max(s) \in 1..n /\ G[s \ {Max(s)}] \in V
        BY <1>1, <3>2, GreatestIsPicked
      <4>2. G[s] = act[Max(s)][G[s \ {Max(s)}]]
        BY <2>1, <3>2, <4>1 DEF FoldsBack
      <4> QED BY <1>4, <3>2, <4>1, <4>2
    <3> QED BY <3>1, <3>2
  <2>3. Eq(G)
    BY <1>1, <2>1, <2>2, Zenon DEF LayersAfter
  <2> HIDE DEF Eq
  <2> QED BY <2>3
<1>6. PICK H : Eq(H) /\ LayersOf(ts) = H[DOMAIN ts]
  BY <1>5 DEF LayersOf, FoldLeft, MapThenFoldSet
<1>7. \A s \in SUBSET (1..n) :
        H[s] = IF s = {} THEN <<>> ELSE LayersAfter(H[s \ {Max(s)}], ts[Max(s)])
  BY <1>1, <1>6, Zenon DEF LayersAfter
<1> HIDE DEF Eq
<1>8. FoldsBack(H, V, <<>>, act, n)
  <2>1. H[{}] = <<>>
    BY <1>7
  <2>2. ASSUME NEW s \in SUBSET (1..n), s # {}, H[s \ {Max(s)}] \in V
        PROVE  H[s] = act[Max(s)][H[s \ {Max(s)}]]
    <3>1. Max(s) \in 1..n
      BY <1>1, <2>2, GreatestIsPicked
    <3> QED BY <1>4, <1>7, <2>2, <3>1
  <2> QED BY <2>1, <2>2 DEF FoldsBack
<1>9. PICK F : RunsTo(F, V, <<>>, act, n, H[1..n])
  BY <1>1, <1>3, <1>8, SequenceFoldRuns
<1>10. F \in [0..n -> V] /\ F[0] = <<>> /\ F[n] = H[1..n]
  BY <1>9 DEF RunsTo
<1>11. \A k \in 1..n : F[k] = LayersAfter(F[k - 1], ts[k])
  <2> TAKE k \in 1..n
  <2>1. k - 1 \in 0..n
    BY <1>1
  <2>2. F[k - 1] \in V
    BY <1>10, <2>1
  <2>3. F[k] = act[k][F[k - 1]]
    BY <1>9 DEF RunsTo
  <2> QED BY <1>4, <2>2, <2>3
<1>12. LayersOf(ts) = F[n]
  BY <1>1, <1>6, <1>10
<1> QED BY <1>10, <1>11, <1>12 DEF n, V

\* An issue never takes more layers than units: there are at least as many
\* layers as the movements add up to.
LEMMA LayersCoverNet ==
  ASSUME NEW ts, Movements(ts)
  PROVE  Len(LayersOf(ts)) \in Nat /\ Len(LayersOf(ts)) >= Net(ts)
<1> DEFINE n == Len(ts)
           P == {ts[i].price : i \in 1..n}
           up(k) == Upto(ts, k)
<1>1. \A i \in 1..n : ts[i].price \in P
  OBVIOUS
<1>2. n \in Nat /\ \A i \in 1..n : IsMovement(ts[i])
  BY QuantitiesAreValues DEF Movements
<1> HIDE DEF P
<1>3. PICK F : /\ F \in [0..n -> Seq(P)]
               /\ F[0] = <<>>
               /\ \A k \in 1..n : F[k] = LayersAfter(F[k - 1], ts[k])
               /\ LayersOf(ts) = F[n]
  BY <1>1, LayersRun
<1>4. /\ up(0) = 0 /\ \A k \in 0..n : up(k) \in Int
      /\ \A k \in 1..n : up(k) = up(k - 1) + Signed(ts[k])
      /\ up(n) = Net(ts)
  BY UptoSteps
<1> HIDE DEF n, up
<1> DEFINE Bad == {k \in 0..n : ~(Len(F[k]) >= up(k))}
<1>5. Bad = {}
  <2> SUFFICES ASSUME Bad # {} PROVE FALSE
    OBVIOUS
  <2>1. PICK k \in Bad : \A j \in Bad : k <= j
    <3>1. Bad \in SUBSET Nat
      BY <1>2
    <3> HIDE DEF Bad
    <3> QED BY <3>1, SmallestNumber
  <2>2. k # 0
    <3>1. Len(F[0]) = 0
      BY <1>3
    <3> QED BY <1>4, <3>1
  <2>3. k \in 1..n /\ k - 1 \in 0..n /\ k - 1 \notin Bad
    BY <1>2, <2>1, <2>2
  <2>4. F[k - 1] \in Seq(P) /\ Len(F[k - 1]) >= up(k - 1)
    BY <1>3, <2>3
  <2>5. Len(F[k]) >= Len(F[k - 1]) + Signed(ts[k]) /\ F[k] \in Seq(P)
    BY <1>1, <1>2, <1>3, <2>3, <2>4, LayersAfterMovement
  <2>6. Signed(ts[k]) \in Int /\ Len(F[k]) \in Nat /\ Len(F[k - 1]) \in Nat
    BY <1>2, <2>3, <2>4, <2>5, SignedType
  <2>7. up(k) = up(k - 1) + Signed(ts[k]) /\ up(k - 1) \in Int
    BY <1>4, <2>3
  <2> DEFINE x == Signed(ts[k])
             a == Len(F[k - 1])
             z == Len(F[k])
  <2>8. z >= a + x /\ a >= up(k - 1) /\ up(k) = up(k - 1) + x
    BY <2>4, <2>5, <2>7
  <2>9. x \in Int /\ a \in Nat /\ z \in Nat
    BY <2>6
  <2>10. ~(z >= up(k))
    OBVIOUS
  <2> HIDE DEF x, a, z, Bad
  <2> QED BY <2>7, <2>8, <2>9, <2>10
<1>6. n \in 0..n /\ n \notin Bad
  BY <1>2, <1>5
<1>7. F[n] \in Seq(P)
  BY <1>3, <1>6
<1> QED BY <1>3, <1>4, <1>6, <1>7

LEMMA LayersCover == QuantityInv => LayersCoverStock
<1> SUFFICES ASSUME QuantityInv, NEW c \in Cells
             PROVE  Len(Layers(moves[c])) >= item[c]
  BY DEF LayersCoverStock
<1>1. Movements(moves[c]) /\ item[c] = Net(moves[c])
  BY DEF QuantityInv, SettleInv, CellsFit
<1>2. Movements(ByDate(moves[c])) /\ Net(ByDate(moves[c])) = item[c]
  BY <1>1, SortedMovements
<1>3. Len(LayersOf(ByDate(moves[c]))) >= item[c]
  BY <1>2, LayersCoverNet
<1> QED BY <1>3, LayersAreOfSorted

(* One request at a time: an issue that passed the check of the quantity is  *)
(* costed from receipts to its last unit (fifoIssueUnitCost), in whatever    *)
(* order documents were dated.                                               *)
THEOREM SerialIssuesAreCovered ==
  ASSUME OneHandler
  PROVE  Spec => []LayersCoverStock
<1>1. QuantityInv => LayersCoverStock
  BY LayersCover
<1> QED BY QuantityInit, QuantityNext, <1>1, PTL DEF Spec

--------------------------------------------------------------------------------
(* The sum of a sequence                                                   *)

Sums(F, s) ==
  /\ F \in [0..Len(s) -> Nat]
  /\ F[0] = 0
  /\ \A k \in 1..Len(s) : F[k] = F[k - 1] + s[k]

LEMMA SumOfRuns ==
  ASSUME NEW s \in Seq(Nat)
  PROVE  \E F : Sums(F, s) /\ SumOf(s) = F[Len(s)]
<1> DEFINE n == Len(s)
           act == [i \in 1..n |-> [x \in Nat |-> x + s[i]]]
           Eq(H) == H = [t \in SUBSET (DOMAIN s) |->
                           IF t = {} THEN 0 ELSE H[t \ {Max(t)}] + s[Max(t)]]
<1>1. n \in Nat /\ DOMAIN s = 1..n /\ \A i \in 1..n : s[i] \in Nat
  OBVIOUS
<1> HIDE DEF n
<1>2. act \in [1..n -> [Nat -> Nat]]
  BY <1>1
<1>3. \A i \in 1..n : \A x \in Nat : act[i][x] = x + s[i]
  OBVIOUS
<1> HIDE DEF act
<1>4. \E H : Eq(H)
  <2>1. PICK G \in [SUBSET (1..n) -> Nat] : FoldsBack(G, Nat, 0, act, n)
    BY <1>1, <1>2, SequenceFoldExists
  <2>2. \A t \in SUBSET (1..n) :
          G[t] = IF t = {} THEN 0 ELSE G[t \ {Max(t)}] + s[Max(t)]
    <3> TAKE t \in SUBSET (1..n)
    <3>1. CASE t = {}
      BY <2>1, <3>1 DEF FoldsBack
    <3>2. CASE t # {}
      <4>1. Max(t) \in 1..n /\ G[t \ {Max(t)}] \in Nat
        BY <1>1, <3>2, GreatestIsPicked
      <4>2. G[t] = act[Max(t)][G[t \ {Max(t)}]]
        BY <2>1, <3>2, <4>1 DEF FoldsBack
      <4> QED BY <1>3, <3>2, <4>1, <4>2
    <3> QED BY <3>1, <3>2
  <2>3. Eq(G)
    BY <1>1, <2>1, <2>2, Zenon
  <2> HIDE DEF Eq
  <2> QED BY <2>3
<1>5. PICK H : Eq(H) /\ SumOf(s) = H[DOMAIN s]
  BY <1>4 DEF SumOf, FoldLeft, MapThenFoldSet
<1>6. \A t \in SUBSET (1..n) :
        H[t] = IF t = {} THEN 0 ELSE H[t \ {Max(t)}] + s[Max(t)]
  BY <1>1, <1>5, Zenon
<1> HIDE DEF Eq
<1>7. FoldsBack(H, Nat, 0, act, n)
  <2>1. H[{}] = 0
    BY <1>6
  <2>2. ASSUME NEW t \in SUBSET (1..n), t # {}, H[t \ {Max(t)}] \in Nat
        PROVE  H[t] = act[Max(t)][H[t \ {Max(t)}]]
    <3>1. Max(t) \in 1..n
      BY <1>1, <2>2, GreatestIsPicked
    <3> QED BY <1>3, <1>6, <2>2, <3>1
  <2> QED BY <2>1, <2>2 DEF FoldsBack
<1>8. PICK F : RunsTo(F, Nat, 0, act, n, H[1..n])
  BY <1>1, <1>2, <1>7, SequenceFoldRuns
<1>9. F \in [0..n -> Nat] /\ F[0] = 0 /\ F[n] = H[1..n]
  BY <1>8 DEF RunsTo
<1>10. \A k \in 1..n : F[k] = F[k - 1] + s[k]
  <2> TAKE k \in 1..n
  <2>1. k - 1 \in 0..n
    BY <1>1
  <2>2. F[k - 1] \in Nat
    BY <1>9, <2>1
  <2>3. F[k] = act[k][F[k - 1]]
    BY <1>8 DEF RunsTo
  <2> QED BY <1>3, <2>2, <2>3
<1>11. SumOf(s) = F[n]
  BY <1>1, <1>5, <1>9
<1> QED BY <1>9, <1>10, <1>11 DEF Sums, n

LEMMA SumOfType ==
  ASSUME NEW s \in Seq(Nat)
  PROVE  SumOf(s) \in Nat
<1>1. PICK F : Sums(F, s) /\ SumOf(s) = F[Len(s)]
  BY SumOfRuns
<1>2. Len(s) \in 0..Len(s)
  OBVIOUS
<1> QED BY <1>1, <1>2 DEF Sums

\* The sum of two sequences is that of both.
LEMMA SumOfConcat ==
  ASSUME NEW s \in Seq(Nat), NEW t \in Seq(Nat)
  PROVE  SumOf(s \o t) = SumOf(s) + SumOf(t)
<1> DEFINE a == Len(s)
           z == Len(t)
           u == s \o t
<1>1. a \in Nat /\ z \in Nat
  OBVIOUS
<1>2. /\ u \in Seq(Nat) /\ Len(u) = a + z
      /\ \A i \in 1..(a + z) : u[i] = IF i <= a THEN s[i] ELSE t[i - a]
  BY ConcatProperties
<1> HIDE DEF u
<1>3. PICK F : Sums(F, s) /\ SumOf(s) = F[a]
  BY SumOfRuns
<1>4. PICK G : Sums(G, t) /\ SumOf(t) = G[z]
  BY SumOfRuns
<1>5. PICK H : Sums(H, u) /\ SumOf(u) = H[a + z]
  BY <1>2, SumOfRuns
<1>6. /\ F[0] = 0 /\ \A i \in 0..a : F[i] \in Nat
      /\ \A i \in 1..a : F[i] = F[i - 1] + s[i]
  BY <1>3 DEF Sums
<1>7. /\ G[0] = 0 /\ \A i \in 0..z : G[i] \in Nat
      /\ \A i \in 1..z : G[i] = G[i - 1] + t[i]
      /\ \A i \in 1..z : t[i] \in Nat
  <2>1. \A i \in 1..z : t[i] \in Nat
    OBVIOUS
  <2>2. /\ G[0] = 0 /\ \A i \in 0..z : G[i] \in Nat
        /\ \A i \in 1..z : G[i] = G[i - 1] + t[i]
    BY <1>4 DEF Sums
  <2> QED BY <2>1, <2>2
<1>8. /\ H[0] = 0
      /\ \A i \in 1..(a + z) : H[i] = H[i - 1] + u[i]
  BY <1>2, <1>5 DEF Sums
<1> HIDE DEF a, z
<1> DEFINE Bad == {i \in 0..(a + z) : H[i] # IF i <= a THEN F[i] ELSE F[a] + G[i - a]}
<1>9. Bad = {}
  <2> SUFFICES ASSUME Bad # {} PROVE FALSE
    OBVIOUS
  <2>1. PICK i \in Bad : \A j \in Bad : i <= j
    <3>1. Bad \in SUBSET Nat
      BY <1>1
    <3> HIDE DEF Bad
    <3> QED BY <3>1, SmallestNumber
  <2>2. i # 0
    BY <1>1, <1>6, <1>8
  <2>3. i \in 1..(a + z) /\ i - 1 \in 0..(a + z) /\ i - 1 \notin Bad
    BY <1>1, <2>1, <2>2
  <2>4. H[i] = H[i - 1] + u[i]
    BY <1>8, <2>3
  <2>5. CASE i <= a
    <3>1. i - 1 <= a /\ i \in 1..a
      BY <1>1, <2>3, <2>5
    <3>2. H[i - 1] = F[i - 1] /\ u[i] = s[i]
      BY <1>2, <2>3, <2>5, <3>1
    <3>3. H[i] = F[i]
      BY <1>6, <2>4, <3>1, <3>2
    <3> QED BY <2>5, <3>3
  <2>6. CASE i > a
    <3> DEFINE k == i - a
    <3>1. k \in 1..z /\ ~(i <= a) /\ (i - 1) - a = k - 1
      BY <1>1, <2>3, <2>6
    <3>2. u[i] = t[k]
      BY <1>2, <2>3, <3>1
    <3>3. H[i - 1] = F[a] + G[k - 1]
      <4>1. CASE i - 1 <= a
        <5>1. i - 1 = a /\ k - 1 = 0
          BY <1>1, <2>3, <2>6, <4>1
        <5>2. H[i - 1] = F[a] /\ F[a] \in Nat
          BY <1>1, <1>6, <2>3, <5>1
        <5> QED BY <1>7, <5>1, <5>2
      <4>2. CASE ~(i - 1 <= a)
        BY <2>3, <3>1, <4>2
      <4> QED BY <4>1, <4>2
    <3>4. G[k] = G[k - 1] + t[k] /\ G[k - 1] \in Nat /\ t[k] \in Nat
      <4>1. k - 1 \in 0..z
        BY <1>1, <3>1
      <4> QED BY <1>7, <3>1, <4>1
    <3>5. F[a] \in Nat
      BY <1>1, <1>6
    <3> HIDE DEF k
    <3>6. H[i] = F[a] + G[k]
      BY <2>4, <3>2, <3>3, <3>4, <3>5
    <3> QED BY <3>1, <3>6 DEF k
  <2> QED BY <1>1, <2>3, <2>5, <2>6
<1>10. H[a + z] = F[a] + G[z]
  <2>1. a + z \in 0..(a + z) /\ a + z \notin Bad /\ (a + z) - a = z
    BY <1>1, <1>9
  <2>2. CASE z = 0
    <3>1. H[a + z] = F[a] /\ F[a] \in Nat /\ G[z] = 0
      BY <1>1, <1>6, <1>7, <2>1, <2>2
    <3> QED BY <3>1
  <2>3. CASE z # 0
    BY <1>1, <2>1, <2>3
  <2> QED BY <2>2, <2>3
<1> QED BY <1>3, <1>4, <1>5, <1>10 DEF u

\* q units of one price
LEMMA SumOfUnits ==
  ASSUME NEW q \in Nat, NEW price \in Nat
  PROVE  /\ [i \in 1..q |-> price] \in Seq(Nat)
         /\ SumOf([i \in 1..q |-> price]) = q * price
<1> DEFINE s == [i \in 1..q |-> price]
<1>1. s \in Seq(Nat) /\ Len(s) = q /\ \A i \in 1..q : s[i] = price
  OBVIOUS
<1> HIDE DEF s
<1>2. PICK F : Sums(F, s) /\ SumOf(s) = F[q]
  BY <1>1, SumOfRuns
<1>3. F[0] = 0 /\ \A k \in 1..q : F[k] = F[k - 1] + price
  BY <1>1, <1>2 DEF Sums
<1> DEFINE Bad == {k \in 0..q : F[k] # k * price}
<1>4. Bad = {}
  <2> SUFFICES ASSUME Bad # {} PROVE FALSE
    OBVIOUS
  <2>1. PICK k \in Bad : \A j \in Bad : k <= j
    <3>1. Bad \in SUBSET Nat
      OBVIOUS
    <3> HIDE DEF Bad
    <3> QED BY <3>1, SmallestNumber
  <2>2. k # 0
    BY <1>3
  <2>3. k \in 1..q /\ k - 1 \in 0..q /\ k - 1 \notin Bad
    BY <2>1, <2>2
  <2>4. F[k] = (k - 1) * price + price
    BY <1>3, <2>3
  <2>5. (k - 1) * price + price = k * price
    BY <2>3
  <2> QED BY <2>3, <2>4, <2>5
<1>5. F[q] = q * price
  BY <1>4
<1> QED BY <1>1, <1>2, <1>5 DEF s
--------------------------------------------------------------------------------
(* What an issue costs                                                     *)

LEMMA MoveFields ==
  ASSUME NEW m \in Move
  PROVE  IsMovement(m) /\ m.price \in Nat
BY DEF Move, IsMovement

LEMMA MovesAreMovements ==
  ASSUME NEW ms \in Seq(Move)
  PROVE  Movements(ms) /\ \A i \in 1..Len(ms) : ms[i] \in Move
<1>1. \A i \in 1..Len(ms) : ms[i] \in Move
  OBVIOUS
<1>2. DOMAIN ms = 1..Len(ms)
  OBVIOUS
<1> QED BY <1>1, <1>2, MoveFields DEF Movements

LEMMA SortedMoves ==
  ASSUME NEW ms \in Seq(Move)
  PROVE  ByDate(ms) \in Seq(Move)
<1>1. PICK F : F \in [0..Len(ms) -> Seq(Move)] /\ ByDate(ms) = F[Len(ms)]
  BY ByDateRuns
<1>2. Len(ms) \in 0..Len(ms)
  OBVIOUS
<1> QED BY <1>1, <1>2

LEMMA LayersOfMoves ==
  ASSUME NEW ms \in Seq(Move)
  PROVE  LayersOf(ms) \in Seq(Nat)
<1>1. Movements(ms) /\ \A i \in 1..Len(ms) : ms[i].price \in Nat
  BY MovesAreMovements, MoveFields
<1>2. PICK F : F \in [0..Len(ms) -> Seq(Nat)] /\ LayersOf(ms) = F[Len(ms)]
  BY <1>1, LayersRun
<1>3. Len(ms) \in 0..Len(ms)
  OBVIOUS
<1> QED BY <1>2, <1>3

LEMMA LayersType ==
  ASSUME NEW ms \in Seq(Move)
  PROVE  Layers(ms) \in Seq(Nat)
BY SortedMoves, LayersOfMoves, LayersAreOfSorted

\* The first layers, and the rest.
LEMMA Split ==
  ASSUME NEW ls \in Seq(Nat), NEW q \in 0..Len(ls)
  PROVE  /\ SubSeq(ls, 1, q) \in Seq(Nat)
         /\ SubSeq(ls, q + 1, Len(ls)) \in Seq(Nat)
         /\ SumOf(ls) = SumOf(SubSeq(ls, 1, q)) + SumOf(SubSeq(ls, q + 1, Len(ls)))
<1> DEFINE n == Len(ls)
           a == SubSeq(ls, 1, q)
           z == SubSeq(ls, q + 1, n)
<1>1. n \in Nat /\ q \in 0..n /\ \A i \in 1..n : ls[i] \in Nat
  OBVIOUS
<1>2. a \in Seq(Nat) /\ Len(a) = q /\ \A i \in 1..q : a[i] = ls[i]
  <2>1. \A i \in 1..q : ls[i] \in Nat
    BY <1>1
  <2>2. /\ a \in Seq(Nat) /\ Len(a) = IF 1 <= q THEN q - 1 + 1 ELSE 0
        /\ \A i \in 1..(q - 1 + 1) : a[i] = ls[1 + i - 1]
    BY <1>1, <2>1, SubSeqProperties
  <2> HIDE DEF a, n
  <2>3. Len(a) = q
    BY <1>1, <2>2
  <2>4. ASSUME NEW i \in 1..q PROVE a[i] = ls[i]
    <3>1. i \in 1..(q - 1 + 1) /\ 1 + i - 1 = i
      BY <1>1
    <3> QED BY <2>2, <3>1
  <2> QED BY <2>2, <2>3, <2>4
<1>3. z \in Seq(Nat) /\ Len(z) = n - q /\ \A i \in 1..(n - q) : z[i] = ls[q + i]
  <2>1. \A i \in (q + 1)..n : ls[i] \in Nat
    BY <1>1
  <2>2. /\ z \in Seq(Nat) /\ Len(z) = IF q + 1 <= n THEN n - (q + 1) + 1 ELSE 0
        /\ \A i \in 1..(n - (q + 1) + 1) : z[i] = ls[(q + 1) + i - 1]
    BY <1>1, <2>1, SubSeqProperties
  <2> HIDE DEF z, n
  <2>3. Len(z) = n - q
    BY <1>1, <2>2
  <2>4. ASSUME NEW i \in 1..(n - q) PROVE z[i] = ls[q + i]
    <3>1. i \in 1..(n - (q + 1) + 1) /\ (q + 1) + i - 1 = q + i
      BY <1>1
    <3> QED BY <2>2, <3>1
  <2> QED BY <2>2, <2>3, <2>4
<1> HIDE DEF a, z
<1>4. /\ a \o z \in Seq(Nat) /\ Len(a \o z) = q + (n - q)
      /\ \A i \in 1..(q + (n - q)) : (a \o z)[i] = IF i <= q THEN a[i] ELSE z[i - q]
  <2>1. /\ a \o z \in Seq(Nat) /\ Len(a \o z) = Len(a) + Len(z)
        /\ \A i \in 1..(Len(a) + Len(z)) :
             (a \o z)[i] = IF i <= Len(a) THEN a[i] ELSE z[i - Len(a)]
    BY <1>2, <1>3, ConcatProperties
  <2>2. Len(a) = q /\ Len(z) = n - q
    BY <1>2, <1>3
  <2> HIDE DEF n
  <2> QED BY <2>1, <2>2
<1>5. a \o z = ls
  <2> DEFINE u == a \o z
  <2> HIDE DEF u
  <2>1. u \in Seq(Nat) /\ Len(u) = n
    BY <1>1, <1>4 DEF u
  <2>2. ASSUME NEW i \in 1..n PROVE u[i] = ls[i]
    <3>1. u[i] = IF i <= q THEN a[i] ELSE z[i - q]
      BY <1>1, <1>4 DEF u
    <3>2. CASE i <= q
      BY <1>1, <1>2, <3>1, <3>2
    <3>3. CASE i > q
      <4>1. i - q \in 1..(n - q) /\ q + (i - q) = i /\ ~(i <= q)
        BY <1>1, <3>3
      <4> QED BY <1>3, <3>1, <4>1
    <3> QED BY <1>1, <3>2, <3>3
  <2>3. u = ls
    BY <2>1, <2>2, SeqEqual
  <2> QED BY <2>3 DEF u
<1>6. SumOf(a \o z) = SumOf(a) + SumOf(z)
  BY <1>2, <1>3, SumOfConcat
<1> QED BY <1>2, <1>3, <1>5, <1>6 DEF a, z, n

\* An issue costs a number, and no more than the layers as long as they last.
LEMMA IssueCostIs ==
  ASSUME NEW c, moves[c] \in Seq(Move), NEW q \in Nat
  PROVE  /\ IssueCost(c, q) \in Nat
         /\ q <= Len(Layers(moves[c])) =>
              IssueCost(c, q) = SumOf(SubSeq(Layers(moves[c]), 1, q))
<1> DEFINE ls == Layers(moves[c])
           n == IF q < Len(ls) THEN q ELSE Len(ls)
           first == SumOf(SubSeq(ls, 1, n))
<1>1. ls \in Seq(Nat)
  BY LayersType
<1> HIDE DEF ls
<1>2. n \in 0..Len(ls) /\ n \in Nat /\ n <= q
  BY <1>1
<1>3. first \in Nat
  <2> HIDE DEF n
  <2> QED BY <1>1, <1>2, Split, SumOfType
<1>4. IssueCost(c, q) = first + (q - n) * AverageCost
  BY DEF IssueCost, ls
<1>5. (q - n) * AverageCost \in Nat
  <2> DEFINE r == q - n
  <2>1. r \in Nat /\ AverageCost \in Nat
    BY <1>2, NumbersAssumption
  <2> HIDE DEF r
  <2>2. r * AverageCost \in Nat
    BY <2>1
  <2> QED BY <2>2 DEF r
<1>6. q <= Len(ls) => n = q
  BY <1>1, <1>2
<1> HIDE DEF n
<1>7. n = q => IssueCost(c, q) = SumOf(SubSeq(ls, 1, q))
  <2>1. n = q => (q - n) * AverageCost = 0
    BY NumbersAssumption
  <2> QED BY <1>3, <1>4, <2>1
<1>8. IssueCost(c, q) \in Nat
  <2> HIDE DEF first
  <2> QED BY <1>3, <1>4, <1>5
<1> QED BY <1>6, <1>7, <1>8 DEF ls
--------------------------------------------------------------------------------
(* Types                                                                   *)

OrderStatuses == {"DRAFT", "IN_PROGRESS", "COMPLETED", "CANCELLED"}

PlanTypes(j) ==
  /\ \A c \in DOMAIN j.post : j.post[c].move \in Move
  /\ j.stock \in Int /\ j.wip \in Int
  /\ j.op = "order" => j.wip \in Nat
  /\ j.op = "ship" => j.doc \in Invoices

CountTypes ==
  \A k \in Counts :
    /\ count[k].status \in CountStatuses
    /\ count[k].classified \subseteq DOMAIN count[k].lines
    /\ \A p \in DOMAIN count[k].lines : count[k].lines[p].since \in Nat

Typed ==
  /\ moves \in [Cells -> Seq(Move)]
  /\ settled \subseteq Invoices
  /\ CountTypes
  /\ order \in [Orders -> [status : OrderStatuses, cost : Nat]]
  /\ books \in [stock : Int, wip : Int]
  /\ opening \in Nat
  /\ \A h \in Handlers : PlanTypes(job[h])

TypeInv == SafeInv /\ Typed

LEMMA TypesFollow == TypeInv => TypeOK
<1> SUFFICES ASSUME TypeInv PROVE TypeOK
  OBVIOUS
<1>1. item \in [Cells -> Int]
  BY DEF TypeInv, SafeInv
<1>2. ASSUME NEW k \in Counts
      PROVE  /\ count[k].status \in CountStatuses
             /\ DOMAIN count[k].lines \subseteq Products
             /\ \A p \in DOMAIN count[k].lines : count[k].lines[p] \in Line
             /\ count[k].classified \subseteq DOMAIN count[k].lines
  <2>1. IsCount(count[k])
    BY DEF TypeInv, SafeInv, CountsOK
  <2>2. \A p \in DOMAIN count[k].lines :
          IsLine(count[k].lines[p]) /\ count[k].lines[p].since \in Nat
    BY <2>1 DEF IsCount, TypeInv, Typed, CountTypes
  <2>3. \A l : IsLine(l) /\ l.since \in Nat => l \in Line
    BY DEF IsLine, Line
  <2> QED BY <2>1, <2>2, <2>3 DEF IsCount, TypeInv, Typed, CountTypes
<1>3. DOMAIN count = Counts /\ DraftsOK
  BY DEF TypeInv, SafeInv, CountsOK
<1> QED BY <1>1, <1>2, <1>3 DEF TypeOK, TypeInv, Typed, DraftsOK, OrderStatuses

LEMMA TypesInit == Init => TypeInv
<1> SUFFICES ASSUME Init PROVE TypeInv
  OBVIOUS
<1>1. moves \in [Cells -> Seq(Move)]
  BY DEF Init
<1>2. CountTypes
  <2>1. \A k \in Counts : count[k] = Blank("DRAFT")
    BY DEF Init
  <2>2. /\ Blank("DRAFT").status = "DRAFT" /\ Blank("DRAFT").lines = <<>>
        /\ Blank("DRAFT").classified = {}
    BY DEF Blank
  <2>3. DOMAIN Blank("DRAFT").lines = {}
    BY <2>2
  <2> QED BY <2>1, <2>2, <2>3 DEF CountTypes, CountStatuses
<1>3. order \in [Orders -> [status : OrderStatuses, cost : Nat]]
  BY DEF Init, Bare, OrderStatuses
<1>4. books \in [stock : Int, wip : Int] /\ opening \in Nat /\ settled \subseteq Invoices
  BY DEF Init
<1>5. PlanTypes(Idle)
  <2>1. Idle.op = "idle" /\ Idle.post = <<>> /\ Idle.stock = 0 /\ Idle.wip = 0
    BY DEF Idle, Plan
  <2>2. DOMAIN Idle.post = {}
    BY <2>1
  <2> QED BY <2>1, <2>2 DEF PlanTypes
<1>6. \A h \in Handlers : PlanTypes(job[h])
  BY <1>5 DEF Init
<1> QED BY SafeInit, <1>1, <1>2, <1>3, <1>4, <1>6 DEF TypeInv, Typed

\* Goods that come in, that go out, and that are corrected.
LEMMA MovesType ==
  ASSUME NEW c, NEW q \in Nat \ {0}, NEW price \in Nat, NEW d \in Dates,
         NEW doc \in Docs \cup {NoDoc}
  PROVE  /\ In(c, q, price, d, doc).move \in Move
         /\ Out(c, q, d, doc).move \in Move
<1>1. In(c, q, price, d, doc).move
        = [in |-> TRUE, qty |-> q, price |-> price, date |-> d, doc |-> doc]
  BY DEF In
<1>2. Out(c, q, d, doc).move
        = [in |-> FALSE, qty |-> q, price |-> 0, date |-> d, doc |-> doc]
  BY DEF Out
<1>3. /\ [in |-> TRUE, qty |-> q, price |-> price, date |-> d, doc |-> doc] \in Move
      /\ [in |-> FALSE, qty |-> q, price |-> 0, date |-> d, doc |-> doc] \in Move
  BY DEF Move, Dates
<1> QED BY <1>1, <1>2, <1>3

LEMMA CorrectionType ==
  ASSUME NEW c, moves[c] \in Seq(Move), NEW delta \in Int, NEW price \in Nat,
         NEW d \in Dates, NEW doc \in Docs \cup {NoDoc}
  PROVE  /\ delta # 0 => Correction(c, delta, price, d, doc).move \in Move
         /\ CorrectionCost(c, delta, price) \in Int
<1>1. CASE delta > 0
  <2>1. delta \in Nat \ {0} /\ delta * price \in Int
    BY <1>1
  <2> QED BY <1>1, <2>1, MovesType DEF Correction, CorrectionCost
<1>2. CASE ~(delta > 0)
  <2>1. delta # 0 => -delta \in Nat \ {0}
    BY <1>2
  <2>2. delta # 0 => Out(c, -delta, d, doc).move \in Move
    BY <2>1, MovesType
  <2>3. -delta \in Nat
    BY <1>2
  <2>4. IssueCost(c, -delta) \in Nat
    BY <2>3, IssueCostIs
  <2> QED BY <1>2, <2>2, <2>4 DEF Correction, CorrectionCost
<1> QED BY <1>1, <1>2

LEMMA PlanHas ==
  ASSUME NEW op, NEW doc, NEW post, NEW s, NEW w
  PROVE  Plan(op, doc, post, s, w).stock = s /\ Plan(op, doc, post, s, w).wip = w
BY DEF Plan

LEMMA OneCellTypes ==
  ASSUME NEW op, NEW doc, NEW c, NEW p, p.move \in Move, NEW s \in Int, NEW w \in Int,
         op = "order" => w \in Nat, op = "ship" => doc \in Invoices
  PROVE  PlanTypes(Plan(op, doc, One(c, p), s, w))
<1> DEFINE plan == Plan(op, doc, One(c, p), s, w)
<1>1. plan.op = op /\ plan.doc = doc /\ plan.post = One(c, p)
      /\ plan.stock = s /\ plan.wip = w
  BY PlanFields, PlanHas
<1> HIDE DEF plan
<1>2. DOMAIN plan.post = {c} /\ plan.post[c] = p
  BY <1>1, OneCell
<1>3. PlanTypes(plan)
  BY <1>1, <1>2 DEF PlanTypes
<1> QED BY <1>3 DEF plan

LEMMA TwoCellTypes ==
  ASSUME NEW c, NEW t, NEW out, out.move \in Move, NEW into, into.move \in Move
  PROVE  PlanTypes(Plan("move", NoDoc,
                        [x \in {c, t} |-> IF x = c THEN out ELSE into], 0, 0))
<1> DEFINE post == [x \in {c, t} |-> IF x = c THEN out ELSE into]
           plan == Plan("move", NoDoc, post, 0, 0)
<1>1. plan.op = "move" /\ plan.post = post /\ plan.stock = 0 /\ plan.wip = 0
  BY PlanFields, PlanHas
<1>2. \A x \in DOMAIN post : post[x].move \in Move
  OBVIOUS
<1> HIDE DEF plan, post
<1>3. PlanTypes(plan)
  BY <1>1, <1>2 DEF PlanTypes
<1> QED BY <1>3 DEF plan, post

LEMMA EmptyPlanTypes ==
  ASSUME NEW op, op # "order", op # "ship", NEW doc
  PROVE  PlanTypes(Plan(op, doc, <<>>, 0, 0))
<1> DEFINE plan == Plan(op, doc, <<>>, 0, 0)
<1>1. plan.op = op /\ plan.post = <<>> /\ plan.stock = 0 /\ plan.wip = 0
  BY PlanFields, PlanHas
<1> HIDE DEF plan
<1>2. DOMAIN plan.post = {}
  BY <1>1
<1>3. PlanTypes(plan)
  BY <1>1, <1>2 DEF PlanTypes
<1> QED BY <1>3 DEF plan

LEMMA BeginTypes ==
  ASSUME TypeInv, NEW h \in Handlers, NEW plan, PlanTypes(plan), Begin(h, plan)
  PROVE  Typed'
<1>1. \A g \in Handlers : job'[g] = IF g = h THEN plan ELSE job[g]
  BY DEF TypeInv, SafeInv, JobsOK, Begin
<1>2. \A g \in Handlers : PlanTypes(job'[g])
  BY <1>1 DEF TypeInv, Typed
<1>3. (\A g \in Handlers : PlanTypes(job[g]))'
  BY <1>2 DEF PlanTypes
<1> QED BY <1>3 DEF TypeInv, Typed, CountTypes, Begin, stock, docs

\* Every request plans movements and sums of the right kind.
LEMMA ReceiptTypes ==
  ASSUME TypeInv, NEW h \in Handlers, NEW c \in Cells, NEW q \in Lots, NEW d,
         (d \in Dates /\ Receive(h, c, q, d)) \/ AdjustOut(h, c, q)
  PROVE  Typed'
<1>1. /\ q \in Nat \ {0} /\ Today \in Dates /\ moves[c] \in Seq(Move)
      /\ NoDoc \in Docs \cup {NoDoc} /\ 0 \in Nat
  BY NumbersAssumption DEF TypeInv, Typed, Dates
<1>2. CASE d \in Dates /\ Receive(h, c, q, d)
  <2>1. In(c, q, 0, d, NoDoc).move \in Move
    BY <1>1, <1>2, MovesType
  <2>2. PlanTypes(Plan("move", NoDoc, One(c, In(c, q, 0, d, NoDoc)), 0, 0))
    BY <2>1, OneCellTypes
  <2> QED BY <1>2, <2>2, BeginTypes DEF Receive
<1>3. CASE AdjustOut(h, c, q)
  <2>1. IssueCost(c, q) \in Nat
    BY <1>1, IssueCostIs
  <2>2. -IssueCost(c, q) \in Int
    BY <2>1
  <2>3. Out(c, q, Today, NoDoc).move \in Move
    BY <1>1, MovesType
  <2>4. PlanTypes(Plan("move", NoDoc, One(c, Out(c, q, Today, NoDoc)), -IssueCost(c, q), 0))
    BY <2>2, <2>3, OneCellTypes
  <2> QED BY <1>3, <2>4, BeginTypes DEF AdjustOut
<1> QED BY <1>2, <1>3

LEMMA MovementTypes ==
  ASSUME TypeInv, NEW h \in Handlers, NEW c \in Cells, NEW q \in Lots,
         NEW price \in Prices, AdjustIn(h, c, q, price) \/ Import(h, c, q, price)
  PROVE  Typed'
<1>1. /\ q \in Nat \ {0} /\ price \in Nat /\ Today \in Dates
      /\ NoDoc \in Docs \cup {NoDoc}
  BY NumbersAssumption DEF Dates
<1>2. q * price \in Int
  BY <1>1
<1>3. In(c, q, price, Today, NoDoc).move \in Move
  BY <1>1, MovesType
<1>4. CASE AdjustIn(h, c, q, price)
  <2>1. PlanTypes(Plan("move", NoDoc, One(c, In(c, q, price, Today, NoDoc)), q * price, 0))
    BY <1>2, <1>3, OneCellTypes
  <2> QED BY <1>4, <2>1, BeginTypes DEF AdjustIn
<1>5. CASE Import(h, c, q, price)
  <2> DEFINE plan == Plan("import", NoDoc, One(c, In(c, q, price, Today, NoDoc)), q * price, 0)
             version == <<c, Len(moves[c]), opening>>
  <2>1. PlanTypes(plan)
    BY <1>2, <1>3, OneCellTypes
  <2>2. Begin(h, [plan EXCEPT !.version = version])
    BY <1>5 DEF Import
  <2>3. PlanTypes([plan EXCEPT !.version = version])
    <3>1. /\ [plan EXCEPT !.version = version].op = plan.op
          /\ [plan EXCEPT !.version = version].doc = plan.doc
          /\ [plan EXCEPT !.version = version].post = plan.post
          /\ [plan EXCEPT !.version = version].stock = plan.stock
          /\ [plan EXCEPT !.version = version].wip = plan.wip
      BY DEF Plan
    <3> HIDE DEF plan, version
    <3> QED BY <2>1, <3>1 DEF PlanTypes
  <2> HIDE DEF plan, version
  <2> QED BY <2>2, <2>3, BeginTypes
<1> QED BY <1>4, <1>5

LEMMA TransferTypes ==
  ASSUME TypeInv, NEW h \in Handlers, NEW c \in Cells, NEW w \in Warehouses,
         NEW d \in Dates, Transfer(h, c, w, d)
  PROVE  Typed'
<1> DEFINE to == <<w, c[2]>>
           out == Out(c, 1, d, NoDoc)
           into == In(to, 1, IssueCost(c, 1), d, NoDoc)
           plan == Plan("move", NoDoc, [x \in {c, to} |-> IF x = c THEN out ELSE into], 0, 0)
<1>1. moves[c] \in Seq(Move)
  BY DEF TypeInv, Typed
<1>2. IssueCost(c, 1) \in Nat
  BY <1>1, IssueCostIs
<1>3. out.move \in Move /\ into.move \in Move
  <2>1. 1 \in Nat \ {0} /\ NoDoc \in Docs \cup {NoDoc} /\ 0 \in Nat
    OBVIOUS
  <2> HIDE DEF to
  <2> QED BY <1>2, <2>1, MovesType
<1>4. Begin(h, plan)
  BY DEF Transfer
<1>5. PlanTypes(plan)
  <2> HIDE DEF to, out, into
  <2> QED BY <1>3, TwoCellTypes
<1> HIDE DEF plan
<1> QED BY <1>4, <1>5, BeginTypes

LEMMA ReleaseTypes ==
  ASSUME TypeInv, NEW h \in Handlers, NEW w \in Warehouses, Release(h, w)
  PROVE  Typed'
<1> DEFINE c == <<w, Goods>>
           made == <<w, Made>>
           out == Out(c, 1, Today, NoDoc)
           into == In(made, 1, IssueCost(c, 1), Today, NoDoc)
           plan == Plan("move", NoDoc, [x \in {c, made} |-> IF x = c THEN out ELSE into], 0, 0)
<1>1. moves[c] \in Seq(Move)
  BY DEF TypeInv, Typed, Cells, Products
<1>2. IssueCost(c, 1) \in Nat
  <2> HIDE DEF c
  <2> QED BY <1>1, IssueCostIs
<1>3. out.move \in Move /\ into.move \in Move
  <2>1. 1 \in Nat \ {0} /\ NoDoc \in Docs \cup {NoDoc} /\ 0 \in Nat /\ Today \in Dates
    BY NumbersAssumption DEF Dates
  <2> HIDE DEF c, made
  <2> QED BY <1>2, <2>1, MovesType
<1>4. Begin(h, plan)
  BY DEF Release
<1>5. PlanTypes(plan)
  <2> HIDE DEF c, made, out, into
  <2> QED BY <1>3, TwoCellTypes
<1> HIDE DEF plan
<1> QED BY <1>4, <1>5, BeginTypes

LEMMA ShipTypes ==
  ASSUME TypeInv, NEW h \in Handlers, NEW i \in Invoices, NEW w \in Warehouses,
         NEW d \in Dates, Ship(h, i, w, d)
  PROVE  Typed'
<1> DEFINE c == <<w, Goods>>
           q == Quantity[i]
           plan == Plan("ship", i, One(c, Out(c, q, d, i)), -IssueCost(c, q), 0)
<1>1. /\ moves[c] \in Seq(Move) /\ q \in Nat \ {0} /\ q \in Nat
      /\ i \in Docs \cup {NoDoc} /\ 0 \in Nat
  BY DocumentsAssumption DEF TypeInv, Typed, Cells, Products, Docs
<1>2. IssueCost(c, q) \in Nat
  <2> HIDE DEF c, q
  <2> QED BY <1>1, IssueCostIs
<1>3. Begin(h, plan)
  BY DEF Ship
<1>4. PlanTypes(plan)
  <2>1. -IssueCost(c, q) \in Int
    <3> HIDE DEF c, q
    <3> QED BY <1>2
  <2>2. Out(c, q, d, i).move \in Move
    <3> HIDE DEF c, q
    <3> QED BY <1>1, MovesType
  <2> HIDE DEF c, q
  <2> QED BY <2>1, <2>2, OneCellTypes
<1> HIDE DEF plan
<1> QED BY <1>3, <1>4, BeginTypes

LEMMA ProductionTypes ==
  ASSUME TypeInv, NEW h \in Handlers, NEW o \in Orders,
         StartOrder(h, o) \/ FinishOrder(h, o) \/ CancelOrder(h, o)
  PROVE  Typed'
<1> DEFINE c == <<OrderAt[o], Goods>>
           made == <<OrderAt[o], Made>>
           cost == order[o].cost
<1>1. /\ moves[c] \in Seq(Move) /\ cost \in Nat /\ cost \in Int /\ -cost \in Int
      /\ o \in Docs \cup {NoDoc} /\ Today \in Dates /\ 1 \in Nat \ {0} /\ 0 \in Nat
  BY DocumentsAssumption, NumbersAssumption DEF TypeInv, Typed, Cells, Products, Docs, Dates
<1>2. CASE StartOrder(h, o)
  <2> DEFINE plan == Plan("order", o, One(c, Out(c, 1, Today, o)), -IssueCost(c, 1),
                          IssueCost(c, 1))
  <2>1. Begin(h, plan)
    BY <1>2 DEF StartOrder
  <2>2. PlanTypes(plan)
    <3> HIDE DEF c
    <3>1. IssueCost(c, 1) \in Nat
      BY <1>1, IssueCostIs
    <3>2. IssueCost(c, 1) \in Int /\ -IssueCost(c, 1) \in Int
      BY <3>1
    <3>3. Out(c, 1, Today, o).move \in Move
      BY <1>1, MovesType
    <3> QED BY <3>1, <3>2, <3>3, OneCellTypes
  <2> HIDE DEF plan
  <2> QED BY <2>1, <2>2, BeginTypes
<1>3. CASE FinishOrder(h, o)
  <2> DEFINE plan == Plan("finish", o, One(made, In(made, 1, cost, Today, o)), cost, -cost)
  <2>1. Begin(h, plan)
    BY <1>3 DEF FinishOrder
  <2>2. PlanTypes(plan)
    <3> HIDE DEF made, cost
    <3>1. In(made, 1, cost, Today, o).move \in Move
      BY <1>1, MovesType
    <3> QED BY <1>1, <3>1, OneCellTypes
  <2> HIDE DEF plan
  <2> QED BY <2>1, <2>2, BeginTypes
<1>4. CASE CancelOrder(h, o)
  <2> DEFINE plan == Plan("cancel", o, One(c, In(c, 1, cost, Today, o)), cost, -cost)
             none == Plan("cancel", o, <<>>, 0, 0)
  <2>1. Begin(h, plan) \/ Begin(h, none)
    BY <1>4 DEF CancelOrder
  <2>2. PlanTypes(plan)
    <3> HIDE DEF c, cost
    <3>1. In(c, 1, cost, Today, o).move \in Move
      BY <1>1, MovesType
    <3> QED BY <1>1, <3>1, OneCellTypes
  <2>3. PlanTypes(none)
    BY EmptyPlanTypes
  <2> HIDE DEF plan, none
  <2> QED BY <2>1, <2>2, <2>3, BeginTypes
<1> QED BY <1>2, <1>3, <1>4

LEMMA PostDraftTypes ==
  ASSUME TypeInv, NEW h \in Handlers, NEW n \in Drafts, NEW price \in Prices,
         PostDraft(h, n, price)
  PROVE  Typed'
<1> DEFINE c == DraftCell[n]
           delta == draft[n].actual - item[c]
           fix == Correction(c, delta, price, DraftDate[n], n)
           post == [x \in {c} \ {y \in {c} : delta = 0} |-> fix]
           cost == CorrectionCost(c, delta, price)
           plan == Plan("post", n, post, cost, 0)
<1>1. /\ c \in Cells /\ draft[n].actual \in Nat /\ item[c] \in Nat
      /\ moves[c] \in Seq(Move)
  BY DocumentsAssumption DEF TypeInv, Typed, SafeInv, DraftsOK
<1>2. /\ delta \in Int /\ price \in Nat /\ DraftDate[n] \in Dates
      /\ n \in Docs \cup {NoDoc}
  BY <1>1, DocumentsAssumption, NumbersAssumption DEF Dates, Docs
<1>3. Begin(h, plan)
  BY DEF PostDraft
<1>4. (delta # 0 => fix.move \in Move) /\ cost \in Int
  <2> HIDE DEF c, delta
  <2> QED BY <1>1, <1>2, CorrectionType
<1>5. plan.op = "post" /\ plan.post = post /\ plan.stock = cost /\ plan.wip = 0
  BY PlanFields, PlanHas
<1> HIDE DEF plan, fix, cost
<1>6. \A x \in DOMAIN post : delta # 0 /\ post[x] = fix
  OBVIOUS
<1> HIDE DEF post, delta
<1>7. PlanTypes(plan)
  BY <1>4, <1>5, <1>6 DEF PlanTypes
<1> QED BY <1>3, <1>7, BeginTypes

LEMMA StartCountingTypes ==
  ASSUME TypeInv, NEW h \in Handlers, NEW k \in Counts, StartCounting(h, k)
  PROVE  Typed'
<1>1. PlanTypes(Plan("start", k, <<>>, 0, 0))
  BY EmptyPlanTypes
<1> QED BY <1>1, BeginTypes DEF StartCounting

LEMMA CellsAreFinite == IsFiniteSet(Cells)
<1>1. IsFiniteSet({Goods, Made})
  <2>1. IsFiniteSet({Goods})
    BY FS_Singleton
  <2>2. {Goods, Made} = {Goods} \cup {Made}
    OBVIOUS
  <2> QED BY <2>1, <2>2, FS_AddElement
<1> QED BY <1>1, FinitenessAssumption, FS_Product DEF Cells, Products

\* The cost of what a count corrects
CorrectionCosts(k, price, S) ==
  [c \in S |-> CorrectionCost(c, Delta(k, c[2]), price)]

LEMMA CorrectionSum ==
  ASSUME NEW S, IsFiniteSet(S), NEW k, NEW price, Values(CorrectionCosts(k, price, S), S)
  PROVE  MapThenSumSet(LAMBDA c : CorrectionCost(c, Delta(k, c[2]), price), S)
           = SumOn(CorrectionCosts(k, price, S), S)
<1> DEFINE v == CorrectionCosts(k, price, S)
           pick == AnyPick(S)
           Eq(H) == H = [s \in SUBSET S |->
                           IF s = {} THEN 0
                           ELSE CorrectionCost(AnyOf(s), Delta(k, AnyOf(s)[2]), price)
                                  + H[s \ {AnyOf(s)}]]
           sum == MapThenSumSet(LAMBDA c : CorrectionCost(c, Delta(k, c[2]), price), S)
<1>1. Picks(pick, S) /\ \A s \in SUBSET S : pick[s] = AnyOf(s)
  BY AnyPicks
<1>2. \A s \in SUBSET S : s # {} =>
        AnyOf(s) \in S /\ v[AnyOf(s)] = CorrectionCost(AnyOf(s), Delta(k, AnyOf(s)[2]), price)
  <2>1. \A s \in SUBSET S : s # {} => AnyOf(s) \in S
    BY <1>1 DEF Picks
  <2>2. \A c \in S : v[c] = CorrectionCost(c, Delta(k, c[2]), price)
    BY DEF CorrectionCosts
  <2> QED BY <2>1, <2>2
<1> HIDE DEF pick, v
<1>3. PICK G \in [SUBSET S -> Int] : \A s \in SUBSET S : Step(G, 0, v, pick, s)
  <2>1. HasSteps(0, v, pick, S)
    BY <1>1, RecursionExists DEF v
  <2> QED BY <2>1 DEF HasSteps
<1>4. Eq(G)
  BY <1>1, <1>2, <1>3 DEF Step
<1>5. PICK H : Eq(H) /\ sum = H[S]
  BY <1>4 DEF MapThenSumSet, MapThenFoldSet, AnyOf
<1> HIDE DEF sum
<1>6. \A s \in SUBSET S : Step(H, 0, v, pick, s)
  BY <1>1, <1>2, <1>5 DEF Step
<1>7. H[S] = 0 + SumOn(v, S)
  BY <1>1, <1>6, RecursionIsSum DEF v
<1>8. SumOn(v, S) \in Int
  BY SumType DEF v
<1>9. sum = SumOn(v, S)
  BY <1>5, <1>7, <1>8
<1> QED BY <1>9 DEF sum, v

\* What a count corrects: cells of its warehouse, by a difference.
LEMMA CorrectedCells ==
  ASSUME CountsOK, NEW k \in Counts
  PROVE  /\ Corrected(k) \subseteq Cells /\ IsFiniteSet(Corrected(k))
         /\ \A c \in Corrected(k) : Delta(k, c[2]) \in Int /\ Delta(k, c[2]) # 0
<1>1. \A p \in DOMAIN count[k].lines : p \in Products /\ Delta(k, p) \in Int
  <2> TAKE p \in DOMAIN count[k].lines
  <2>1. p \in Products /\ IsLine(count[k].lines[p])
    BY DEF CountsOK, IsCount
  <2> QED BY <2>1 DEF Delta, IsLine
<1>2. ASSUME NEW c \in Corrected(k)
      PROVE  c \in Cells /\ Delta(k, c[2]) \in Int /\ Delta(k, c[2]) # 0
  <2>1. PICK p \in Differing(k) : c = <<CountAt[k], p>>
    BY DEF Corrected
  <2>2. c[2] = p /\ p \in DOMAIN count[k].lines /\ Delta(k, p) # 0
    BY <2>1 DEF Differing
  <2> QED BY <1>1, <2>1, <2>2, DocumentsAssumption DEF Cells
<1>3. IsFiniteSet(Corrected(k))
  <2>1. Corrected(k) \subseteq Cells
    BY <1>2
  <2> QED BY <2>1, CellsAreFinite, FS_Subset
<1> QED BY <1>2, <1>3

LEMMA CompleteTypes ==
  ASSUME TypeInv, NEW h \in Handlers, NEW k \in Counts, NEW price \in Prices,
         Complete(h, k, price)
  PROVE  Typed'
<1> DEFINE S == Corrected(k)
           post == [c \in S |-> Correction(c, Delta(k, c[2]), price, CountDate[k], k)]
           cost == MapThenSumSet(LAMBDA c : CorrectionCost(c, Delta(k, c[2]), price), S)
           plan == Plan("complete", k, post, cost, 0)
<1>1. /\ S \subseteq Cells /\ IsFiniteSet(S)
      /\ \A c \in S : Delta(k, c[2]) \in Int /\ Delta(k, c[2]) # 0
  BY CorrectedCells DEF TypeInv, SafeInv
<1>2. price \in Nat /\ CountDate[k] \in Dates /\ k \in Docs \cup {NoDoc}
  BY DocumentsAssumption, NumbersAssumption DEF Dates, Docs
<1>3. Begin(h, plan)
  BY DEF Complete
<1> HIDE DEF S
<1>4. \A c \in S : /\ Correction(c, Delta(k, c[2]), price, CountDate[k], k).move \in Move
                   /\ CorrectionCost(c, Delta(k, c[2]), price) \in Int
  <2> TAKE c \in S
  <2>1. moves[c] \in Seq(Move)
    BY <1>1 DEF TypeInv, Typed
  <2> QED BY <1>1, <1>2, <2>1, CorrectionType
<1>5. cost \in Int
  <2>1. Values(CorrectionCosts(k, price, S), S)
    BY <1>4 DEF Values, CorrectionCosts
  <2>2. SumOn(CorrectionCosts(k, price, S), S) \in Int
    BY <1>1, <2>1, SumType
  <2> QED BY <1>1, <2>1, <2>2, CorrectionSum
<1>6. \A c \in DOMAIN post : post[c].move \in Move
  BY <1>4
<1> HIDE DEF post, cost
<1>7. plan.op = "complete" /\ plan.post = post /\ plan.stock = cost /\ plan.wip = 0
  BY PlanFields, PlanHas
<1> HIDE DEF plan
<1>8. PlanTypes(plan)
  BY <1>5, <1>6, <1>7 DEF PlanTypes
<1> QED BY <1>3, <1>8, BeginTypes

LEMMA ClerksTypes ==
  ASSUME TypeInv, NEW k \in Counts, NEW p, NEW fact,
         SetFact(k, p, fact) \/ Submit(k) \/ Classify(k, p) \/ CancelCount(k)
  PROVE  Typed'
<1>1. UNCHANGED <<moves, settled, order, books, opening, job>>
  BY DEF SetFact, Submit, Classify, CancelCount, stock
<1>2. \A l \in Counts : l # k => count'[l] = count[l]
  BY DEF TypeInv, SafeInv, CountsOK, SetFact, Submit, Classify, CancelCount
<1>3. IsCount(count[k]) /\ DOMAIN count = Counts /\ LinesStay
  BY ClerksLeaveLines DEF TypeInv, SafeInv, CountsOK
<1>4. \A q \in DOMAIN count'[k].lines : count'[k].lines[q].since \in Nat
  BY <1>3 DEF LinesStay, TypeInv, Typed, CountTypes
<1>5. /\ count[k].status \in CountStatuses
      /\ count[k].classified \subseteq DOMAIN count[k].lines
  BY DEF TypeInv, Typed, CountTypes
<1> DEFINE c == count[k]
<1>6. /\ count'[k].status \in CountStatuses
      /\ count'[k].classified \subseteq DOMAIN count'[k].lines
  <2>1. CASE SetFact(k, p, fact)
    <3>1. count'[k] = [c EXCEPT !.lines[p].fact = fact]
      BY <1>3, <2>1 DEF SetFact
    <3>2. /\ count'[k].lines = [c.lines EXCEPT ![p].fact = fact]
          /\ count'[k].status = c.status /\ count'[k].classified = c.classified
      BY <1>3, <3>1 DEF IsCount
    <3>3. DOMAIN count'[k].lines = DOMAIN c.lines
      BY <3>2
    <3> QED BY <1>5, <3>2, <3>3
  <2>2. CASE Submit(k)
    <3>1. /\ count'[k].lines = c.lines /\ count'[k].status = "REVIEW"
          /\ count'[k].classified = c.classified
      BY <1>3, <2>2 DEF Submit, IsCount
    <3> QED BY <1>5, <3>1 DEF CountStatuses
  <2>3. CASE Classify(k, p)
    <3>1. /\ count'[k].lines = c.lines /\ count'[k].status = c.status
          /\ count'[k].classified = c.classified \cup {p} /\ p \in DOMAIN c.lines
      BY <1>3, <2>3 DEF Classify, IsCount
    <3> QED BY <1>5, <3>1
  <2>4. CASE CancelCount(k)
    <3>1. count'[k].status = "CANCELLED" /\ count'[k].classified = {}
      BY <1>3, <2>4 DEF CancelCount, Blank
    <3> QED BY <3>1 DEF CountStatuses
  <2> QED BY <2>1, <2>2, <2>3, <2>4
<1>7. CountTypes'
  BY <1>2, <1>4, <1>6 DEF CountTypes, TypeInv, Typed
<1>8. (\A h \in Handlers : PlanTypes(job[h]))'
  BY <1>1 DEF TypeInv, Typed, PlanTypes
<1> QED BY <1>1, <1>7, <1>8 DEF TypeInv, Typed

LEMMA EndTypes ==
  ASSUME TypeInv, NEW h \in Handlers, Write(h) \/ Fail(h)
  PROVE  (\A g \in Handlers : PlanTypes(job[g]))'
<1>1. \A g \in Handlers : job'[g] = IF g = h THEN Idle ELSE job[g]
  BY DEF TypeInv, SafeInv, JobsOK, Write, Fail
<1>2. PlanTypes(Idle)
  BY EmptyPlanTypes DEF Idle
<1>3. \A g \in Handlers : PlanTypes(job'[g])
  BY <1>1, <1>2 DEF TypeInv, Typed
<1> QED BY <1>3 DEF PlanTypes

LEMMA WriteTypes ==
  ASSUME TypeInv, NEW h \in Handlers, Write(h)
  PROVE  /\ moves' \in [Cells -> Seq(Move)]
         /\ books' \in [stock : Int, wip : Int]
<1> DEFINE j == job[h]
<1>1. PlanTypes(j)
  BY DEF TypeInv, Typed
<1>2. /\ moves' = [c \in Cells |-> IF c \in DOMAIN j.post
                                   THEN Append(moves[c], j.post[c].move) ELSE moves[c]]
      /\ books' = [stock |-> books.stock + j.stock, wip |-> books.wip + j.wip]
  BY DEF Write
<1> HIDE DEF j
<1>3. \A c \in Cells : c \in DOMAIN j.post => Append(moves[c], j.post[c].move) \in Seq(Move)
  <2> SUFFICES ASSUME NEW c \in Cells, c \in DOMAIN j.post
               PROVE  Append(moves[c], j.post[c].move) \in Seq(Move)
    OBVIOUS
  <2>1. moves[c] \in Seq(Move) /\ j.post[c].move \in Move
    BY <1>1 DEF PlanTypes, TypeInv, Typed
  <2> QED BY <2>1
<1>4. moves' \in [Cells -> Seq(Move)]
  <2>1. \A c \in Cells : moves[c] \in Seq(Move)
    BY DEF TypeInv, Typed
  <2> QED BY <1>2, <1>3, <2>1
<1>5. books' \in [stock : Int, wip : Int]
  <2>1. books.stock \in Int /\ books.wip \in Int /\ j.stock \in Int /\ j.wip \in Int
    BY <1>1 DEF PlanTypes, TypeInv, Typed
  <2> QED BY <1>2, <2>1
<1> QED BY <1>4, <1>5

LEMMA CommitTypes ==
  ASSUME TypeInv, NEW h \in Handlers, Commit(h)
  PROVE  Typed'
<1>1. Write(h) /\ PlanTypes(job[h]) /\ PlanOK(job[h])
  BY CommitWrites DEF TypeInv, Typed, SafeInv, JobsOK
<1>2. /\ moves' \in [Cells -> Seq(Move)] /\ books' \in [stock : Int, wip : Int]
      /\ (\A g \in Handlers : PlanTypes(job[g]))'
  BY <1>1, WriteTypes, EndTypes
<1>3. settled' \subseteq Invoices
  <2>1. CASE CommitShipment(h)
    BY <1>1, <2>1 DEF CommitShipment, PlanTypes, TypeInv, Typed
  <2>2. CASE ~CommitShipment(h)
    <3>1. UNCHANGED settled
      BY <2>2 DEF Commit, CommitMove, CommitImport, CommitDraft, CommitCounting,
                  CommitCount, CommitOrder, CommitFinish, CommitCancel, docs
    <3> QED BY <3>1 DEF TypeInv, Typed
  <2> QED BY <2>1, <2>2
<1>4. opening' \in Nat
  <2>1. opening' = opening + 1 \/ UNCHANGED opening
    BY DEF Commit, CommitMove, CommitShipment, CommitImport, CommitDraft, CommitCounting,
           CommitCount, CommitOrder, CommitFinish, CommitCancel
  <2> QED BY <2>1 DEF TypeInv, Typed
<1>5. order' \in [Orders -> [status : OrderStatuses, cost : Nat]]
  <2>0. order \in [Orders -> [status : OrderStatuses, cost : Nat]]
    BY DEF TypeInv, Typed
  <2>1. CASE CommitOrder(h)
    <3>1. job[h].wip \in Nat
      BY <1>1, <2>1 DEF CommitOrder, PlanTypes
    <3>2. order' = [order EXCEPT ![job[h].doc] = [status |-> "IN_PROGRESS", cost |-> job[h].wip]]
      BY <2>1 DEF CommitOrder
    <3>3. [status |-> "IN_PROGRESS", cost |-> job[h].wip] \in [status : OrderStatuses, cost : Nat]
      BY <3>1 DEF OrderStatuses
    <3> QED BY <2>0, <3>2, <3>3
  <2>2. CASE CommitFinish(h) \/ CommitCancel(h)
    <3>1. \E s \in {"COMPLETED", "CANCELLED"} : order' = [order EXCEPT ![job[h].doc] = Bare(s)]
      BY <2>2 DEF CommitFinish, CommitCancel
    <3>2. \A s \in {"COMPLETED", "CANCELLED"} : Bare(s) \in [status : OrderStatuses, cost : Nat]
      BY DEF Bare, OrderStatuses
    <3> QED BY <2>0, <3>1, <3>2
  <2>3. CASE ~CommitOrder(h) /\ ~CommitFinish(h) /\ ~CommitCancel(h)
    <3>1. UNCHANGED order
      BY <2>3 DEF Commit, CommitMove, CommitShipment, CommitImport, CommitDraft,
                  CommitCounting, CommitCount, docs
    <3> QED BY <2>0, <3>1
  <2> QED BY <2>1, <2>2, <2>3
<1>6. CountTypes'
  <2>0. CountTypes /\ DOMAIN count = Counts
    BY DEF TypeInv, Typed, SafeInv, CountsOK
  <2>1. CASE CommitCounting(h)
    <3> DEFINE k == job[h].doc
               rows == {p \in Products : Moved(<<CountAt[k], p>>)}
               line(p) == [system |-> item[<<CountAt[k], p>>], fact |-> item[<<CountAt[k], p>>],
                           since |-> Len(moves[<<CountAt[k], p>>])]
               new == [status |-> "COUNTING", lines |-> [p \in rows |-> line(p)],
                       classified |-> {}]
    <3>1. k \in Counts /\ CountAt[k] \in Warehouses
      BY <1>1, <2>1, DocumentsAssumption DEF CommitCounting, PlanOK
    <3>2. count' = [count EXCEPT ![k] = new]
      BY <2>1 DEF CommitCounting
    <3>3. \A p \in rows : line(p).since \in Nat
      <4> TAKE p \in rows
      <4>1. moves[<<CountAt[k], p>>] \in Seq(Move)
        BY <3>1 DEF TypeInv, Typed, Cells
      <4> QED BY <4>1
    <3> HIDE DEF k, line, rows
    <3>4. /\ new.status = "COUNTING" /\ new.classified = {}
          /\ DOMAIN new.lines = rows
          /\ \A p \in rows : new.lines[p].since \in Nat
      BY <3>3
    <3> HIDE DEF new
    <3>5. \A l \in Counts : count'[l] = IF l = k THEN new ELSE count[l]
      BY <2>0, <3>2
    <3> QED BY <2>0, <3>4, <3>5 DEF CountTypes, CountStatuses
  <2>2. CASE CommitCount(h)
    <3> DEFINE new == Blank("COMPLETED")
    <3>1. \A l \in Counts : count'[l] = IF l = job[h].doc THEN new ELSE count[l]
      BY <2>0, <2>2 DEF CommitCount
    <3>2. new.status = "COMPLETED" /\ new.classified = {} /\ new.lines = <<>>
      BY DEF Blank
    <3>3. DOMAIN new.lines = {}
      BY <3>2
    <3> HIDE DEF new
    <3> QED BY <2>0, <3>1, <3>2, <3>3 DEF CountTypes, CountStatuses
  <2>3. CASE ~CommitCounting(h) /\ ~CommitCount(h)
    <3>1. UNCHANGED count
      BY <2>3 DEF Commit, CommitMove, CommitShipment, CommitImport, CommitDraft,
                  CommitOrder, CommitFinish, CommitCancel, docs
    <3> QED BY <2>0, <3>1 DEF CountTypes
  <2> QED BY <2>1, <2>2, <2>3
<1> QED BY <1>2, <1>3, <1>4, <1>5, <1>6 DEF Typed

LEMMA TypesStep ==
  ASSUME TypeInv, [Next]_vars
  PROVE  Typed'
<1>1. ASSUME NEW h \in Handlers, NEW c \in Entry, NEW q \in Lots
      PROVE  /\ \A d \in Dates : Receive(h, c, q, d) => Typed'
             /\ \A price \in Prices : AdjustIn(h, c, q, price) \/ Import(h, c, q, price) => Typed'
  <2>1. c \in Cells
    BY NumbersAssumption
  <2>2. ASSUME NEW price \in Prices, AdjustIn(h, c, q, price) \/ Import(h, c, q, price)
        PROVE  Typed'
    BY <2>1, <2>2, MovementTypes
  <2>3. ASSUME NEW d \in Dates, Receive(h, c, q, d)
        PROVE  Typed'
    BY <2>1, <2>3, ReceiptTypes
  <2> QED BY <2>2, <2>3
<1>2. ASSUME UNCHANGED vars PROVE Typed'
  BY <1>2 DEF vars, stock, docs, TypeInv, Typed, CountTypes, PlanTypes
<1>3. ASSUME NEW h \in Handlers, NEW c \in Cells, NEW w \in Warehouses, NEW d \in Dates,
             Transfer(h, c, w, d)
      PROVE  Typed'
  BY <1>3, TransferTypes
<1>4. ASSUME NEW h \in Handlers, NEW i \in Invoices, NEW w \in Warehouses, NEW d \in Dates,
             Ship(h, i, w, d)
      PROVE  Typed'
  BY <1>4, ShipTypes
<1>5. ASSUME NEW n \in Drafts, NEW type, NEW actual, CreateDraft(n, type, actual)
      PROVE  Typed'
  BY <1>5 DEF CreateDraft, stock, TypeInv, Typed, CountTypes, PlanTypes
<1>6. ASSUME NEW h \in Handlers, NEW n \in Drafts, NEW price \in Prices, PostDraft(h, n, price)
      PROVE  Typed'
  BY <1>6, PostDraftTypes
<1>7. ASSUME NEW h \in Handlers, NEW k \in Counts
      PROVE  /\ StartCounting(h, k) => Typed'
             /\ \A price \in Prices : Complete(h, k, price) => Typed'
  BY StartCountingTypes, CompleteTypes
<1>8. ASSUME NEW k \in Counts
      PROVE  /\ \A p, fact : SetFact(k, p, fact) => Typed'
             /\ Submit(k) \/ CancelCount(k) => Typed'
             /\ \A p : Classify(k, p) => Typed'
  BY ClerksTypes
<1>9. ASSUME NEW h \in Handlers, NEW o \in Orders,
             StartOrder(h, o) \/ FinishOrder(h, o) \/ CancelOrder(h, o)
      PROVE  Typed'
  BY <1>9, ProductionTypes
<1>10. ASSUME NEW h \in Handlers, NEW w \in Warehouses, Release(h, w)
       PROVE  Typed'
  BY <1>10, ReleaseTypes
<1>11. ASSUME NEW h \in Handlers, Commit(h)
       PROVE  Typed'
  BY <1>11, CommitTypes
<1>12. ASSUME NEW h \in Handlers, Fail(h)
       PROVE  Typed'
  <2>1. (\A g \in Handlers : PlanTypes(job[g]))'
    BY <1>12, EndTypes
  <2> QED BY <1>12, <2>1 DEF Fail, stock, docs, TypeInv, Typed, CountTypes
<1>13. ASSUME NEW h \in Handlers, NEW c \in Entry, NEW q \in Lots, AdjustOut(h, c, q)
       PROVE  Typed'
  <2>1. c \in Cells
    BY NumbersAssumption
  <2> QED BY <1>13, <2>1, ReceiptTypes
<1> QED BY <1>1, <1>2, <1>3, <1>4, <1>5, <1>6, <1>7, <1>8, <1>9, <1>10, <1>11, <1>12, <1>13
        DEF Next

(* However many requests are served at once, every row and every account     *)
(* holds what its column can hold: costs and quantities of movements are     *)
(* numbers, the lines of a count are of its warehouse's products, and only   *)
(* lines that are there are classified.                                      *)
THEOREM StockTypes == Spec => []TypeOK
<1>1. TypeInv /\ [Next]_vars => TypeInv'
  BY SafeNext, TypesStep DEF TypeInv
<1> QED BY TypesInit, <1>1, TypesFollow, PTL DEF Spec
--------------------------------------------------------------------------------
(* The worth of a cell whose documents were entered in the order of their  *)
(* dates                                                                   *)

\* A movement behind all that are not later goes to the end.
LEMMA PlaceAtEnd ==
  ASSUME NEW M, NEW s \in Seq(M), NEW m \in M, \A i \in 1..Len(s) : s[i].date <= m.date
  PROVE  /\ Len(Place(s, m)) = Len(s) + 1
         /\ \A i \in 1..Len(s) : Place(s, m)[i] = s[i]
         /\ Place(s, m)[Len(s) + 1] = m
<1> DEFINE n == Len(s)
           E == {i \in DOMAIN s : s[i].date <= m.date}
<1>1. n \in Nat /\ DOMAIN s = 1..n
  OBVIOUS
<1>2. E = 1..n
  BY <1>1
<1>3. Cardinality(E) = n
  <2>1. Cardinality(1..n) = IF 1 > n THEN 0 ELSE n - 1 + 1
    BY <1>1, FS_Interval
  <2> HIDE DEF E, n
  <2> QED BY <1>1, <1>2, <2>1
<1>4. Place(s, m) = InsertAt(s, 1 + n, m)
  BY <1>3 DEF Place
<1>5. n \in 0..Len(s)
  BY <1>1
<1>6. IsInserted(InsertAt(s, 1 + n, m), s, n, m)
  <2> HIDE DEF n, E
  <2> QED BY <1>5, Inserted
<1> QED BY <1>4, <1>6 DEF IsInserted

\* A sequence that is ordered is already sorted.
LEMMA OrderedIsSorted ==
  ASSUME NEW ms \in Seq(Move), Ordered(ms)
  PROVE  ByDate(ms) = ms
<1> DEFINE n == Len(ms)
<1>1. n \in Nat /\ \A i \in 1..n : ms[i] \in Move
  OBVIOUS
<1>2. PICK F : /\ F \in [0..n -> Seq(Move)]
               /\ F[0] = <<>>
               /\ \A k \in 1..n : F[k] = Place(F[k - 1], ms[k])
               /\ ByDate(ms) = F[n]
  BY ByDateRuns
<1>3. \A i, j \in 1..n : i < j => ms[i].date <= ms[j].date
  BY DEF Ordered
<1> HIDE DEF n
<1> DEFINE Good(k) == Len(F[k]) = k /\ \A i \in 1..k : F[k][i] = ms[i]
           Bad == {k \in 0..n : ~Good(k)}
<1>4. Bad = {}
  <2> SUFFICES ASSUME Bad # {} PROVE FALSE
    OBVIOUS
  <2>1. PICK k \in Bad : \A j \in Bad : k <= j
    <3>1. Bad \in SUBSET Nat
      BY <1>1
    <3> HIDE DEF Bad
    <3> QED BY <3>1, SmallestNumber
  <2>2. k # 0
    BY <1>2
  <2>3. k \in 1..n /\ k - 1 \in 0..n /\ k - 1 \notin Bad
    BY <1>1, <2>1, <2>2
  <2> DEFINE s == F[k - 1]
  <2>4. s \in Seq(Move) /\ Len(s) = k - 1 /\ \A i \in 1..(k - 1) : s[i] = ms[i]
    BY <1>2, <2>3
  <2>5. \A i \in 1..Len(s) : s[i].date <= ms[k].date
    BY <1>1, <1>3, <2>3, <2>4
  <2>6. F[k] = Place(s, ms[k]) /\ ms[k] \in Move
    BY <1>1, <1>2, <2>3
  <2>7. ~Good(k)
    OBVIOUS
  <2> HIDE DEF s, Bad, Good
  <2>8. /\ Len(F[k]) = Len(s) + 1
        /\ \A i \in 1..Len(s) : F[k][i] = s[i]
        /\ F[k][Len(s) + 1] = ms[k]
    <3> DEFINE m == ms[k]
               r == Place(s, m)
    <3>1. s \in Seq(Move) /\ m \in Move /\ \A i \in 1..Len(s) : s[i].date <= m.date
      BY <2>4, <2>5, <2>6
    <3> HIDE DEF m
    <3>2. Len(r) = Len(s) + 1 /\ (\A i \in 1..Len(s) : r[i] = s[i]) /\ r[Len(s) + 1] = m
      BY <3>1, PlaceAtEnd
    <3>3. F[k] = r
      BY <2>6 DEF m
    <3> HIDE DEF r
    <3> QED BY <3>2, <3>3 DEF m
  <2>9. Good(k)
    BY <1>1, <2>3, <2>4, <2>8 DEF Good
  <2> QED BY <2>7, <2>9
<1>5. n \in 0..n /\ Good(n)
  BY <1>1, <1>4
<1>6. F[n] \in Seq(Move)
  BY <1>2, <1>5
<1> HIDE DEF Bad
<1>7. F[n] = ms
  <2> DEFINE u == F[n]
  <2>1. u \in Seq(Move) /\ Len(u) = Len(ms) /\ \A i \in 1..Len(ms) : u[i] = ms[i]
    BY <1>5, <1>6 DEF n
  <2> HIDE DEF u
  <2>2. u = ms
    BY <2>1, SeqEqual
  <2> QED BY <2>2 DEF u
<1> QED BY <1>2, <1>7

LEMMA OrderedPrefix ==
  ASSUME NEW ms \in Seq(Move), NEW m \in Move, Ordered(Append(ms, m))
  PROVE  Ordered(ms)
<1> DEFINE t == Append(ms, m)
           n == Len(ms)
<1>1. n \in Nat /\ Len(t) = n + 1 /\ \A i \in 1..n : t[i] = ms[i]
  OBVIOUS
<1>2. \A i, j \in 1..(n + 1) : i < j => t[i].date <= t[j].date
  BY <1>1 DEF Ordered
<1> HIDE DEF t
<1>3. \A i, j \in 1..n : i < j => ms[i].date <= ms[j].date
  BY <1>1, <1>2
<1> QED BY <1>3 DEF Ordered

\* One more movement takes or adds layers, and nothing else.
LEMMA LayersOfAppend ==
  ASSUME NEW ts \in Seq(Move), NEW m \in Move
  PROVE  LayersOf(Append(ts, m)) = LayersAfter(LayersOf(ts), m)
<1> DEFINE n == Len(ts)
           us == Append(ts, m)
<1>1. /\ n \in Nat /\ us \in Seq(Move) /\ Len(us) = n + 1
      /\ \A i \in 1..n : us[i] = ts[i]
      /\ us[n + 1] = m
  OBVIOUS
<1> HIDE DEF us
<1>2. /\ Movements(ts) /\ \A i \in 1..n : ts[i].price \in Nat
      /\ Movements(us) /\ \A i \in 1..Len(us) : us[i].price \in Nat
  <2>1. \A i \in 1..n : ts[i] \in Move
    BY MovesAreMovements
  <2>2. \A i \in 1..Len(us) : us[i] \in Move
    BY <1>1, MovesAreMovements
  <2> QED BY <1>1, <2>1, <2>2, MovesAreMovements, MoveFields
<1>3. PICK F : /\ F \in [0..n -> Seq(Nat)]
               /\ F[0] = <<>>
               /\ \A k \in 1..n : F[k] = LayersAfter(F[k - 1], ts[k])
               /\ LayersOf(ts) = F[n]
  BY <1>2, LayersRun
<1>4. PICK G : /\ G \in [0..Len(us) -> Seq(Nat)]
               /\ G[0] = <<>>
               /\ \A k \in 1..Len(us) : G[k] = LayersAfter(G[k - 1], us[k])
               /\ LayersOf(us) = G[Len(us)]
  BY <1>2, LayersRun
<1> HIDE DEF n
<1> DEFINE Bad == {k \in 0..n : G[k] # F[k]}
<1>5. Bad = {}
  <2> SUFFICES ASSUME Bad # {} PROVE FALSE
    OBVIOUS
  <2>1. PICK k \in Bad : \A j \in Bad : k <= j
    <3>1. Bad \in SUBSET Nat
      BY <1>1
    <3> HIDE DEF Bad
    <3> QED BY <3>1, SmallestNumber
  <2>2. k # 0
    BY <1>3, <1>4
  <2>3. k \in 1..n /\ k - 1 \in 0..n /\ k \in 1..(n + 1) /\ k - 1 \notin Bad
    BY <1>1, <2>1, <2>2
  <2>4. G[k - 1] = F[k - 1] /\ us[k] = ts[k]
    BY <1>1, <2>3
  <2>5. G[k] = LayersAfter(G[k - 1], us[k]) /\ F[k] = LayersAfter(F[k - 1], ts[k])
    BY <1>1, <1>3, <1>4, <2>3
  <2> QED BY <2>4, <2>5
<1>6. n \in 0..n /\ n + 1 \in 1..(n + 1) /\ (n + 1) - 1 = n
  BY <1>1
<1>7. G[n + 1] = LayersAfter(G[n], us[n + 1])
  BY <1>1, <1>4, <1>6
<1>8. G[n] = F[n]
  BY <1>5, <1>6
<1> QED BY <1>1, <1>3, <1>4, <1>7, <1>8 DEF us

\* What m adds to the worth of a cell whose layers are ls.
Adds(ls, m) == IF m.in THEN m.qty * m.price ELSE -SumOf(SubSeq(ls, 1, m.qty))

LEMMA WorthAppend ==
  ASSUME NEW ms \in Seq(Move), NEW m \in Move, Ordered(Append(ms, m)),
         m.in \/ m.qty <= Len(Layers(ms))
  PROVE  SumOf(Layers(Append(ms, m))) = SumOf(Layers(ms)) + Adds(Layers(ms), m)
<1> DEFINE us == Append(ms, m)
           ls == Layers(ms)
<1>1. us \in Seq(Move)
  OBVIOUS
<1>2. Ordered(ms)
  BY OrderedPrefix
<1>3. Layers(ms) = LayersOf(ms)
  BY <1>2, OrderedIsSorted, LayersAreOfSorted
<1>4. Layers(us) = LayersOf(us)
  <2>1. Ordered(us)
    OBVIOUS
  <2> HIDE DEF us
  <2> QED BY <1>1, <2>1, OrderedIsSorted, LayersAreOfSorted
<1>5. Layers(us) = LayersAfter(ls, m)
  BY <1>3, <1>4, LayersOfAppend
<1>6. ls \in Seq(Nat)
  BY LayersType
<1>7. m.in \in BOOLEAN /\ m.qty \in Nat /\ m.price \in Nat
  BY MoveFields DEF IsMovement
<1> HIDE DEF us, ls
<1>8. CASE m.in
  <2> DEFINE new == [i \in 1..m.qty |-> m.price]
  <2>1. new \in Seq(Nat) /\ SumOf(new) = m.qty * m.price
    BY <1>7, SumOfUnits
  <2>2. Layers(us) = ls \o new
    BY <1>5, <1>8 DEF LayersAfter
  <2> HIDE DEF new
  <2>3. SumOf(Layers(us)) = SumOf(ls) + SumOf(new)
    BY <1>6, <2>1, <2>2, SumOfConcat
  <2> QED BY <1>8, <2>1, <2>3 DEF us, ls, Adds
<1>9. CASE ~m.in
  <2> DEFINE q == m.qty
             first == SumOf(SubSeq(ls, 1, q))
             rest == SumOf(SubSeq(ls, q + 1, Len(ls)))
  <2>1. q \in 0..Len(ls)
    BY <1>6, <1>7, <1>9 DEF ls
  <2>2. SumOf(ls) = first + rest /\ first \in Nat /\ rest \in Nat
    <3> HIDE DEF q
    <3> QED BY <1>6, <2>1, Split, SumOfType
  <2>3. SumOf(Layers(us)) = rest
    BY <1>5, <1>9 DEF LayersAfter
  <2>4. Adds(ls, m) = -first
    BY <1>9 DEF Adds
  <2>5. SumOf(ls) \in Nat
    BY <1>6, SumOfType
  <2> HIDE DEF first, rest
  <2>6. SumOf(Layers(us)) = SumOf(ls) + Adds(ls, m)
    BY <2>2, <2>3, <2>4, <2>5
  <2> QED BY <2>6 DEF us, ls
<1> QED BY <1>7, <1>8, <1>9
--------------------------------------------------------------------------------
(* Requests plan to move the books by what their movements are worth       *)

\* What a movement adds to the worth of its cell.
Gains(c, m) == IF m.in THEN m.qty * m.price ELSE -IssueCost(c, m.qty)

PlanGains(j) == [c \in DOMAIN j.post |-> Gains(c, j.post[c].move)]

\* The cost an order has in production.
Carried(o) == IF order[o].status = "IN_PROGRESS" THEN order[o].cost ELSE 0

ProductionOps == {"order", "finish", "cancel"}

PlanWip(j) ==
  /\ j.op = "order" => Carried(j.doc) = 0
  /\ j.op \in {"finish", "cancel"} => j.wip = -Carried(j.doc)
  /\ j.op \notin ProductionOps => j.wip = 0

PlanGain(j) ==
  /\ DOMAIN j.post \subseteq Cells
  /\ Values(PlanGains(j), DOMAIN j.post)
  /\ j.stock = SumOn(PlanGains(j), DOMAIN j.post)

PlanBalances(j) == PlanGain(j) /\ PlanWip(j)

LEMMA InGains ==
  ASSUME NEW c, NEW b, NEW q, NEW price, NEW d, NEW doc
  PROVE  Gains(c, In(b, q, price, d, doc).move) = q * price
BY DEF Gains, In

LEMMA OutGains ==
  ASSUME NEW c, NEW b, NEW q, NEW d, NEW doc
  PROVE  Gains(c, Out(b, q, d, doc).move) = -IssueCost(c, q)
BY DEF Gains, Out

LEMMA CorrectionGains ==
  ASSUME NEW c, NEW delta \in Int, NEW price, NEW d, NEW doc
  PROVE  Gains(c, Correction(c, delta, price, d, doc).move) = CorrectionCost(c, delta, price)
<1>1. CASE delta > 0
  BY <1>1, InGains DEF Correction, CorrectionCost
<1>2. CASE ~(delta > 0)
  BY <1>2, OutGains DEF Correction, CorrectionCost
<1> QED BY <1>1, <1>2

\* Nothing to correct costs nothing.
LEMMA NoCorrection ==
  ASSUME NEW c, moves[c] \in Seq(Move), NEW price
  PROVE  CorrectionCost(c, 0, price) = 0
<1> DEFINE ls == Layers(moves[c])
<1>1. ls \in Seq(Nat)
  BY LayersType
<1> HIDE DEF ls
<1> DEFINE none == [i \in 1..0 |-> 0]
           first == SubSeq(ls, 1, 0)
<1>2. SumOf(none) = 0
  <2>1. SumOf(none) = 0 * 0
    BY SumOfUnits
  <2> HIDE DEF none
  <2> QED BY <2>1
<1>3. first = none
  BY <1>1
<1> HIDE DEF none, first
<1>4. 0 <= Len(ls)
  BY <1>1
<1>5. IssueCost(c, 0) = SumOf(first)
  BY <1>4, IssueCostIs DEF ls, first
<1>6. IssueCost(c, 0) = 0
  BY <1>2, <1>3, <1>5
<1> QED BY <1>6 DEF CorrectionCost

LEMMA SumOfOne ==
  ASSUME NEW v, NEW c, v[c] \in Int
  PROVE  SumOn(v, {c}) = v[c]
<1>1. IsFiniteSet({c}) /\ Values(v, {c}) /\ c \in {c} /\ {c} \ {c} = {}
  BY FS_Singleton DEF Values
<1>2. SumOn(v, {c}) = v[c] + SumOn(v, {c} \ {c})
  BY <1>1, SumRemove
<1> QED BY <1>1, <1>2, SumEmpty

LEMMA SumOfTwo ==
  ASSUME NEW v, NEW c, NEW t, c # t, v[c] \in Int, v[t] \in Int
  PROVE  SumOn(v, {c, t}) = v[c] + v[t]
<1>1. IsFiniteSet({c, t})
  <2>1. {c, t} = {c} \cup {t} /\ IsFiniteSet({c})
    BY FS_Singleton
  <2> QED BY <2>1, FS_AddElement
<1>2. Values(v, {c, t}) /\ c \in {c, t} /\ {c, t} \ {c} = {t}
  BY DEF Values
<1>3. SumOn(v, {c, t}) = v[c] + SumOn(v, {c, t} \ {c})
  BY <1>1, <1>2, SumRemove
<1>4. SumOn(v, {c, t} \ {c}) = SumOn(v, {t})
  BY <1>2
<1>5. SumOn(v, {t}) = v[t]
  BY SumOfOne
<1> QED BY <1>3, <1>4, <1>5

LEMMA OneCellGains ==
  ASSUME NEW op, NEW doc, NEW c \in Cells, NEW p, NEW s \in Int, Gains(c, p.move) = s, NEW w
  PROVE  PlanGain(Plan(op, doc, One(c, p), s, w))
<1> DEFINE plan == Plan(op, doc, One(c, p), s, w)
<1>1. plan.post = One(c, p) /\ plan.stock = s
  BY PlanFields, PlanHas
<1> HIDE DEF plan
<1>2. DOMAIN plan.post = {c} /\ plan.post[c] = p
  BY <1>1, OneCell
<1> DEFINE v == PlanGains(plan)
<1>3. v[c] = s
  BY <1>2 DEF PlanGains
<1> HIDE DEF v
<1>4. SumOn(v, {c}) = s
  BY <1>3, SumOfOne
<1>5. PlanGain(plan)
  BY <1>1, <1>2, <1>3, <1>4 DEF v, PlanGain, Values
<1> QED BY <1>5 DEF plan

LEMMA TwoCellGains ==
  ASSUME NEW c \in Cells, NEW t \in Cells, c # t, NEW out, NEW into, NEW g \in Int,
         Gains(c, out.move) = -g, Gains(t, into.move) = g
  PROVE  PlanGain(Plan("move", NoDoc, [x \in {c, t} |-> IF x = c THEN out ELSE into], 0, 0))
<1> DEFINE post == [x \in {c, t} |-> IF x = c THEN out ELSE into]
           plan == Plan("move", NoDoc, post, 0, 0)
<1>1. plan.post = post /\ plan.stock = 0
  BY PlanFields, PlanHas
<1> HIDE DEF plan
<1>2. DOMAIN post = {c, t} /\ post[c] = out /\ post[t] = into
  OBVIOUS
<1> HIDE DEF post
<1> DEFINE v == PlanGains(plan)
<1>3. v[c] = -g /\ v[t] = g
  BY <1>1, <1>2 DEF PlanGains
<1> HIDE DEF v
<1>4. SumOn(v, {c, t}) = v[c] + v[t]
  <2>1. v[c] \in Int /\ v[t] \in Int
    BY <1>3
  <2> QED BY <2>1, SumOfTwo
<1>5. SumOn(v, {c, t}) = 0
  BY <1>3, <1>4
<1>6. PlanGain(plan)
  BY <1>1, <1>2, <1>3, <1>5 DEF v, PlanGain, Values
<1> QED BY <1>6 DEF plan, post

LEMMA EmptyPlanGains ==
  ASSUME NEW op, NEW doc
  PROVE  PlanGain(Plan(op, doc, <<>>, 0, 0))
<1> DEFINE plan == Plan(op, doc, <<>>, 0, 0)
<1>1. plan.post = <<>> /\ plan.stock = 0
  BY PlanFields, PlanHas
<1> HIDE DEF plan
<1>2. DOMAIN plan.post = {}
  BY <1>1
<1>3. PlanGain(plan)
  BY <1>1, <1>2, SumEmpty DEF PlanGain, Values
<1> QED BY <1>3 DEF plan

\* Whoever is not in production leaves its account alone.
LEMMA OtherWip ==
  ASSUME NEW op, op \notin ProductionOps, NEW doc, NEW post, NEW s
  PROVE  PlanWip(Plan(op, doc, post, s, 0))
<1> DEFINE plan == Plan(op, doc, post, s, 0)
<1>1. plan.op = op /\ plan.wip = 0
  BY PlanFields, PlanHas
<1> HIDE DEF plan
<1>2. PlanWip(plan)
  BY <1>1 DEF PlanWip, ProductionOps
<1> QED BY <1>2 DEF plan
--------------------------------------------------------------------------------
(* The books hold what the stock and the production are worth              *)

Worths == [c \in Cells |-> SumOf(Layers(moves[c]))]
Carrieds == [o \in Orders |-> Carried(o)]
InOrder == \A c \in Cells : Ordered(moves[c])

StockBooked == InOrder => books.stock = SumOn(Worths, Cells)
WipBooked == books.wip = SumOn(Carrieds, Orders)
PlansBalance == \A h \in Handlers : PlanBalances(job[h])

BalanceInv == StockBooked /\ WipBooked /\ PlansBalance

BooksInv == QuantityInv /\ TypeInv /\ BalanceInv

\* The books are looked at by nobody else's plan.
LEMMA BooksStay ==
  ASSUME BooksInv, UNCHANGED <<stock, order>>
  PROVE  /\ StockBooked' /\ WipBooked'
         /\ \A j : PlanBalances(j) => PlanBalances(j)'
<1>1. item' = item /\ moves' = moves /\ books' = books /\ order' = order
  BY DEF stock
<1>2. StockBooked'
  BY <1>1 DEF BooksInv, BalanceInv, StockBooked, InOrder, Worths
<1>3. WipBooked'
  BY <1>1 DEF BooksInv, BalanceInv, WipBooked, Carrieds, Carried
<1>4. \A j : PlanWip(j) => PlanWip(j)'
  BY <1>1 DEF PlanWip, Carried
<1>5. \A j : PlanGain(j) => PlanGain(j)'
  <2>1. \A c, q : IssueCost(c, q)' = IssueCost(c, q)
    BY <1>1 DEF IssueCost
  <2>2. \A c, m : Gains(c, m)' = Gains(c, m)
    BY <2>1 DEF Gains
  <2>3. \A j : PlanGains(j)' = PlanGains(j)
    BY <2>2 DEF PlanGains
  <2> QED BY <2>3 DEF PlanGain
<1> QED BY <1>2, <1>3, <1>4, <1>5 DEF PlanBalances

LEMMA BeginBalances ==
  ASSUME BooksInv, NEW h \in Handlers, NEW plan, PlanBalances(plan), Begin(h, plan)
  PROVE  BalanceInv'
<1>1. \A g \in Handlers : job'[g] = IF g = h THEN plan ELSE job[g]
  BY DEF BooksInv, TypeInv, SafeInv, JobsOK, Begin
<1>2. UNCHANGED <<stock, order>>
  BY DEF Begin, docs
<1>3. \A g \in Handlers : PlanBalances(job'[g])
  BY <1>1 DEF BooksInv, BalanceInv, PlansBalance
<1>4. \A j : PlanBalances(j) => PlanBalances(j)'
  BY <1>2, BooksStay
<1>5. PlansBalance'
  BY <1>3, <1>4 DEF PlansBalance
<1> QED BY <1>2, <1>5, BooksStay DEF BalanceInv

LEMMA QuietBalances ==
  ASSUME BooksInv, UNCHANGED <<stock, order, job>>
  PROVE  BalanceInv'
<1>1. \A g \in Handlers : PlanBalances(job'[g])
  BY DEF BooksInv, BalanceInv, PlansBalance
<1>2. \A j : PlanBalances(j) => PlanBalances(j)'
  BY BooksStay
<1>3. PlansBalance'
  BY <1>1, <1>2 DEF PlansBalance
<1> QED BY <1>3, BooksStay DEF BalanceInv

LEMMA IdleBalances == PlanBalances(Idle)
<1>1. PlanWip(Idle)
  <2>1. "idle" \notin ProductionOps
    BY DEF ProductionOps
  <2> QED BY <2>1, OtherWip DEF Idle
<1> QED BY <1>1, EmptyPlanGains DEF PlanBalances, Idle

LEMMA FailBalances ==
  ASSUME BooksInv, NEW h \in Handlers, Fail(h)
  PROVE  BalanceInv'
<1>1. \A g \in Handlers : job'[g] = IF g = h THEN Idle ELSE job[g]
  BY DEF BooksInv, TypeInv, SafeInv, JobsOK, Fail
<1>2. UNCHANGED <<stock, order>>
  BY DEF Fail, docs
<1>3. \A g \in Handlers : PlanBalances(job'[g])
  BY <1>1, IdleBalances DEF BooksInv, BalanceInv, PlansBalance
<1>4. \A j : PlanBalances(j) => PlanBalances(j)'
  BY <1>2, BooksStay
<1>5. PlansBalance'
  BY <1>3, <1>4 DEF PlansBalance
<1> QED BY <1>2, <1>5, BooksStay DEF BalanceInv

(* Each request *)
LEMMA MovementsBalance ==
  ASSUME BooksInv, NEW h \in Handlers, NEW c \in Cells, NEW q \in Lots, NEW price, NEW d,
         \/ Receive(h, c, q, d) \/ AdjustOut(h, c, q)
         \/ price \in Prices /\ (AdjustIn(h, c, q, price) \/ Import(h, c, q, price))
  PROVE  BalanceInv'
<1>1. q \in Nat /\ moves[c] \in Seq(Move)
  BY NumbersAssumption DEF BooksInv, TypeInv, Typed
<1>2. "move" \notin ProductionOps /\ "import" \notin ProductionOps
  BY DEF ProductionOps
<1>3. ASSUME Receive(h, c, q, d) PROVE BalanceInv'
  <2> DEFINE p == In(c, q, 0, d, NoDoc)
  <2>1. Gains(c, p.move) = q * 0
    BY InGains
  <2>2. Gains(c, p.move) = 0 /\ 0 \in Int
    <3> HIDE DEF p
    <3> QED BY <1>1, <2>1
  <2>3. Begin(h, Plan("move", NoDoc, One(c, p), 0, 0))
    BY <1>3 DEF Receive
  <2> HIDE DEF p
  <2>4. PlanBalances(Plan("move", NoDoc, One(c, p), 0, 0))
    BY <1>2, <2>2, OneCellGains, OtherWip DEF PlanBalances
  <2> QED BY <2>3, <2>4, BeginBalances
<1>4. ASSUME AdjustOut(h, c, q) PROVE BalanceInv'
  <2> DEFINE p == Out(c, q, Today, NoDoc)
             cost == -IssueCost(c, q)
  <2>1. Gains(c, p.move) = cost
    BY OutGains
  <2>2. cost \in Int
    <3>1. IssueCost(c, q) \in Nat
      BY <1>1, IssueCostIs
    <3> QED BY <3>1
  <2>3. Begin(h, Plan("move", NoDoc, One(c, p), cost, 0))
    BY <1>4 DEF AdjustOut
  <2> HIDE DEF p, cost
  <2>4. PlanBalances(Plan("move", NoDoc, One(c, p), cost, 0))
    BY <1>2, <2>1, <2>2, OneCellGains, OtherWip DEF PlanBalances
  <2> QED BY <2>3, <2>4, BeginBalances
<1>5. ASSUME price \in Prices, AdjustIn(h, c, q, price) \/ Import(h, c, q, price)
      PROVE  BalanceInv'
  <2> DEFINE p == In(c, q, price, Today, NoDoc)
             cost == q * price
             version == <<c, Len(moves[c]), opening>>
             adjust == Plan("move", NoDoc, One(c, p), cost, 0)
             import == Plan("import", NoDoc, One(c, p), cost, 0)
             opened == [import EXCEPT !.version = version]
  <2>1. Gains(c, p.move) = cost
    BY InGains
  <2>2. cost \in Int
    <3>1. price \in Nat
      BY <1>5, NumbersAssumption
    <3> QED BY <1>1, <3>1
  <2>3. Begin(h, adjust) \/ Begin(h, opened)
    BY <1>5 DEF AdjustIn, Import
  <2>4. opened.op = import.op /\ opened.doc = import.doc /\ opened.post = import.post
        /\ opened.stock = import.stock /\ opened.wip = import.wip
    BY DEF Plan
  <2> HIDE DEF p, cost, version, opened
  <2>5. PlanBalances(adjust) /\ PlanBalances(import)
    BY <1>2, <2>1, <2>2, OneCellGains, OtherWip DEF PlanBalances
  <2> HIDE DEF adjust, import
  <2>6. PlanGains(opened) = PlanGains(import)
    BY <2>4 DEF PlanGains
  <2>7. PlanBalances(opened)
    BY <2>4, <2>5, <2>6 DEF PlanBalances, PlanGain, PlanWip
  <2> QED BY <2>3, <2>5, <2>7, BeginBalances
<1> QED BY <1>3, <1>4, <1>5
LEMMA TransferBalances ==
  ASSUME BooksInv, NEW h \in Handlers, NEW c \in Cells, NEW w \in Warehouses, NEW d,
         Transfer(h, c, w, d)
  PROVE  BalanceInv'
<1> DEFINE to == <<w, c[2]>>
           out == Out(c, 1, d, NoDoc)
           into == In(to, 1, IssueCost(c, 1), d, NoDoc)
           plan == Plan("move", NoDoc, [x \in {c, to} |-> IF x = c THEN out ELSE into], 0, 0)
<1>1. to \in Cells /\ to # c
  BY EnteredCell DEF Transfer, Cells
<1>2. Begin(h, plan)
  BY DEF Transfer
<1>3. moves[c] \in Seq(Move)
  BY DEF BooksInv, TypeInv, Typed
<1> HIDE DEF to
<1>4. Gains(c, out.move) = -IssueCost(c, 1) /\ Gains(to, into.move) = 1 * IssueCost(c, 1)
  BY InGains, OutGains
<1> HIDE DEF out, into
<1>5. IssueCost(c, 1) \in Nat
  BY <1>3, IssueCostIs
<1>6. PlanGain(plan)
  <2> DEFINE g == IssueCost(c, 1)
  <2>1. g \in Int /\ 1 * g = g
    BY <1>5
  <2>2. Gains(c, out.move) = -g /\ Gains(to, into.move) = g
    BY <1>4, <2>1
  <2> HIDE DEF g
  <2> QED BY <1>1, <2>1, <2>2, TwoCellGains
<1>7. PlanWip(plan)
  BY OtherWip DEF ProductionOps
<1> HIDE DEF plan
<1> QED BY <1>2, <1>6, <1>7, BeginBalances DEF PlanBalances

LEMMA ReleaseBalances ==
  ASSUME BooksInv, NEW h \in Handlers, NEW w \in Warehouses, Release(h, w)
  PROVE  BalanceInv'
<1> DEFINE c == <<w, Goods>>
           made == <<w, Made>>
           out == Out(c, 1, Today, NoDoc)
           into == In(made, 1, IssueCost(c, 1), Today, NoDoc)
           plan == Plan("move", NoDoc, [x \in {c, made} |-> IF x = c THEN out ELSE into], 0, 0)
<1>1. c \in Cells /\ made \in Cells /\ made # c
  BY DocumentsAssumption DEF Cells, Products
<1>2. Begin(h, plan)
  BY DEF Release
<1> HIDE DEF c, made
<1>3. moves[c] \in Seq(Move)
  BY <1>1 DEF BooksInv, TypeInv, Typed
<1>4. Gains(c, out.move) = -IssueCost(c, 1) /\ Gains(made, into.move) = 1 * IssueCost(c, 1)
  BY InGains, OutGains
<1> HIDE DEF out, into
<1>5. IssueCost(c, 1) \in Nat
  BY <1>3, IssueCostIs
<1>6. PlanGain(plan)
  <2> DEFINE g == IssueCost(c, 1)
  <2>1. g \in Int /\ 1 * g = g
    BY <1>5
  <2>2. Gains(c, out.move) = -g /\ Gains(made, into.move) = g
    BY <1>4, <2>1
  <2> HIDE DEF g
  <2> QED BY <1>1, <2>1, <2>2, TwoCellGains
<1>7. PlanWip(plan)
  BY OtherWip DEF ProductionOps
<1> HIDE DEF plan
<1> QED BY <1>2, <1>6, <1>7, BeginBalances DEF PlanBalances

LEMMA ShipBalances ==
  ASSUME BooksInv, NEW h \in Handlers, NEW i \in Invoices, NEW w \in Warehouses, NEW d,
         Ship(h, i, w, d)
  PROVE  BalanceInv'
<1> DEFINE c == <<w, Goods>>
           q == Quantity[i]
           p == Out(c, q, d, i)
           cost == -IssueCost(c, q)
           plan == Plan("ship", i, One(c, p), cost, 0)
<1>1. c \in Cells /\ q \in Nat
  BY DocumentsAssumption DEF Cells, Products
<1>2. Begin(h, plan)
  BY DEF Ship
<1> HIDE DEF c, q
<1>3. moves[c] \in Seq(Move)
  BY <1>1 DEF BooksInv, TypeInv, Typed
<1>4. Gains(c, p.move) = cost
  BY OutGains
<1>5. cost \in Int
  <2>1. IssueCost(c, q) \in Nat
    BY <1>1, <1>3, IssueCostIs
  <2> QED BY <2>1
<1> HIDE DEF p, cost
<1>6. PlanGain(plan)
  BY <1>1, <1>4, <1>5, OneCellGains
<1>7. PlanWip(plan)
  BY OtherWip DEF ProductionOps
<1> HIDE DEF plan
<1> QED BY <1>2, <1>6, <1>7, BeginBalances DEF PlanBalances

LEMMA StartCountingBalances ==
  ASSUME BooksInv, NEW h \in Handlers, NEW k \in Counts, StartCounting(h, k)
  PROVE  BalanceInv'
<1> DEFINE plan == Plan("start", k, <<>>, 0, 0)
<1>1. Begin(h, plan)
  BY DEF StartCounting
<1>2. PlanGain(plan)
  BY EmptyPlanGains
<1>3. PlanWip(plan)
  BY OtherWip DEF ProductionOps
<1> HIDE DEF plan
<1> QED BY <1>1, <1>2, <1>3, BeginBalances DEF PlanBalances

LEMMA ProductionBalances ==
  ASSUME BooksInv, NEW h \in Handlers, NEW o \in Orders,
         StartOrder(h, o) \/ FinishOrder(h, o) \/ CancelOrder(h, o)
  PROVE  BalanceInv'
<1> DEFINE c == <<OrderAt[o], Goods>>
           made == <<OrderAt[o], Made>>
           cost == order[o].cost
<1>1. c \in Cells /\ made \in Cells /\ cost \in Nat
  BY DocumentsAssumption DEF Cells, Products, BooksInv, TypeInv, Typed
<1>2. moves[c] \in Seq(Move)
  BY <1>1 DEF BooksInv, TypeInv, Typed
<1>3. cost \in Int /\ 1 * cost = cost
  BY <1>1
<1>4. CASE StartOrder(h, o)
  <2> DEFINE p == Out(c, 1, Today, o)
             issue == IssueCost(c, 1)
             plan == Plan("order", o, One(c, p), -issue, issue)
  <2>1. Begin(h, plan) /\ order[o].status = "DRAFT"
    BY <1>4 DEF StartOrder
  <2> HIDE DEF c
  <2>2. Gains(c, p.move) = -issue
    BY OutGains
  <2>3. -issue \in Int
    <3>1. issue \in Nat
      BY <1>2, IssueCostIs
    <3> HIDE DEF issue
    <3> QED BY <3>1
  <2> HIDE DEF p, issue
  <2>4. PlanGain(plan)
    <3> DEFINE s == -issue
    <3> HIDE DEF s
    <3>1. Gains(c, p.move) = s /\ s \in Int
      BY <2>2, <2>3 DEF s
    <3>2. PlanGain(Plan("order", o, One(c, p), s, issue))
      BY <1>1, <3>1, OneCellGains
    <3> QED BY <3>2 DEF s
  <2>5. plan.op = "order" /\ plan.doc = o
    BY PlanFields
  <2> HIDE DEF plan
  <2>6. PlanWip(plan)
    BY <2>1, <2>5 DEF PlanWip, ProductionOps, Carried
  <2> QED BY <2>1, <2>4, <2>6, BeginBalances DEF PlanBalances
<1>5. CASE FinishOrder(h, o)
  <2> DEFINE p == In(made, 1, cost, Today, o)
             plan == Plan("finish", o, One(made, p), cost, -cost)
  <2>1. Begin(h, plan) /\ order[o].status = "IN_PROGRESS"
    BY <1>5 DEF FinishOrder
  <2>2. Carried(o) = cost
    BY <2>1 DEF Carried
  <2> HIDE DEF made, cost
  <2>3. Gains(made, p.move) = 1 * cost
    BY InGains
  <2>4. Gains(made, p.move) = cost
    BY <1>3, <2>3
  <2> HIDE DEF p
  <2>5. PlanGain(plan)
    BY <1>1, <1>3, <2>4, OneCellGains
  <2>6. plan.op = "finish" /\ plan.doc = o /\ plan.wip = -cost
    BY PlanFields, PlanHas
  <2> HIDE DEF plan
  <2>7. PlanWip(plan)
    BY <2>2, <2>6 DEF PlanWip, ProductionOps
  <2> QED BY <2>1, <2>5, <2>7, BeginBalances DEF PlanBalances
<1>6. CASE CancelOrder(h, o)
  <2> DEFINE p == In(c, 1, cost, Today, o)
             plan == Plan("cancel", o, One(c, p), cost, -cost)
             none == Plan("cancel", o, <<>>, 0, 0)
  <2>1. \/ Begin(h, none) /\ order[o].status = "DRAFT"
        \/ Begin(h, plan) /\ order[o].status = "IN_PROGRESS"
    BY <1>6 DEF CancelOrder
  <2>2. order[o].status = "IN_PROGRESS" => Carried(o) = cost
    BY DEF Carried
  <2>3. order[o].status = "DRAFT" => Carried(o) = 0
    BY DEF Carried
  <2> HIDE DEF c, cost
  <2>4. Gains(c, p.move) = 1 * cost
    BY InGains
  <2>5. Gains(c, p.move) = cost
    BY <1>3, <2>4
  <2> HIDE DEF p
  <2>6. PlanGain(plan) /\ PlanGain(none)
    BY <1>1, <1>3, <2>5, OneCellGains, EmptyPlanGains
  <2>7. /\ plan.op = "cancel" /\ plan.doc = o /\ plan.wip = -cost
        /\ none.op = "cancel" /\ none.doc = o /\ none.wip = 0
    BY PlanFields, PlanHas
  <2> HIDE DEF plan, none
  <2>8. /\ order[o].status = "IN_PROGRESS" => PlanWip(plan)
        /\ order[o].status = "DRAFT" => PlanWip(none)
    BY <2>2, <2>3, <2>7 DEF PlanWip, ProductionOps
  <2> QED BY <2>1, <2>6, <2>8, BeginBalances DEF PlanBalances
<1> QED BY <1>4, <1>5, <1>6

LEMMA PostDraftBalances ==
  ASSUME BooksInv, NEW h \in Handlers, NEW n \in Drafts, NEW price \in Prices,
         PostDraft(h, n, price)
  PROVE  BalanceInv'
<1> DEFINE c == DraftCell[n]
           delta == draft[n].actual - item[c]
           fix == Correction(c, delta, price, DraftDate[n], n)
           post == [x \in {c} \ {y \in {c} : delta = 0} |-> fix]
           cost == CorrectionCost(c, delta, price)
           plan == Plan("post", n, post, cost, 0)
<1>1. /\ c \in Cells /\ draft[n].actual \in Nat /\ item[c] \in Nat
      /\ moves[c] \in Seq(Move)
  BY DocumentsAssumption DEF BooksInv, TypeInv, Typed, SafeInv, DraftsOK
<1>2. /\ delta \in Int /\ price \in Nat /\ DraftDate[n] \in Dates
      /\ n \in Docs \cup {NoDoc}
  BY <1>1, DocumentsAssumption, NumbersAssumption DEF Dates, Docs
<1>3. Begin(h, plan)
  BY DEF PostDraft
<1>4. cost \in Int /\ Gains(c, fix.move) = cost /\ (delta = 0 => cost = 0)
  <2> HIDE DEF c, delta
  <2>1. cost \in Int
    BY <1>1, <1>2, CorrectionType
  <2>2. Gains(c, fix.move) = cost
    BY <1>2, CorrectionGains
  <2>3. delta = 0 => cost = 0
    BY <1>1, NoCorrection
  <2> QED BY <2>1, <2>2, <2>3
<1>5. plan.op = "post" /\ plan.post = post /\ plan.stock = cost /\ plan.wip = 0
  BY PlanFields, PlanHas
<1>6. PlanWip(plan)
  <2> HIDE DEF post, cost
  <2> QED BY OtherWip DEF ProductionOps
<1> HIDE DEF plan, fix, cost
<1> DEFINE v == PlanGains(plan)
<1>7. CASE delta = 0
  <2>1. DOMAIN plan.post = {}
    BY <1>5, <1>7
  <2>2. PlanGain(plan)
    BY <1>4, <1>5, <1>7, <2>1, SumEmpty DEF PlanGain, Values
  <2> QED BY <1>3, <1>6, <2>2, BeginBalances DEF PlanBalances
<1>8. CASE delta # 0
  <2>1. DOMAIN plan.post = {c} /\ plan.post[c] = fix
    BY <1>5, <1>8
  <2>2. v[c] = cost
    BY <1>4, <2>1 DEF PlanGains
  <2> HIDE DEF v, c
  <2>3. SumOn(v, {c}) = cost
    BY <1>4, <2>2, SumOfOne
  <2>4. PlanGain(plan)
    BY <1>1, <1>4, <1>5, <2>1, <2>2, <2>3 DEF v, PlanGain, Values
  <2> QED BY <1>3, <1>6, <2>4, BeginBalances DEF PlanBalances
<1> QED BY <1>7, <1>8

LEMMA CompleteBalances ==
  ASSUME BooksInv, NEW h \in Handlers, NEW k \in Counts, NEW price \in Prices,
         Complete(h, k, price)
  PROVE  BalanceInv'
<1> DEFINE S == Corrected(k)
           post == [c \in S |-> Correction(c, Delta(k, c[2]), price, CountDate[k], k)]
           cost == MapThenSumSet(LAMBDA c : CorrectionCost(c, Delta(k, c[2]), price), S)
           plan == Plan("complete", k, post, cost, 0)
<1>1. /\ S \subseteq Cells /\ IsFiniteSet(S)
      /\ \A c \in S : Delta(k, c[2]) \in Int /\ Delta(k, c[2]) # 0
  BY CorrectedCells DEF BooksInv, TypeInv, SafeInv
<1>2. price \in Nat /\ CountDate[k] \in Dates /\ k \in Docs \cup {NoDoc}
  BY DocumentsAssumption, NumbersAssumption DEF Dates, Docs
<1>3. Begin(h, plan)
  BY DEF Complete
<1> HIDE DEF S
<1>4. ASSUME NEW c \in S
      PROVE  /\ CorrectionCost(c, Delta(k, c[2]), price) \in Int
             /\ Gains(c, Correction(c, Delta(k, c[2]), price, CountDate[k], k).move)
                  = CorrectionCost(c, Delta(k, c[2]), price)
  <2>1. moves[c] \in Seq(Move)
    BY <1>1 DEF BooksInv, TypeInv, Typed
  <2>2. Delta(k, c[2]) \in Int
    BY <1>1
  <2> QED BY <1>2, <2>1, <2>2, CorrectionType, CorrectionGains
<1> DEFINE costs == CorrectionCosts(k, price, S)
<1>5. Values(costs, S) /\ cost = SumOn(costs, S)
  <2>1. Values(CorrectionCosts(k, price, S), S)
    BY <1>4 DEF Values, CorrectionCosts
  <2> QED BY <1>1, <2>1, CorrectionSum
<1>6. DOMAIN post = S /\ \A c \in S : Gains(c, post[c].move) = costs[c]
  BY <1>4 DEF CorrectionCosts
<1> HIDE DEF post, cost, costs
<1>7. plan.post = post /\ plan.stock = cost
  BY PlanFields, PlanHas
<1>8. PlanWip(plan)
  BY OtherWip DEF ProductionOps
<1> HIDE DEF plan
<1> DEFINE v == PlanGains(plan)
<1>9. \A c \in S : v[c] = costs[c]
  BY <1>6, <1>7 DEF PlanGains
<1> HIDE DEF v
<1>10. SumOn(v, S) = SumOn(costs, S)
  BY <1>1, <1>5, <1>9, SumSame
<1>11. PlanGain(plan)
  BY <1>1, <1>5, <1>6, <1>7, <1>9, <1>10 DEF v, PlanGain, Values
<1> QED BY <1>3, <1>8, <1>11, BeginBalances DEF PlanBalances
\* A commit moves each cell's worth by what the plan gains there.
LEMMA CellWorth ==
  ASSUME BooksInv, NEW h \in Handlers, Write(h), NEW c \in Cells, Ordered(moves'[c])
  PROVE  /\ Ordered(moves[c])
         /\ SumOf(Layers(moves'[c]))
              = SumOf(Layers(moves[c]))
                + (IF c \in DOMAIN job[h].post THEN PlanGains(job[h])[c] ELSE 0)
<1> DEFINE j == job[h]
           m == j.post[c].move
           ls == Layers(moves[c])
<1>1. moves[c] \in Seq(Move)
  BY DEF BooksInv, TypeInv, Typed
<1>2. SumOf(ls) \in Nat
  BY <1>1, LayersType, SumOfType
<1>3. moves'[c] = IF c \in DOMAIN j.post THEN Append(moves[c], m) ELSE moves[c]
  BY DEF Write
<1>4. CASE c \notin DOMAIN j.post
  <2> HIDE DEF j
  <2>1. moves'[c] = moves[c]
    BY <1>3, <1>4
  <2>2. SumOf(ls) = SumOf(ls) + 0
    BY <1>2
  <2> QED BY <1>4, <2>1, <2>2 DEF j
<1>5. CASE c \in DOMAIN j.post
  <2>1. m \in Move /\ PlanOK(j) /\ PlanSettles(j)
    BY <1>5 DEF BooksInv, TypeInv, Typed, PlanTypes, SafeInv, JobsOK, QuantityInv,
                SettleInv, PlansSettle
  <2>2. /\ j.post[c].qty \in Nat
        /\ j.post[c].qty = item[c] + Signed(m)
        /\ item[c] \in Nat
    BY <1>5, <2>1 DEF PlanOK, PlanSettles, Fits, BooksInv, TypeInv, SafeInv
  <2>3. Len(ls) >= item[c] /\ Len(ls) \in Nat
    <3>1. LayersCoverStock
      BY LayersCover DEF BooksInv
    <3>2. ls \in Seq(Nat)
      BY <1>1, LayersType
    <3> QED BY <3>1, <3>2 DEF LayersCoverStock
  <2>4. m.in \in BOOLEAN /\ m.qty \in Nat
    BY <2>1, MoveFields DEF IsMovement
  <2>5. moves'[c] = Append(moves[c], m)
    BY <1>3, <1>5
  <2>6. PlanGains(j)[c] = Gains(c, m)
    BY <1>5 DEF PlanGains
  <2> HIDE DEF m
  <2>7. ~m.in => m.qty <= Len(ls)
    <3>1. ~m.in => Signed(m) = -m.qty
      BY DEF Signed
    <3> DEFINE n == Len(ls)
    <3>2. n >= item[c] /\ n \in Nat
      BY <2>3
    <3> HIDE DEF n
    <3>3. ~m.in => m.qty <= n
      BY <2>2, <2>4, <3>1, <3>2
    <3> QED BY <3>3 DEF n
  <2>8. Gains(c, m) = Adds(ls, m)
    <3>1. ~m.in => IssueCost(c, m.qty) = SumOf(SubSeq(ls, 1, m.qty))
      BY <1>1, <2>4, <2>7, IssueCostIs
    <3> QED BY <3>1 DEF Gains, Adds
  <2>9. Ordered(Append(moves[c], m))
    BY <2>5
  <2>10. SumOf(Layers(Append(moves[c], m))) = SumOf(ls) + Adds(ls, m)
    BY <1>1, <2>1, <2>7, <2>9, WorthAppend
  <2>11. Ordered(moves[c])
    BY <1>1, <2>1, <2>9, OrderedPrefix
  <2> HIDE DEF j, ls
  <2> QED BY <1>5, <2>5, <2>6, <2>8, <2>10, <2>11 DEF j, ls
<1> QED BY <1>4, <1>5

LEMMA WriteBooksStock ==
  ASSUME BooksInv, NEW h \in Handlers, Write(h)
  PROVE  StockBooked'
<1> SUFFICES ASSUME InOrder' PROVE books'.stock = SumOn(Worths', Cells)
  BY DEF StockBooked
<1> DEFINE j == job[h]
           g == PlanGains(j)
           D == DOMAIN j.post
           gains == [c \in Cells |-> IF c \in D THEN g[c] ELSE 0]
           v == Worths
           w == Worths'
<1>1. \A c \in Cells : Ordered(moves'[c])
  BY DEF InOrder
<1>2. \A c \in Cells :
        /\ Ordered(moves[c])
        /\ SumOf(Layers(moves'[c])) = SumOf(Layers(moves[c])) + (IF c \in D THEN g[c] ELSE 0)
  BY <1>1, CellWorth
<1>3. books.stock = SumOn(v, Cells)
  BY <1>2 DEF BooksInv, BalanceInv, StockBooked, InOrder
<1>4. PlanGain(j)
  BY DEF BooksInv, BalanceInv, PlansBalance, PlanBalances
<1>5. D \subseteq Cells /\ Values(g, D) /\ j.stock = SumOn(g, D)
  BY <1>4 DEF PlanGain
<1>6. books'.stock = books.stock + j.stock
  BY DEF Write
<1>7. Values(v, Cells)
  <2>1. ASSUME NEW c \in Cells PROVE v[c] \in Int
    <3>1. moves[c] \in Seq(Move)
      BY DEF BooksInv, TypeInv, Typed
    <3>2. SumOf(Layers(moves[c])) \in Nat
      BY <3>1, LayersType, SumOfType
    <3> QED BY <3>2 DEF Worths
  <2> QED BY <2>1 DEF Values
<1>8. \A c \in Cells : w[c] = v[c] + gains[c]
  BY <1>2 DEF Worths
<1> HIDE DEF j, g, D, v, w
<1>9. Values(gains, Cells)
  BY <1>5 DEF Values
<1>10. \A c \in Cells : gains[c] = IF c \in D THEN g[c] ELSE 0
  OBVIOUS
<1> HIDE DEF gains
<1>11. SumOn(gains, Cells) = SumOn(g, D)
  BY <1>5, <1>10, CellsAreFinite, SumWithin
<1>12. SumOn(w, Cells) = SumOn(v, Cells) + SumOn(gains, Cells)
  BY <1>7, <1>8, <1>9, CellsAreFinite, SumAdd
<1>13. books'.stock = SumOn(w, Cells)
  BY <1>3, <1>5, <1>6, <1>11, <1>12
<1> QED BY <1>13 DEF w

LEMMA CarriedsType ==
  ASSUME TypeInv
  PROVE  Values(Carrieds, Orders) /\ \A o \in Orders : Carrieds[o] = Carried(o)
<1>1. \A o \in Orders : Carried(o) \in Int
  BY DEF TypeInv, Typed, Carried
<1> QED BY <1>1 DEF Values, Carrieds

LEMMA CommitBooksWip ==
  ASSUME BooksInv, NEW h \in Handlers, Commit(h)
  PROVE  WipBooked'
<1> DEFINE j == job[h]
           v == Carrieds
           w == Carrieds'
<1> PICK o : o = job[h].doc
  OBVIOUS
<1>1. /\ PlanOK(j) /\ PlanTypes(j) /\ PlanWip(j) /\ Write(h)
      /\ DOMAIN order = Orders
  BY CommitWrites DEF BooksInv, BalanceInv, PlansBalance, PlanBalances, TypeInv, Typed,
                      SafeInv, JobsOK
<1>2. books'.wip = books.wip + j.wip /\ j.wip \in Int
  BY <1>1 DEF Write, PlanTypes
<1>3. books.wip = SumOn(v, Orders)
  BY DEF BooksInv, BalanceInv, WipBooked
<1>4. Values(v, Orders) /\ \A q \in Orders : v[q] = Carried(q)
  BY CarriedsType DEF BooksInv
<1>5. \A q \in Orders : w[q] = Carried(q)'
  BY DEF Carrieds
<1>6. SumOn(v, Orders) \in Int
  BY <1>4, FinitenessAssumption, SumType
<1>7. CASE CommitOrder(h) \/ CommitFinish(h) \/ CommitCancel(h)
  <2>1. o \in Orders
    BY <1>1, <1>7 DEF PlanOK, CommitOrder, CommitFinish, CommitCancel
  <2>2. w[o] = v[o] + j.wip /\ \A q \in Orders \ {o} : w[q] = v[q]
    <3>1. \A q \in Orders \ {o} : order'[q] = order[q]
      BY <1>1, <1>7 DEF CommitOrder, CommitFinish, CommitCancel
    <3>2. \A q \in Orders \ {o} : w[q] = v[q]
      BY <1>4, <1>5, <3>1 DEF Carried
    <3>3. CASE CommitOrder(h)
      <4>1. j.op = "order" /\ order'[o] = [status |-> "IN_PROGRESS", cost |-> j.wip]
        BY <1>1, <2>1, <3>3 DEF CommitOrder
      <4>2. Carried(o)' = j.wip
        BY <4>1 DEF Carried
      <4>3. Carried(o) = 0
        BY <1>1, <4>1 DEF PlanWip
      <4>4. w[o] = j.wip /\ v[o] = 0
        BY <1>4, <1>5, <2>1, <4>2, <4>3
      <4> HIDE DEF j, w, v
      <4> QED BY <1>2, <3>2, <4>4
    <3>4. CASE CommitFinish(h) \/ CommitCancel(h)
      <4>1. /\ j.op \in {"finish", "cancel"}
            /\ \E s \in {"COMPLETED", "CANCELLED"} : order'[o] = Bare(s)
        BY <1>1, <2>1, <3>4 DEF CommitFinish, CommitCancel
      <4>2. Carried(o)' = 0
        BY <4>1 DEF Carried, Bare
      <4>3. j.wip = -Carried(o)
        BY <1>1, <4>1 DEF PlanWip
      <4>4. w[o] = 0 /\ j.wip = -v[o] /\ v[o] \in Int
        BY <1>4, <1>5, <2>1, <4>2, <4>3 DEF Values
      <4> HIDE DEF j, w, v
      <4> QED BY <3>2, <4>4
    <3> QED BY <1>7, <3>3, <3>4
  <2>3. v[o] \in Int
    BY <1>4, <2>1 DEF Values
  <2> HIDE DEF j, v, w
  <2>4. w[o] \in Int
    BY <1>2, <2>2, <2>3
  <2>5. SumOn(w, Orders) = SumOn(v, Orders) + w[o] - v[o]
    BY <1>4, <2>1, <2>2, <2>4, FinitenessAssumption, SumPoint
  <2>6. books'.wip = SumOn(w, Orders)
    BY <1>2, <1>3, <1>6, <2>2, <2>3, <2>5
  <2> QED BY <2>6 DEF WipBooked, w
<1>8. CASE ~(CommitOrder(h) \/ CommitFinish(h) \/ CommitCancel(h))
  <2>1. order' = order /\ j.op \notin ProductionOps
    BY <1>8 DEF Commit, CommitMove, CommitShipment, CommitImport, CommitDraft,
                CommitCounting, CommitCount, docs, ProductionOps
  <2>2. j.wip = 0
    BY <1>1, <2>1 DEF PlanWip
  <2>3. w = v
    BY <2>1 DEF Carrieds, Carried
  <2> HIDE DEF v, w, j
  <2>4. books'.wip = SumOn(w, Orders)
    BY <1>2, <1>3, <1>6, <2>2, <2>3
  <2> QED BY <2>4 DEF WipBooked, w
<1> QED BY <1>7, <1>8

LEMMA CommitBalances ==
  ASSUME BooksInv, OneHandler, NEW h \in Handlers, Commit(h)
  PROVE  BalanceInv'
<1>1. StockBooked' /\ WipBooked'
  BY CommitWrites, WriteBooksStock, CommitBooksWip
<1>2. \A g \in Handlers : job'[g] = Idle
  BY CommitWrites, JobsEnd DEF BooksInv, TypeInv
<1>3. PlanBalances(Idle)'
  <2>1. Idle.op = "idle" /\ Idle.post = <<>> /\ Idle.stock = 0 /\ Idle.wip = 0
    BY PlanFields, PlanHas DEF Idle
  <2>2. DOMAIN Idle.post = {}
    BY <2>1
  <2>3. PlanWip(Idle)'
    BY <2>1 DEF PlanWip, ProductionOps
  <2>4. SumOn(PlanGains(Idle)', {}) = 0
    BY SumEmpty
  <2>5. PlanGain(Idle)'
    BY <2>1, <2>2, <2>4 DEF PlanGain, Values
  <2> QED BY <2>3, <2>5 DEF PlanBalances
<1>4. PlansBalance'
  BY <1>2, <1>3 DEF PlansBalance
<1> QED BY <1>1, <1>4 DEF BalanceInv
LEMMA BooksInit == Init => BooksInv
<1> SUFFICES ASSUME Init PROVE BooksInv
  OBVIOUS
<1>1. moves = [c \in Cells |-> <<>>] /\ books.stock = 0 /\ books.wip = 0
  BY DEF Init
<1>2. QuantityInv /\ TypeInv
  BY QuantityInit, TypesInit
<1>3. \A c \in Cells : Worths[c] = 0
  <2>1. SumOf(Layers(<<>>)) = 0
    <3> DEFINE none == [i \in 1..0 |-> 0]
               ms == <<>>
               ls == Layers(ms)
    <3>1. ms \in Seq(Move) /\ Ordered(ms) /\ Movements(ms)
      BY NetEmpty DEF Ordered
    <3> HIDE DEF ms
    <3>2. ls = LayersOf(ms)
      BY <3>1, OrderedIsSorted, LayersAreOfSorted
    <3>3. \A i \in 1..Len(ms) : ms[i].price \in Nat
      BY <3>1, MovesAreMovements, MoveFields
    <3>4. PICK F : F[0] = <<>> /\ LayersOf(ms) = F[Len(ms)]
      BY <3>1, <3>3, LayersRun
    <3>5. ls = <<>>
      BY <3>2, <3>4 DEF ms
    <3>6. none = <<>>
      OBVIOUS
    <3>7. SumOf(none) = 0
      <4>1. SumOf(none) = 0 * 0
        BY SumOfUnits
      <4> HIDE DEF none
      <4> QED BY <4>1
    <3> HIDE DEF ls, none
    <3>8. SumOf(ls) = 0
      BY <3>5, <3>6, <3>7
    <3> QED BY <3>8 DEF ls, ms
  <2> QED BY <1>1, <2>1 DEF Worths
<1>4. SumOn(Worths, Cells) = 0
  BY <1>3, CellsAreFinite, SumZero
<1>5. \A o \in Orders : Carrieds[o] = 0
  <2>1. \A o \in Orders : order[o].status = "DRAFT"
    BY DEF Init, Bare
  <2> QED BY <2>1 DEF Carrieds, Carried
<1>6. SumOn(Carrieds, Orders) = 0
  BY <1>5, FinitenessAssumption, SumZero
<1>7. \A h \in Handlers : job[h] = Idle
  BY DEF Init
<1> QED BY <1>1, <1>2, <1>4, <1>6, <1>7, IdleBalances
        DEF BooksInv, BalanceInv, StockBooked, WipBooked, PlansBalance

LEMMA BalanceStep ==
  ASSUME BooksInv, OneHandler, [Next]_vars
  PROVE  BalanceInv'
<1>1. ASSUME NEW h \in Handlers, NEW c \in Entry, NEW q \in Lots
      PROVE  /\ \A d \in Dates : Receive(h, c, q, d) => BalanceInv'
             /\ \A price \in Prices : AdjustIn(h, c, q, price) \/ Import(h, c, q, price)
                  => BalanceInv'
             /\ AdjustOut(h, c, q) => BalanceInv'
  <2>1. c \in Cells
    BY NumbersAssumption
  <2> QED BY <2>1, MovementsBalance
<1>2. ASSUME UNCHANGED vars PROVE BalanceInv'
  BY <1>2, QuietBalances DEF vars, docs
<1>3. ASSUME NEW h \in Handlers, NEW c \in Cells, NEW w \in Warehouses, NEW d \in Dates,
             Transfer(h, c, w, d)
      PROVE  BalanceInv'
  BY <1>3, TransferBalances
<1>4. ASSUME NEW h \in Handlers, NEW i \in Invoices, NEW w \in Warehouses, NEW d \in Dates,
             Ship(h, i, w, d)
      PROVE  BalanceInv'
  BY <1>4, ShipBalances
<1>5. ASSUME NEW n \in Drafts, NEW type, NEW actual, CreateDraft(n, type, actual)
      PROVE  BalanceInv'
  BY <1>5, QuietBalances DEF CreateDraft
<1>6. ASSUME NEW h \in Handlers, NEW n \in Drafts, NEW price \in Prices, PostDraft(h, n, price)
      PROVE  BalanceInv'
  BY <1>6, PostDraftBalances
<1>7. ASSUME NEW h \in Handlers, NEW k \in Counts
      PROVE  /\ StartCounting(h, k) => BalanceInv'
             /\ \A price \in Prices : Complete(h, k, price) => BalanceInv'
  BY StartCountingBalances, CompleteBalances
<1>8. ASSUME NEW k \in Counts
      PROVE  /\ \A p, fact : SetFact(k, p, fact) => BalanceInv'
             /\ Submit(k) \/ CancelCount(k) => BalanceInv'
             /\ \A p : Classify(k, p) => BalanceInv'
  BY QuietBalances DEF SetFact, Submit, CancelCount, Classify
<1>9. ASSUME NEW h \in Handlers, NEW o \in Orders,
             StartOrder(h, o) \/ FinishOrder(h, o) \/ CancelOrder(h, o)
      PROVE  BalanceInv'
  BY <1>9, ProductionBalances
<1>10. ASSUME NEW h \in Handlers, NEW w \in Warehouses, Release(h, w)
       PROVE  BalanceInv'
  BY <1>10, ReleaseBalances
<1>11. ASSUME NEW h \in Handlers, Commit(h)
       PROVE  BalanceInv'
  BY <1>11, CommitBalances
<1>12. ASSUME NEW h \in Handlers, Fail(h)
       PROVE  BalanceInv'
  BY <1>12, FailBalances
<1> QED BY <1>1, <1>2, <1>3, <1>4, <1>5, <1>6, <1>7, <1>8, <1>9, <1>10, <1>11, <1>12
        DEF Next

\* The sums of BooksMatchStock are the sums above.
LEMMA WorthSum ==
  ASSUME Values(Worths, Cells)
  PROVE  MapThenSumSet(LAMBDA c : SumOf(Layers(moves[c])), Cells) = SumOn(Worths, Cells)
<1> DEFINE v == Worths
           pick == AnyPick(Cells)
           Eq(H) == H = [s \in SUBSET Cells |->
                           IF s = {} THEN 0
                           ELSE SumOf(Layers(moves[AnyOf(s)])) + H[s \ {AnyOf(s)}]]
           sum == MapThenSumSet(LAMBDA c : SumOf(Layers(moves[c])), Cells)
<1>1. Picks(pick, Cells) /\ \A s \in SUBSET Cells : pick[s] = AnyOf(s)
  BY AnyPicks
<1>2. \A s \in SUBSET Cells : s # {} =>
        AnyOf(s) \in Cells /\ v[AnyOf(s)] = SumOf(Layers(moves[AnyOf(s)]))
  <2>1. \A s \in SUBSET Cells : s # {} => AnyOf(s) \in Cells
    BY <1>1 DEF Picks
  <2>2. \A c \in Cells : v[c] = SumOf(Layers(moves[c]))
    BY DEF Worths
  <2> QED BY <2>1, <2>2
<1> HIDE DEF pick, v
<1>3. PICK G \in [SUBSET Cells -> Int] : \A s \in SUBSET Cells : Step(G, 0, v, pick, s)
  <2>1. HasSteps(0, v, pick, Cells)
    BY <1>1, CellsAreFinite, RecursionExists DEF v
  <2> QED BY <2>1 DEF HasSteps
<1>4. Eq(G)
  BY <1>1, <1>2, <1>3 DEF Step
<1>5. PICK H : Eq(H) /\ sum = H[Cells]
  BY <1>4 DEF MapThenSumSet, MapThenFoldSet, AnyOf
<1> HIDE DEF sum
<1>6. \A s \in SUBSET Cells : Step(H, 0, v, pick, s)
  BY <1>1, <1>2, <1>5 DEF Step
<1>7. H[Cells] = 0 + SumOn(v, Cells)
  BY <1>1, <1>6, CellsAreFinite, RecursionIsSum DEF v
<1>8. SumOn(v, Cells) \in Int
  BY CellsAreFinite, SumType DEF v
<1>9. sum = SumOn(v, Cells)
  BY <1>5, <1>7, <1>8
<1> QED BY <1>9 DEF sum, v

OrderCosts == [o \in InProgress |-> order[o].cost]

LEMMA CostSum ==
  ASSUME Values(OrderCosts, InProgress)
  PROVE  MapThenSumSet(LAMBDA o : order[o].cost, InProgress) = SumOn(OrderCosts, InProgress)
<1> DEFINE v == OrderCosts
           S == InProgress
           pick == AnyPick(S)
           Eq(H) == H = [s \in SUBSET S |->
                           IF s = {} THEN 0 ELSE order[AnyOf(s)].cost + H[s \ {AnyOf(s)}]]
           sum == MapThenSumSet(LAMBDA o : order[o].cost, S)
<1>0. IsFiniteSet(S)
  BY FinitenessAssumption, FS_Subset DEF InProgress
<1>1. Picks(pick, S) /\ \A s \in SUBSET S : pick[s] = AnyOf(s)
  BY AnyPicks
<1>2. \A s \in SUBSET S : s # {} => AnyOf(s) \in S /\ v[AnyOf(s)] = order[AnyOf(s)].cost
  <2>1. \A s \in SUBSET S : s # {} => AnyOf(s) \in S
    BY <1>1 DEF Picks
  <2>2. \A o \in S : v[o] = order[o].cost
    BY DEF OrderCosts
  <2> QED BY <2>1, <2>2
<1> HIDE DEF pick, v, S
<1>3. PICK G \in [SUBSET S -> Int] : \A s \in SUBSET S : Step(G, 0, v, pick, s)
  <2>1. HasSteps(0, v, pick, S)
    BY <1>0, <1>1, RecursionExists DEF v, S
  <2> QED BY <2>1 DEF HasSteps
<1>4. Eq(G)
  BY <1>1, <1>2, <1>3 DEF Step
<1>5. PICK H : Eq(H) /\ sum = H[S]
  BY <1>4 DEF MapThenSumSet, MapThenFoldSet, AnyOf
<1> HIDE DEF sum
<1>6. \A s \in SUBSET S : Step(H, 0, v, pick, s)
  BY <1>1, <1>2, <1>5 DEF Step
<1>7. H[S] = 0 + SumOn(v, S)
  BY <1>0, <1>1, <1>6, RecursionIsSum DEF v, S
<1>8. SumOn(v, S) \in Int
  BY <1>0, SumType DEF v, S
<1>9. sum = SumOn(v, S)
  BY <1>5, <1>7, <1>8
<1> QED BY <1>9 DEF sum, v, S

LEMMA BooksFollow == BooksInv => BooksMatchStock
<1> SUFFICES ASSUME BooksInv, InOrder
             PROVE  /\ books.stock = MapThenSumSet(LAMBDA c : SumOf(Layers(moves[c])), Cells)
                    /\ books.wip = MapThenSumSet(LAMBDA o : order[o].cost, InProgress)
  BY DEF BooksMatchStock, InOrder
<1>1. Values(Worths, Cells)
  <2>1. ASSUME NEW c \in Cells PROVE Worths[c] \in Int
    <3>1. moves[c] \in Seq(Move)
      BY DEF BooksInv, TypeInv, Typed
    <3>2. SumOf(Layers(moves[c])) \in Nat
      BY <3>1, LayersType, SumOfType
    <3> QED BY <3>2 DEF Worths
  <2> QED BY <2>1 DEF Values
<1>2. books.stock = MapThenSumSet(LAMBDA c : SumOf(Layers(moves[c])), Cells)
  <2>1. books.stock = SumOn(Worths, Cells)
    BY DEF BooksInv, BalanceInv, StockBooked
  <2> QED BY <1>1, <2>1, WorthSum
<1>3. Values(OrderCosts, InProgress) /\ InProgress \subseteq Orders
      /\ \A o \in InProgress : OrderCosts[o] = order[o].cost
  BY DEF BooksInv, TypeInv, Typed, Values, OrderCosts, InProgress
<1>4. \A o \in Orders : Carrieds[o] = IF o \in InProgress THEN OrderCosts[o] ELSE 0
  BY DEF Carrieds, Carried, OrderCosts, InProgress
<1>5. SumOn(Carrieds, Orders) = SumOn(OrderCosts, InProgress)
  BY <1>3, <1>4, FinitenessAssumption, SumWithin
<1>6. books.wip = MapThenSumSet(LAMBDA o : order[o].cost, InProgress)
  <2>1. books.wip = SumOn(Carrieds, Orders)
    BY DEF BooksInv, BalanceInv, WipBooked
  <2> QED BY <1>3, <1>5, <2>1, CostSum
<1> QED BY <1>2, <1>6

(* One request at a time: as long as documents are entered in the order of   *)
(* their dates, accounts 201 and 204 hold what the layers in stock cost, and *)
(* account 203 the cost of the orders in production: every journal of a      *)
(* receipt, an issue, a transfer, a count, a draft or an order moves them by *)
(* what its movements are worth.                                             *)
THEOREM SerialBooksMatchStock ==
  ASSUME OneHandler
  PROVE  Spec => []BooksMatchStock
<1>1. BooksInv /\ [Next]_vars => BooksInv'
  <2>1. QuantityInv /\ [Next]_vars => QuantityInv'
    BY QuantityNext
  <2>2. TypeInv /\ [Next]_vars => TypeInv'
    BY SafeNext, TypesStep DEF TypeInv
  <2> QED BY <2>1, <2>2, BalanceStep DEF BooksInv
<1> QED BY BooksInit, <1>1, BooksFollow, PTL DEF Spec
================================================================================
