------------------------------ MODULE Receivable ------------------------------
(***************************************************************************)
(* What the receivable side promises, whatever the requests it serves: an  *)
(* invoice is recognised as revenue once, it is settled or netted only     *)
(* once it is recognised, money never settles it beyond its total, netting *)
(* counts what is settled and netted already, and account 211 owes exactly *)
(* the recognised totals that are neither settled nor netted.              *)
(***************************************************************************)
EXTENDS Integers, FiniteSets, Functions

CONSTANTS
  Invoices,  \* a finite set
  Total      \* the total of each, a positive integer

VARIABLES recognised, settled, netted, balance

receivable == <<recognised, settled, netted, balance>>

Zero == [i \in Invoices |-> 0]
SumOf(f) == FoldFunction(LAMBDA a, b : a + b, 0, f)

Init ==
  /\ recognised = {}
  /\ settled = Zero
  /\ netted = Zero
  /\ balance = 0

\* One transaction: the invoices R become recognised, and d[i] is paid on i.
Transact(R, d) ==
  /\ R \cap recognised = {}
  /\ \A i \in Invoices :
       d[i] > 0 => i \in recognised \cup R /\ settled[i] + d[i] <= Total[i]
  /\ recognised' = recognised \cup R
  /\ settled' = [i \in Invoices |-> settled[i] + d[i]]
  /\ balance' = balance + SumOf([i \in R |-> Total[i]]) - SumOf(d)
  /\ UNCHANGED netted

\* One transaction: d[i] of what is open on i is set off against a payable.
Net(d) ==
  /\ \A i \in Invoices :
       d[i] > 0 => i \in recognised /\ settled[i] + netted[i] + d[i] <= Total[i]
  /\ netted' = [i \in Invoices |-> netted[i] + d[i]]
  /\ balance' = balance - SumOf(d)
  /\ UNCHANGED <<recognised, settled>>

\* The greatest amount a transaction could pay on an invoice.
Payments == [Invoices -> 0..SumOf(Total)]

Next ==
  \/ \E R \in SUBSET Invoices, d \in Payments : Transact(R, d)
  \/ \E d \in Payments : Net(d)

Spec == Init /\ [][Next]_receivable
================================================================================
